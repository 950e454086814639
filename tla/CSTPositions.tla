---------------------------- MODULE CSTPositions ----------------------------
(***************************************************************************)
(* Normalized grammars, CST_grammar.ml, for passes that replace what is    *)
(* found somewhere in a body.  A body is a function from positions to      *)
(* nodes: <<>> is the root, Append(p, i) the argument number i of the node *)
(* at p.  A node is an operator, the identifier it carries and for Choice  *)
(* the names of the cases.  The name of a case is made from its body and   *)
(* decides nothing else: the body it was made from is the name.            *)
(***************************************************************************)
EXTENDS TopoSort, SequencesExt, FiniteSetsExt

Node(op, name, cases) == [op |-> op, name |-> name, cases |-> cases]

Leaf(node) == [p \in {<<>>} |-> node]

Tree(node, args) ==
  LET under == UNION {{<<i>> \o q : q \in DOMAIN args[i]} : i \in DOMAIN args}
  IN  [p \in {<<>>} \cup under |-> IF p = <<>> THEN node ELSE args[Head(p)][Tail(p)]]

Symbol(name)      == Leaf(Node("Symbol", name, <<>>))
Constant(name)    == Leaf(Node("Constant", name, <<>>))  \* Token of a literal
Token(name)       == Leaf(Node("Token", name, <<>>))     \* any other token
Blank             == Leaf(Node("Blank", "", <<>>))
Repeat(x)         == Tree(Node("Repeat", "", <<>>), <<x>>)
Repeat1(x)        == Tree(Node("Repeat1", "", <<>>), <<x>>)
Optional(x)       == Tree(Node("Optional", "", <<>>), <<x>>)
Sequence(xs)      == Tree(Node("Seq", "", <<>>), xs)
Alias(name, x)    == Tree(Node("Alias", name, <<>>), <<x>>)
Choice(names, xs) == Tree(Node("Choice", "", names), xs)
ChoiceOf(xs)      == Choice(xs, xs)                      \* assign_case_names

Constructors == {"Choice", "Seq", "Optional", "Repeat", "Repeat1"}
Operators    == Constructors \cup {"Symbol", "Constant", "Token", "Blank", "Alias"}

Root(x) == x[<<>>]

IsBody(x) ==
  /\ IsFiniteSet(DOMAIN x) /\ DOMAIN x \subseteq Seq(Nat) /\ <<>> \in DOMAIN x
  /\ \A p \in DOMAIN x : x[p].op \in Operators
  /\ \A p, q \in DOMAIN x : IsStrictPrefix(p, q) => x[p].op \in Constructors \cup {"Alias"}

\* The body at a position of another.
Sub(x, p) ==
  LET under == {r \in DOMAIN x : IsPrefix(p, r)}
  IN  [q \in {SubSeq(r, Len(p) + 1, Len(r)) : r \in under} |-> x[p \o q]]

\* The positions that are not under an operator of stop.
Open(x, stop) ==
  {p \in DOMAIN x : \A q \in DOMAIN x : IsStrictPrefix(q, p) => x[q].op \notin stop}

\* The names that the nodes with the operators in ops carry there.
Uses(x, ops, stop) == {x[p].name : p \in {p \in Open(x, stop) : x[p].op \in ops}}

\* collect_names and iter_ident: what a body depends on.
Deps(x) == Uses(x, {"Symbol", "Alias"}, {"Alias"})

\* compute_size, when the bodies in named have been replaced by symbols: one
\* for each operator and for each case.
Size(x, named) ==
  LET counted == {p \in DOMAIN x : \A q \in DOMAIN x : IsPrefix(q, p) =>
                    x[q].op \in Constructors /\ (q = <<>> \/ Sub(x, q) \notin named)}
      cases   == {p \in DOMAIN x \ {<<>>} : Front(p) \in counted /\ x[Front(p)].op = "Choice"}
  IN  Cardinality(counted) + Cardinality(cases)

\* The rules the parser is generated for; what an alias hides is used as well.
detect_used(entrypoints, g) ==
  Reach([n \in DOMAIN g |-> Uses(g[n], {"Symbol", "Alias"}, {})], entrypoints)

tsort_rules(g) == tsort([n \in DOMAIN g |-> Deps(g[n])])

\* Mutant: an option breaks a cycle, like a variant.
UnguardedStrict(x) == Uses(x, {"Symbol", "Alias"}, {"Alias", "Choice", "Optional"})

\* What the type of a body abbreviates: not what the cases of a variant are.
Unguarded(x) == Uses(x, {"Symbol", "Alias"}, {"Alias", "Choice"})

Rectype(x) == Choice(<<Symbol("Rectype")>>, <<x>>)

prevent_cyclic_type_abbreviations(g, order) ==
  LET abbreviates == [n \in DOMAIN g |-> Unguarded(g[n])]
  IN  [n \in DOMAIN g |-> IF is_rectype(abbreviates, order, n) THEN Rectype(g[n]) ELSE g[n]]
=============================================================================
