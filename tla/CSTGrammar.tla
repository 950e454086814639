----------------------------- MODULE CSTGrammar -----------------------------
(***************************************************************************)
(* Normalized grammars, CST_grammar.ml: rules with a body, and what the    *)
(* passes over them ask of a body.  A node is an operator, the identifier  *)
(* it carries, its arguments, and for Choice the names of the cases.  The  *)
(* name of a case is made from its body and decides nothing else: the body *)
(* it was made from is the name.                                           *)
(***************************************************************************)
EXTENDS TopoSort, SequencesExt, FiniteSetsExt

Node(op, name, args, cases) == [op |-> op, name |-> name, args |-> args, cases |-> cases]

Symbol(name)      == Node("Symbol", name, <<>>, <<>>)
Constant(name)    == Node("Constant", name, <<>>, <<>>)  \* Token of a literal
Token(name)       == Node("Token", name, <<>>, <<>>)     \* any other token
Blank             == Node("Blank", "", <<>>, <<>>)
Repeat(x)         == Node("Repeat", "", <<x>>, <<>>)
Repeat1(x)        == Node("Repeat1", "", <<x>>, <<>>)
Optional(x)       == Node("Optional", "", <<x>>, <<>>)
Sequence(xs)      == Node("Seq", "", xs, <<>>)
Alias(name, x)    == Node("Alias", name, <<x>>, <<>>)
Choice(names, xs) == Node("Choice", "", xs, names)
ChoiceOf(xs)      == Choice(xs, xs)                      \* assign_case_names

\* The nodes of a body, one for each occurrence, without what is under the
\* operators in stop.
RECURSIVE Subnodes(_, _)
Subnodes(x, stop) ==
  <<x>> \o IF x.op \in stop THEN <<>>
           ELSE FlattenSeq([i \in DOMAIN x.args |-> Subnodes(x.args[i], stop)])

Names(nodes, ops) == LET refs == SelectSeq(nodes, LAMBDA y : y.op \in ops)
                     IN  [i \in DOMAIN refs |-> refs[i].name]

\* collect_names and iter_ident: what a body depends on, with repetitions.
Deps(x) == Names(Subnodes(x, {"Alias"}), {"Symbol", "Alias"})

\* Mutant: the name of an alias does not use a rule.
detect_usedSymbols(entrypoints, g) ==
  LET next == [n \in DOMAIN g |-> ToSet(Names(Subnodes(g[n], {}), {"Symbol"}))]
  IN  Reach(next, entrypoints)

\* The rules the parser is generated for; what an alias hides is used as well.
detect_used(entrypoints, g) ==
  LET next == [n \in DOMAIN g |-> ToSet(Names(Subnodes(g[n], {}), {"Symbol", "Alias"}))]
  IN  Reach(next, entrypoints)

-----------------------------------------------------------------------------
(* Topo_sort and Rectypes *)

tsort_rules(g) == tsort([n \in DOMAIN g |-> ToSet(Deps(g[n]))])

\* What the type of a body abbreviates: not what the cases of a variant are.
Unguarded(x) == ToSet(Names(Subnodes(x, {"Alias", "Choice"}), {"Symbol", "Alias"}))

prevent_cyclic_type_abbreviations(g, order) ==
  LET abbreviates == [n \in DOMAIN g |-> Unguarded(g[n])]
  IN  [n \in DOMAIN g |-> IF is_rectype(abbreviates, order, n)
                          THEN Choice(<<Symbol("Rectype")>>, <<g[n]>>) ELSE g[n]]
=============================================================================
