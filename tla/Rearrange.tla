------------------------------ MODULE Rearrange ------------------------------
(***************************************************************************)
(* From a normalized grammar to the types and functions of the generated   *)
(* OCaml code: rules are sorted by their dependencies (Topo_sort), cyclic  *)
(* abbreviations are prevented (Rectypes), and then, for the types and the *)
(* boilerplate but not for the parser, rules are rearranged (Deinline,     *)
(* Factorize, Inline).                                                     *)
(*                                                                         *)
(* Tsort is external: it promises the strongly connected components of the *)
(* dependencies, a component after those it depends on.  Everything here   *)
(* is checked for every order that keeps the promise.                      *)
(***************************************************************************)
EXTENDS CSTPositions

CONSTANTS
  Inputs,      (* grammars: functions from the names of rules to bodies    *)
  entrypoint,
  Extras,      (* the sets of extras to try                                *)
  NewNames,    (* the names there are for the rules factored out           *)
  MinUses, MinSize

\* What of_tree_sitter makes of a grammar before it sorts the rules: all that
\* is used is a rule, and a token at the root of a rule has the rule's name.
IsGrammar(g) ==
  /\ IsFiniteSet(DOMAIN g)
  /\ \A n \in DOMAIN g :
       /\ IsBody(g[n])
       /\ Uses(g[n], {"Symbol", "Alias"}, {}) \subseteq DOMAIN g
       /\ Root(g[n]).op = "Token" => g[n] = Token(n)

ASSUME RearrangeAssumption ==
  /\ MinUses \in Nat
  /\ MinSize \in Nat \ {0}
  /\ \A g \in Inputs : IsGrammar(g) /\ entrypoint \in DOMAIN g /\ DOMAIN g \cap NewNames = {}
  /\ \A g \in Inputs, e \in Extras : e \subseteq DOMAIN g

VARIABLES
  pass,     (* the pass that has been made last                            *)
  rules,    (* the bodies, by name                                         *)
  sorted,   (* for each rule those it depends on, when last sorted         *)
  inlined,  (* the rules with is_inlined_type                              *)
  extras,
  parser    (* the rules the parser is generated from                      *)

vars == <<pass, rules, sorted, inlined, extras, parser>>

Init ==
  /\ pass = "translated"
  /\ rules \in Inputs
  /\ extras \in Extras
  /\ sorted = [n \in DOMAIN rules |-> {}]
  /\ inlined = {}
  /\ parser = rules

-----------------------------------------------------------------------------
(* of_tree_sitter: sorting, and Rectypes *)

of_tree_sitter ==
  /\ pass = "translated" /\ pass' = "converted"
  /\ sorted' = tsort_rules(rules)
  /\ rules' = prevent_cyclic_type_abbreviations(rules, sorted')
  /\ parser' = rules'
  /\ UNCHANGED <<inlined, extras>>

-----------------------------------------------------------------------------
(* Deinline and Factorize *)

\* Mutant: the table is looked up without the names of the cases.
SameNodeUnnamed(x, y) ==
  DOMAIN x = DOMAIN y /\ \A p \in DOMAIN x : x[p].op = y[p].op /\ x[p].name = y[p].name

SameNode(x, y) == x = y

\* replace_nodes, under a root that stays although the table has it: nothing
\* is left of what is under a node that is replaced.
replace_nodes(names, x) ==
  LET found(p) == {z \in DOMAIN names : SameNode(Sub(x, p), z)}
      replaced == {p \in Open(x, {"Alias"}) \ {<<>>} : found(p) # {}}
      kept     == {p \in DOMAIN x : \A q \in replaced : ~ IsStrictPrefix(q, p)}
  IN  [p \in kept |-> IF p \in replaced
                      THEN Root(Symbol(names[CHOOSE z \in found(p) : TRUE]))
                      ELSE x[p]]

\* Where there are nodes in the rules, but not those that aliases hide.
Places(g) == UNION {{n} \X Open(g[n], {"Alias"}) : n \in DOMAIN g}

\* The nodes that occur often enough and are large enough.
candidates(g) ==
  LET node     == [o \in Places(g) |-> Sub(g[o[1]], o[2])]
      often(x) == Cardinality({o \in Places(g) : node[o] = x}) >= MinUses
  IN  {x \in {node[o] : o \in Places(g)} : often(x) /\ Size(x, {}) >= MinSize}

recompute_size(x, named) == Size(x, named)

\* The candidates that get a name, bottom-up: whether one does depends on the
\* smaller ones only.
Chosen(g) ==
  LET bodies == {g[n] : n \in DOMAIN g}
      cands  == candidates(g)
      large(x, named) == recompute_size(x, named) >= MinSize
      named[s \in 0 .. Max({0} \cup {Size(x, {}) : x \in cands})] ==
        IF s = 0 THEN bodies
        ELSE LET smaller == named[s - 1]
             IN  smaller \cup {x \in cands : Size(x, {}) = s /\ large(x, smaller)}
  IN  {x \in cands \ bodies : large(x, named[Size(x, {}) - 1])}

\* Of rules with one body the last one in the table gives it its name.
Owner(g, last, body) ==
  IF g[last] = body THEN last ELSE CHOOSE n \in DOMAIN g : g[n] = body

\* A bound: the new rules have names among NewNames.
EnoughNames(new) == Injection(new, NewNames) # {}

factorize_rules(new, last) ==
  LET bodies == {rules[n] : n \in DOMAIN rules}
      fresh  == CHOOSE f \in Injection(new, NewNames) : TRUE
      names  == [x \in bodies \cup new |->
                   IF x \in bodies THEN Owner(rules, last, x) ELSE fresh[x]]
      all    == [n \in DOMAIN rules \cup {fresh[x] : x \in new} |->
                   IF n \in DOMAIN rules THEN rules[n] ELSE CHOOSE x \in new : fresh[x] = n]
  IN  /\ EnoughNames(new)
      /\ rules' = [n \in DOMAIN all |-> replace_nodes(names, all[n])]
      /\ sorted' = tsort_rules(rules')
      /\ UNCHANGED <<inlined, extras, parser>>

deinline_rules ==
  /\ pass = "converted" /\ pass' = "deinlined"
  /\ \E last \in DOMAIN rules : factorize_rules({}, last)

Factorize ==
  /\ pass = "deinlined" /\ pass' = "factorized"
  /\ LET new == Chosen(rules)
     IN  \E last \in DOMAIN rules : factorize_rules(new, last)

-----------------------------------------------------------------------------
(* Inline *)

\* A reference to a token rule is a token with is_inlined = false, the only
\* kind of token that is written as the type of its name.
TokenType(name) == Node("TokenType", name, <<>>)

\* recursive_resolver: the rule that a name leads to through symbols.
resolve(g) ==
  LET next == [n \in DOMAIN g |->
                 IF Root(g[n]).op = "Symbol" THEN {Root(g[n]).name} ELSE {}]
  IN  [n \in DOMAIN g |-> CHOOSE m \in Reach(next, {n}) : Root(g[m]).op # "Symbol"]

times_used ==
  LET uses == {o \in Places(rules) : rules[o[1]][o[2]].op \in {"Symbol", "Alias"}}
  IN  [n \in DOMAIN rules |-> Cardinality({o \in uses : rules[o[1]][o[2]].name = n})]

\* A symbol that leads to a token becomes that token.
rewrite_node(resolved, node) ==
  IF node.op # "Symbol" THEN node
  ELSE LET y == Root(rules[resolved[node.name]])
       IN  CASE y.op = "Constant" -> y
             [] y.op = "Token" -> TokenType(y.name)
             [] OTHER -> node

\* The variants at the root that have a tuple which nothing else uses.
tuple_args(resolved, uses, x) ==
  {p \in DOMAIN x : /\ Len(p) = 1 /\ Root(x).op = "Choice"
                    /\ x[p].op = "Symbol" /\ uses[x[p].name] <= 1
                    /\ Root(rules[resolved[x[p].name]]).op = "Seq"}

rewrite_body(resolved, uses, x) ==
  LET args   == tuple_args(resolved, uses, x)
      tuple  == [p \in args |-> rules[resolved[x[p].name]]]
      within == UNION {{p \o q : q \in DOMAIN tuple[p]} : p \in args}
      node(r) == IF r \in within THEN tuple[<<Head(r)>>][Tail(r)] ELSE x[r]
  IN  [r \in DOMAIN x \cup within |-> rewrite_node(resolved, node(r))]

\* Mutant: the names of tokens are not marked as used.
MarkedSymbols(x) == Uses(x, {"Symbol", "Alias"}, {})

\* mark_used_after_inlining
Marked(x) == Uses(x, {"Symbol", "Alias", "TokenType"}, {})

inline_rules ==
  /\ pass = "factorized" /\ pass' = "inlined"
  /\ LET uses == times_used
         resolved == resolve(rules)
     IN  rules' = [n \in DOMAIN rules |-> rewrite_body(resolved, uses, rules[n])]
  /\ inlined' = (DOMAIN rules \ {entrypoint}) \ UNION {Marked(rules'[n]) : n \in DOMAIN rules}
  /\ UNCHANGED <<sorted, extras, parser>>

Next == of_tree_sitter \/ deinline_rules \/ Factorize \/ inline_rules

Spec == Init /\ [][Next]_vars

-----------------------------------------------------------------------------
(* Properties *)

\* No type is an abbreviation of something that contains it, which OCaml
\* refuses, before or after the rules are rearranged.
NoCyclicAbbreviation ==
  pass # "translated" =>
    LET next == [n \in DOMAIN rules |->
                   Uses(rules[n], {"Symbol", "Alias", "TokenType"}, {"Alias", "Choice"})]
    IN  \A n \in DOMAIN rules : n \notin Reach(next, next[n])

\* The rules are written group by group, the inlined ones at the end: a use
\* of m in the definition of n comes after the definition of m or in the same
\* group.
Precedes(m, n) == m \notin inlined /\ m \in sorted[n]

\* The generated files compile: types, functions of the boilerplate (which
\* has none for inlined types) and functions of the parser (which has none
\* for rules that are not used) are defined, and before they are used or
\* together with it, recursively.
DefinedBeforeUse ==
  /\ pass = "converted" =>
       LET used == detect_used({entrypoint} \cup extras, parser) IN
       \A n \in used : \A m \in Deps(rules[n]) :
         m \in used /\ Precedes(m, n)
  /\ pass = "inlined" =>
       \A n \in DOMAIN rules :
         \A m \in Uses(rules[n], {"Symbol", "Alias", "TokenType"}, {"Alias"}) :
           Precedes(m, n)
=============================================================================
