------------------------------ MODULE TopoSort ------------------------------
(***************************************************************************)
(* Rules and those they use, as a function from each name to a set of      *)
(* names: what is reached (CST_grammar_conv), the order in which rules are *)
(* defined (Topo_sort) and the rules that are cyclic abbreviations         *)
(* (Rectypes).  What a body uses is for CSTGrammar and CSTPositions to say.*)
(***************************************************************************)
EXTENDS Naturals, FiniteSets

\* The names reached from some by a relation, given as a function on names:
\* those next to the ones there are, until nothing is left to add.
Reach(next, from) ==
  LET grow[names \in SUBSET DOMAIN next] ==
        LET more == names \cup UNION {next[n] : n \in names}
        IN  IF more = names THEN names ELSE grow[more]
  IN  grow[from]

\* Everything a rule depends on; a rule is in its own set if it is recursive.
tsort(uses) == [n \in DOMAIN uses |-> Reach(uses, uses[n])]

\* The rules that are defined together, mutually recursive.
Group(order, n) == {n} \cup {m \in order[n] : n \in order[m]}

\* An abbreviation that contains itself, through rules of its group.
is_rectype(abbreviates, order, n) ==
  LET group == Group(order, n)
      next  == [m \in group |-> abbreviates[m] \cap group]
  IN  n \in Reach(next, next[n])
=============================================================================
