--------------------------- MODULE GeneratedTypes ---------------------------
(***************************************************************************)
(* The types that Codegen_CST writes for the rules, as the OCaml compiler  *)
(* sees them: a name is the type it abbreviates, a tuple of one is what is *)
(* in it.  Types are compared where they are written: <<n, p>> is the type *)
(* at position p of rule n.                                                *)
(***************************************************************************)
EXTENDS Rearrange

Locations(g) == UNION {{n} \X DOMAIN g[n] : n \in DOMAIN g}

NodeAt(g, l) == g[l[1]][l[2]]

\* The argument number i, and the numbers that have one.
Arg(l, i) == <<l[1], l[2] \o <<i>>>>

Args(g, l) == {i \in UNION {ToSet(p) : p \in DOMAIN g[l[1]]} : Arg(l, i) \in Locations(g)}

\* format_body: what is no type constructor.
Abbreviation(g, l) ==
  IF NodeAt(g, l).op \in {"Symbol", "Alias", "TokenType"} THEN {<<NodeAt(g, l).name, <<>>>>}
  ELSE IF NodeAt(g, l).op = "Seq" /\ Args(g, l) = {1} THEN {Arg(l, 1)} ELSE {}

\* Where the type that is written at a place is constructed.
Expand(g, l) ==
  LET next == [m \in Locations(g) |-> Abbreviation(g, m)]
  IN  CHOOSE m \in {m \in Reach(next, {l}) : next[m] = {}} : TRUE

\* The type constructor: tokens are of type Token.t, and Repeat and Repeat1 are
\* both lists.
Constructor(g, l) ==
  LET node == NodeAt(g, l)
  IN  [op    |-> CASE node.op \in {"Constant", "Token"} -> "Token.t"
                   [] node.op = "Repeat1" -> "Repeat" [] OTHER -> node.op,
       cases |-> node.cases,
       args  |-> Args(g, l)]

\* The parser is generated from the grammar before it is rearranged, and its
\* functions are annotated with the types after it: they must be the same, as
\* must be the types under their constructors.
SameTypes ==
  pass # "translated" =>
    LET under(l, m) == {<<Arg(l, i), Arg(m, i)>> : i \in Args(parser, l) \cap Args(rules, m)}
        next  == [o \in Locations(parser) \X Locations(rules) |->
                    under(Expand(parser, o[1]), Expand(rules, o[2]))]
        named == {<<<<n, <<>>>>, <<n, <<>>>>>> : n \in DOMAIN parser}
    IN  \A o \in Reach(next, named) :
          Constructor(parser, Expand(parser, o[1])) = Constructor(rules, Expand(rules, o[2]))
=============================================================================
