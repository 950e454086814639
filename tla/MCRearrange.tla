----------------------------- MODULE MCRearrange ----------------------------
(***************************************************************************)
(* Small grammars for TLC: an entry point p, two rules a and b, a token t, *)
(* a literal k, and what the simplifier adds, a pattern with a name of its *)
(* own (v) and a rule that a use of an extra is aliased to (x).            *)
(***************************************************************************)
EXTENDS GeneratedTypes

Plus == Constant("+")
A == Symbol("a")
B == Symbol("b")
T == Symbol("t")
Pair == ChoiceOf(<<A, T>>)
Long == Sequence(<<A, Plus>>)

BodiesP == { Sequence(<<A, B>>), Optional(Pair), Sequence(<<Pair, Optional(Pair)>>),
             ChoiceOf(<<A, B>>), ChoiceOf(<<Long, T>>), Sequence(<<ChoiceOf(<<Long, T>>), ChoiceOf(<<A, T>>)>>),
             Sequence(<<Optional(Sequence(<<A, Pair>>)), Repeat(Sequence(<<A, Pair>>))>>) }
BodiesA == { T, B, Blank, Long, Sequence(<<T, Plus>>), Sequence(<<Plus, Optional(A)>>), Sequence(<<Plus, Optional(B)>>),
             ChoiceOf(<<B, T>>), ChoiceOf(<<Sequence(<<T, Plus>>), A>>), Repeat1(B), Optional(Symbol("k")),
             Sequence(<<Plus, Alias("v", Blank)>>), Sequence(<<Alias("x", B), T>>) }
BodiesB == { T, A, Pair, Long, Sequence(<<T, Plus>>), Sequence(<<A, Plus>>), Sequence(<<Plus, Optional(A)>>),
             ChoiceOf(<<A, B>>), ChoiceOf(<<Sequence(<<T, Plus>>), T>>), Optional(Sequence(<<Pair, A>>)), Alias("v", Blank), Repeat(A) }

Grammar(p, a, b) ==
  [n \in {"p", "a", "b", "t", "k", "v", "x", "y"} |->
     CASE n = "p" -> p [] n = "a" -> a [] n = "b" -> b [] n = "t" -> Token("t")
       [] n = "k" -> Constant("k") [] n = "v" -> Token("v")
       [] n = "x" -> Blank [] n = "y" -> B]

MCInputs == {Grammar(p, a, b) : p \in BodiesP, a \in BodiesA, b \in BodiesB}
MCExtras == {{}, {"b"}}
MCNewNames == {"anon1", "anon2", "anon3", "anon4"}
=============================================================================
