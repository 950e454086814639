------------------------------ MODULE Matcher ------------------------------
(***************************************************************************)
(* What a matcher promises (the signature Matcher of                       *)
(* core/src/run/lib/Matcher.ml): match_tree takes an expression and a list *)
(* of tokens and returns a capture -- a tree shaped by the expression      *)
(* whose leaves are the tokens -- or None when the expression does not     *)
(* match the whole list.  Nothing is said of how the capture is found.     *)
(*                                                                         *)
(* Expressions are the records of module BacktrackMatcher.  The operators  *)
(* are recursive over data, so this module is for TLC only.                *)
(***************************************************************************)
EXTENDS Naturals, Sequences, SequencesExt, FiniteSets

CONSTANTS
  RootExp,    (* the expressions match_tree may be called with             *)
  Input       (* the token lists it may be called with                     *)

VARIABLES
  input,      (* the kinds of the tokens of the list                       *)
  root,       (* the expression                                            *)
  result      (* Pending, NoMatch or the capture returned                  *)

-----------------------------------------------------------------------------
(* Captures: a constructor, the token's position or the chosen case, and   *)
(* the captures of the subexpressions.                                     *)

Capture(c, n, list) == [cap |-> c, n |-> n, list |-> list]
Pending == Capture("pending", 0, <<>>)
NoMatch == Capture("none", 0, <<>>)

\* c is a capture of expression e over the tokens s.
RECURSIVE Fits(_, _, _)
Fits(e, c, s) ==
  LET AllFit(b) == \A k \in DOMAIN c.list : Fits(b, c.list[k], s)
  IN /\ c.cap = e.op
     /\ e.op = "Token" => c.n \in DOMAIN s /\ s[c.n] = e.kind
     /\ e.op \in {"Repeat", "Repeat1", "Opt"} => AllFit(e.args[1])
     /\ e.op = "Repeat1" => c.list # <<>>
     /\ e.op = "Opt" => Len(c.list) <= 1
     /\ e.op = "Alt" => c.n \in DOMAIN e.args /\ Len(c.list) = 1
                        /\ AllFit(e.args[c.n])
     /\ e.op = "Seq" => /\ Len(c.list) = Len(e.args)
                        /\ \A k \in DOMAIN e.args : Fits(e.args[k], c.list[k], s)

\* The positions of the tokens at the leaves of c, from left to right.
RECURSIVE Yield(_)
Yield(c) ==
  IF c.cap = "Token" THEN <<c.n>>
  ELSE FlattenSeq([k \in DOMAIN c.list |-> Yield(c.list[k])])

-----------------------------------------------------------------------------
(* The language of an expression, defined without captures: the set of     *)
(* positions at which a match of e that starts after i tokens can end.     *)

RECURSIVE Ends(_, _, _)
Ends(e, i, s) ==
  LET From(b, S) == UNION {Ends(b, j, s) : j \in S}
      Star(S) == LET reach[n \in 0..Len(s)] ==
                       IF n = 0 THEN S
                       ELSE reach[n - 1] \cup From(e.args[1], reach[n - 1])
                 IN reach[Len(s)]
  IN CASE e.op = "Token"   -> IF i < Len(s) /\ s[i + 1] = e.kind THEN {i + 1} ELSE {}
       [] e.op = "Nothing" -> {i}
       [] e.op = "Repeat"  -> Star({i})
       [] e.op = "Repeat1" -> Star(From(e.args[1], {i}))
       [] e.op = "Opt"     -> {i} \cup From(e.args[1], {i})
       [] e.op = "Alt"     -> UNION {From(e.args[k], {i}) : k \in DOMAIN e.args}
       [] e.op = "Seq"     -> FoldLeft(LAMBDA S, b : From(b, S), {i}, e.args)

Matches(e, s) == Len(s) \in Ends(e, 0, s)

-----------------------------------------------------------------------------
Init ==
  /\ root \in RootExp
  /\ input \in Input
  /\ result = Pending

Succeed ==
  /\ result' \notin {Pending, NoMatch}
  /\ Fits(root, result', input)
  /\ Yield(result') = [k \in 1..Len(input) |-> k]

Fail ==
  /\ ~Matches(root, input)
  /\ result' = NoMatch

\* match_tree answers, once.
Answer ==
  /\ result = Pending
  /\ Succeed \/ Fail
  /\ UNCHANGED <<input, root>>

Spec == Init /\ [][Answer]_<<input, root, result>>
=============================================================================
