---------------------------- MODULE PreferredWay -----------------------------
(***************************************************************************)
(* Which of several matches the backtracking matcher returns.  "Each way   *)
(* is tried sequentially until a match for the full sequence is found":    *)
(* here the ways are the sets of MatchWays, and which one is tried before  *)
(* another is an order on their paths.                                     *)
(***************************************************************************)
EXTENDS MatchWays

\* Ways(c, i, s): the ways in which the call c can match tokens of s that
\* follow the first i, each with its path and the position where it ends.
CONSTANT Ways(_, _, _)

\* The ways of a call are those made of the ways of the calls it makes, which
\* are about fewer tokens, or about a part of the expression: nothing but the
\* set of all the ways satisfies this.
ASSUME WaysAssumption ==
  \A s \in Input, e \in Exp : \A c \in CallsOf(e), i \in 0 .. Len(s) :
    LET ways == Ways(c, i, s)
    IN  /\ ways = Unfold(Ways, c, i, s)
        /\ \A w \in ways : w \in [path : Seq(PathElt), end : 0 .. Len(s)]

\* Repetitions prefer another iteration to leaving, options a value to none,
\* and alternatives an earlier case.
Leaving == {"Leave_repeat", "Leave_repeat1", "Leave_opt"}

Prior(x, y) ==
  \/ x.elt \notin Leaving /\ y.elt \in Leaving
  \/ x.elt = "Enter_alt" /\ y.elt = "Enter_alt" /\ x.n < y.n

\* Path p is tried before path q: it is prior where they part.
Preferred(p, q) ==
  \E k \in DOMAIN p \cap DOMAIN q :
    /\ \A j \in 1 .. k - 1 : p[j] = q[j]
    /\ Prior(p[k], q[k])

\* The paths of the ways of matching all of the input.
FullPaths(e, s) == {w.path : w \in {v \in Ways(Call("match_exp", e, 0), 0, s) : v.end = Len(s)}}

\* The path returned is a way of matching the whole input and is preferred to
\* every other one; None is returned when there is none.
FirstWay ==
  /\ call.fn = "some" =>
       /\ path \in FullPaths(root, input)
       /\ \A q \in FullPaths(root, input) \ {path} : Preferred(path, q)
  /\ call.fn = "none" => FullPaths(root, input) = {}
=============================================================================
