------------------------------ MODULE MatchWays ------------------------------
(***************************************************************************)
(* What the functions of the backtracking matcher can match, with neither  *)
(* continuations nor a stack of alternatives: the ways of a call are a     *)
(* set, made of the ways of the calls it makes.                            *)
(***************************************************************************)
EXTENDS BacktrackMatcher

Way(p, j) == [path |-> p, end |-> j]

\* A way of ws and then one of those that F says start where it ends.
Then(ws, F(_)) == UNION {{Way(w.path \o v.path, v.end) : v \in F(w.end)} : w \in ws}

Around(before, ws, after) == {Way(before \o w.path \o after, w.end) : w \in ws}

\* The ways of a call made of those of the calls it makes.
Unfold(W(_, _, _), c, i, s) ==
  LET e == c.exp
      Exp1(x, j)   == W(Call("match_exp", x, 0), j, s)
      \* "avoid infinite loop if no input was consumed"
      Again(j)     == IF j = i THEN {Way(<<>>, j)} ELSE W(Call("match_repeat", e, 0), j, s)
      Within(enter, f, leave) ==
        Around(<<Punct(enter)>>, W(Call(f, e.args[1], 0), i, s), <<Punct(leave)>>)
  IN  CASE c.fn = "match_exp" /\ e.op = "Token" ->
             IF i < Len(s) /\ s[i + 1] = e.kind THEN {Way(<<Token(i + 1)>>, i + 1)} ELSE {}
        [] c.fn = "match_exp" /\ e.op = "Nothing" -> {Way(<<Punct("Nothing")>>, i)}
        [] c.fn = "match_exp" /\ e.op = "Repeat"  -> Within("Enter_repeat", "match_repeat", "Leave_repeat")
        [] c.fn = "match_exp" /\ e.op = "Repeat1" -> Within("Enter_repeat1", "match_repeat1", "Leave_repeat1")
        [] c.fn = "match_exp" /\ e.op = "Opt"     -> Within("Enter_opt", "match_opt", "Leave_opt")
        [] c.fn = "match_exp" /\ e.op = "Alt"     ->
             Around(<<>>, W(Call("match_case", e, 1), i, s), <<Punct("Leave_alt")>>)
        [] c.fn = "match_exp" /\ e.op = "Seq"     ->
             Around(<<Punct("Enter_seq")>>, W(Call("match_seq", e, 1), i, s), <<>>)
        [] c.fn = "match_repeat"  -> {Way(<<>>, i)} \cup Then(Exp1(e, i), Again)
        [] c.fn = "match_repeat1" -> Then(Exp1(e, i), Again)
        [] c.fn = "match_opt"     -> {Way(<<>>, i)} \cup Exp1(e, i)
        [] c.fn = "match_case"    ->
             UNION {Around(<<EnterAlt(k)>>, Exp1(e.args[k], i), <<>>) : k \in c.i .. Len(e.args)}
        [] c.fn = "match_seq"     ->
             IF c.i > Len(e.args) THEN {Way(<<Punct("Leave_seq")>>, i)}
             ELSE Then(Exp1(e.args[c.i], i), LAMBDA j : W(Call("match_seq", e, c.i + 1), j, s))

\* The calls that can be made about e.
CallsOf(e) ==
  {Call(f, e, 0) : f \in {"match_exp", "match_repeat", "match_repeat1", "match_opt"}}
    \cup {Call(f, e, n) : f \in {"match_case", "match_seq"}, n \in 1 .. Len(e.args) + 1}
=============================================================================
