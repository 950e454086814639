----------------------------- MODULE MatchTree ------------------------------
(***************************************************************************)
(* The second half of match_tree: the flat path found by BacktrackMatcher  *)
(* is read back into a capture tree (reconstruct), and the composition of  *)
(* the two halves is compared with what a matcher promises (Matcher).      *)
(* Recursive over data: for TLC only.                                      *)
(***************************************************************************)
EXTENDS PreferredWay

Capture(c, n, list) == [cap |-> c, n |-> n, list |-> list]

\* The value of `assert false`: nothing built, no index to continue from.
AssertFalse == << <<>>, 0>>
Failed(r)   == r[2] = 0

At(p, k) == IF k \in DOMAIN p THEN p[k] ELSE Punct("end of path")

\* Each reader returns a pair: what it has built from the elements of p
\* starting with the k-th, and the index of the first element it left.
RECURSIVE reconstruct_capture(_, _, _)
RECURSIVE read_repeat(_, _, _)
RECURSIVE read_seq(_, _, _)

\* F applied to the value of x; x is evaluated once, whatever F does with it.
With(x, F(_)) == CHOOSE y \in {F(v) : v \in {x}} : TRUE

\* A capture by e followed by the list that Rest reads after it.
Cons(e, p, k, Rest(_)) ==
  With(reconstruct_capture(e, p, k), LAMBDA hd :
    IF Failed(hd) THEN AssertFalse
    ELSE With(Rest(hd[2]), LAMBDA tl :
      IF Failed(tl) THEN AssertFalse ELSE <<<<hd[1]>> \o tl[1], tl[2]>>))

\* One capture followed by the punctuation `leave`.
ReadOne(e, p, k, leave) ==
  With(reconstruct_capture(e, p, k), LAMBDA r :
    IF ~Failed(r) /\ At(p, r[2]).elt = leave
    THEN << <<r[1]>>, r[2] + 1>> ELSE AssertFalse)

read_repeat(e, p, k) ==
  IF At(p, k).elt \in {"Leave_repeat", "Leave_repeat1"} THEN << <<>>, k + 1>>
  ELSE Cons(e, p, k, LAMBDA j : read_repeat(e, p, j))

read_option(e, p, k) ==
  IF At(p, k).elt = "Leave_opt" THEN << <<>>, k + 1>>
  ELSE ReadOne(e, p, k, "Leave_opt")

read_alt(e, p, k) == ReadOne(e, p, k, "Leave_alt")

read_seq(es, p, k) ==
  IF es # <<>> THEN Cons(Head(es), p, k, LAMBDA j : read_seq(Tail(es), p, j))
  ELSE IF At(p, k).elt = "Leave_seq" THEN << <<>>, k + 1>> ELSE AssertFalse

reconstruct_capture(e, p, k) ==
  LET x == At(p, k)
      Node(n, read) == With(read, LAMBDA r :
        IF Failed(r) THEN AssertFalse ELSE <<Capture(e.op, n, r[1]), r[2]>>)
  IN CASE e.op = "Token" /\ x.elt = "Token" ->
            Node(x.n, << <<>>, k + 1>>)
       [] e.op = "Nothing" /\ x.elt = "Nothing" ->
            Node(0, << <<>>, k + 1>>)
       [] \/ e.op = "Repeat" /\ x.elt = "Enter_repeat"
          \/ e.op = "Repeat1" /\ x.elt = "Enter_repeat1" ->
            Node(0, read_repeat(e.args[1], p, k + 1))
       [] e.op = "Opt" /\ x.elt = "Enter_opt" ->
            Node(0, read_option(e.args[1], p, k + 1))
       [] e.op = "Alt" /\ x.elt = "Enter_alt" /\ x.n \in DOMAIN e.args ->
            Node(x.n, read_alt(e.args[x.n], p, k + 1))
       [] e.op = "Seq" /\ x.elt = "Enter_seq" ->
            Node(0, read_seq(e.args, p, k + 1))
       [] OTHER -> AssertFalse

\* The whole path must have been read.
reconstruct(e, p) ==
  LET r == reconstruct_capture(e, p, 1)
  IN IF r[2] = Len(p) + 1 THEN r[1] ELSE Capture("assert false", 0, <<>>)

-----------------------------------------------------------------------------
VARIABLE result   (* Pending, or what match_tree returned                  *)

mtVars == <<vars, result>>

Pending == Capture("pending", 0, <<>>)
NoMatchFound == Capture("none", 0, <<>>)

MTInit == Init /\ result = Pending

\* match_, which BacktrackMatcher takes apart.
Search == Next /\ UNCHANGED result

\* match_ has returned: None as it is, Some path as the tree it describes.
Return ==
  /\ call.fn \in {"some", "none"}
  /\ result = Pending
  /\ result' = IF call.fn = "none" THEN NoMatchFound ELSE reconstruct(root, path)
  /\ UNCHANGED vars

match_tree == Search \/ Return

MTSpec == MTInit /\ [][match_tree]_mtVars

\* The matcher is a sequential function: it runs until it returns.
MTFairSpec == MTSpec /\ WF_mtVars(match_tree)

-----------------------------------------------------------------------------
M == INSTANCE Matcher

\* The backtracking matcher is a matcher: it answers once, with a tree that
\* has the shape of the expression and the tokens as leaves, and says None
\* only when the expression does not match.
ImplementsMatcher == M!Spec

\* "avoid infinite loop if no input was consumed": match_tree returns, also
\* on repetitions of expressions that match nothing.
Terminates == <>(result # Pending)
=============================================================================
