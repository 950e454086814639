---------------------------- MODULE MCMatchTree -----------------------------
(***************************************************************************)
(* Instances for TLC: expressions up to a given nesting over two kinds of  *)
(* tokens, against every token list of up to three tokens.                 *)
(***************************************************************************)
EXTENDS MatchTree

MCKind == {"a", "b"}
MCInput == UNION {[1..n -> MCKind] : n \in 0..3}

E(op, args) == [op |-> op, kind |-> "a", args |-> args]
T(k) == [op |-> "Token", kind |-> k, args |-> <<>>]

Leaves == {T("a"), T("b"), E("Nothing", <<>>)}
Unary(S) == {E(op, <<x>>) : op \in {"Repeat", "Repeat1", "Opt"}, x \in S}
Binary(S1, S2) == {E(op, <<x, y>>) : op \in {"Alt", "Seq"}, x \in S1, y \in S2}
Degenerate == {E("Alt", <<>>), E("Seq", <<>>)}

\* Every expression with at most one operator above the leaves, then two.
Sides  == {T("a"), E("Nothing", <<>>)}
Depth1 == Leaves \cup Degenerate \cup Unary(Leaves) \cup Binary(Leaves, Leaves)
Depth2 == Unary(Depth1) \cup Binary(Depth1, Sides) \cup Binary(Sides, Depth1)

\* Loops nested in loops, where a position can be reached in many ways.
Loops == Unary(Sides)
Pairs == Binary(Loops, Loops)
LoopsOfLoops == {E("Repeat", <<x>>) : x \in Pairs} \cup Unary(Unary(Loops))

MCRootExp == Depth1 \cup Depth2 \cup LoopsOfLoops
MCExp     == MCRootExp \cup Pairs

RECURSIVE MCWays(_, _, _)
MCWays(c, i, s) == Unfold(MCWays, c, i, s)
=============================================================================
