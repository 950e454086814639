------------------------ MODULE PreferredWay_proofs -------------------------
(***************************************************************************)
(* The backtracking matcher finds the preferred way, for every set of      *)
(* expressions and every token list.                                       *)
(***************************************************************************)
EXTENDS PreferredWay, BacktrackMatcher_proofs

-----------------------------------------------------------------------------
(* Paths *)

LEMMA PathAssoc ==
  ASSUME NEW a \in Paths, NEW b \in Paths, NEW c \in Paths
  PROVE  Join(Join(a, b), c) = Join(a, Join(b, c))
BY ConcatAssociative DEF Paths, Join

LEMMA PathEmpty ==
  ASSUME NEW a \in Paths
  PROVE  Join(<<>>, a) = a /\ Join(a, <<>>) = a /\ <<>> \in Paths
BY ConcatEmptySeq DEF Paths, Join

\* A path h, and then b w r: the border is where one likes it.
LEMMA PathShift ==
  ASSUME NEW h \in Paths, NEW b \in Paths, NEW w \in Paths, NEW r \in Paths
  PROVE  Join(h, Join(Join(b, w), r)) = Join(Join(h, b), Join(w, r))
<1>1. Join(b, w) \in Paths /\ Join(w, r) \in Paths
  BY PathConcat
<1>2. Join(Join(b, w), r) = Join(b, Join(w, r))
  BY PathAssoc
<1>3. Join(Join(h, b), Join(w, r)) = Join(h, Join(b, Join(w, r)))
  BY <1>1, PathAssoc
<1> QED BY <1>2, <1>3

LEMMA Singleton ==
  ASSUME NEW h \in Paths, NEW x \in PathElt
  PROVE  <<x>> \in Paths /\ Append(h, x) = Join(h, <<x>>) /\ Append(h, x) \in Paths
BY AppendIsConcat, AppendProperties DEF Paths, Join

\* Two paths that go on differently after a common beginning.
LEMMA Parting ==
  ASSUME NEW h \in Paths, NEW a \in Paths, NEW b \in Paths, NEW c \in Paths, NEW d \in Paths,
         NEW x \in PathElt, NEW y \in PathElt, Prior(x, y),
         a = Join(<<x>>, c), b = Join(<<y>>, d)
  PROVE  Preferred(Join(h, a), Join(h, b))
<1>1. /\ Len(a) >= 1 /\ Len(b) >= 1 /\ Len(a) \in Nat /\ Len(b) \in Nat /\ Len(h) \in Nat
      /\ a[1] = x /\ b[1] = y
  BY DEF Paths, Join
<1>2. Join(h, a) \in Paths /\ Join(h, b) \in Paths
  BY PathConcat, PathAssoc
<1>3. /\ Len(Join(h, a)) = Len(h) + Len(a) /\ Len(Join(h, b)) = Len(h) + Len(b)
      /\ \A i \in 1 .. Len(h) + Len(a) : Join(h, a)[i] = IF i <= Len(h) THEN h[i] ELSE a[i - Len(h)]
      /\ \A i \in 1 .. Len(h) + Len(b) : Join(h, b)[i] = IF i <= Len(h) THEN h[i] ELSE b[i - Len(h)]
  BY ConcatProperties DEF Paths, Join
<1>4. DOMAIN Join(h, a) = 1 .. Len(Join(h, a)) /\ DOMAIN Join(h, b) = 1 .. Len(Join(h, b))
  BY <1>2, LenProperties DEF Paths
<1> DEFINE k == Len(h) + 1
<1>5. k \in DOMAIN Join(h, a) \cap DOMAIN Join(h, b)
  BY <1>1, <1>3, <1>4 DEF Join
<1>6. Join(h, a)[k] = x /\ Join(h, b)[k] = y
  BY <1>1, <1>3 DEF Join
<1>7. \A j \in 1 .. k - 1 : Join(h, a)[j] = Join(h, b)[j]
  BY <1>1, <1>3 DEF Join
<1> QED BY <1>5, <1>6, <1>7 DEF Preferred

-----------------------------------------------------------------------------
(* What continuations complete *)

\* The ways of a frame of the continuation, applied after i tokens of s.
FrameWays(f, i, s) ==
  IF f.frame \in Leave THEN {Way(<<Punct(f.frame)>>, i)}
  ELSE IF f.frame = "after_exp"
  THEN IF i = f.n THEN {Way(<<>>, i)} ELSE Ways(Call("match_repeat", f.exp, 0), i, s)
  ELSE Ways(Call("match_seq", f.exp, f.n), i, s)

\* A way of the k-th frame leads from one place and path to the next.
Link(f, i, q, j, r, s) == \E v \in FrameWays(f, i, s) : v.end = j /\ q = Join(v.path, r)

\* q is a path on which the continuation K leads from i to the end of s: m
\* and Q are the positions and the rests of the path between its frames.
Along(K, m, Q, s) ==
  /\ m[0] = Len(s) /\ Q[0] = <<>>
  /\ \A k \in 1 .. Len(K) : Link(K[k], m[k], Q[k], m[k - 1], Q[k - 1], s)

Completes(K, i, q, s) ==
  \E m \in [0 .. Len(K) -> Nat], Q \in [0 .. Len(K) -> Paths] :
    m[Len(K)] = i /\ Q[Len(K)] = q /\ Along(K, m, Q, s)

\* p is h, then one of the ways ws, then what K completes it with.
Ahead(ws, K, h, p, s) ==
  \E v \in ws : \E r \in Paths : Completes(K, v.end, r, s) /\ p = Join(h, Join(v.path, r))

LEMMA CompletesNothing ==
  ASSUME NEW s \in Seq(Kind), NEW i, NEW q
  PROVE  Completes(<<>>, i, q, s) <=> i = Len(s) /\ q = <<>>
<1>1. ASSUME i = Len(s), q = <<>> PROVE Completes(<<>>, i, q, s)
  <2> DEFINE m == [k \in 0 .. 0 |-> Len(s)]
             Q == [k \in 0 .. 0 |-> <<>>]
  <2>1. m \in [0 .. 0 -> Nat] /\ Q \in [0 .. 0 -> Paths] /\ m[0] = Len(s) /\ Q[0] = <<>>
    BY DEF Paths
  <2> HIDE DEF m, Q
  <2> QED BY <1>1, <2>1 DEF Completes, Along
<1>2. ASSUME Completes(<<>>, i, q, s) PROVE i = Len(s) /\ q = <<>>
  BY <1>2 DEF Completes, Along
<1> QED BY <1>1, <1>2

LEMMA CompletesPushed ==
  ASSUME NEW s \in Seq(Kind), NEW K \in Seq(Frame), NEW f \in Frame,
         NEW i \in Nat, NEW q \in Paths,
         \A v \in FrameWays(f, i, s) : v.end \in Nat
  PROVE  Completes(Append(K, f), i, q, s) <=>
           \E v \in FrameWays(f, i, s) : \E r \in Paths :
             Completes(K, v.end, r, s) /\ q = Join(v.path, r)
<1> DEFINE n == Len(K)
           L == Append(K, f)
<1>1. /\ n \in Nat /\ Len(L) = n + 1 /\ L[n + 1] = f
      /\ \A k \in 1 .. n : L[k] = K[k]
  BY AppendProperties
<1> HIDE DEF L, n
<1>2. ASSUME Completes(L, i, q, s)
      PROVE  \E v \in FrameWays(f, i, s) : \E r \in Paths :
               Completes(K, v.end, r, s) /\ q = Join(v.path, r)
  <2>1. PICK m \in [0 .. n + 1 -> Nat], Q \in [0 .. n + 1 -> Paths] :
          m[n + 1] = i /\ Q[n + 1] = q /\ Along(L, m, Q, s)
    BY <1>1, <1>2 DEF Completes
  <2>2. PICK v \in FrameWays(f, i, s) : v.end = m[n] /\ q = Join(v.path, Q[n])
    <3>1. n + 1 \in 1 .. n + 1 /\ (n + 1) - 1 = n
      BY <1>1
    <3>2. Link(f, i, q, m[n], Q[n], s)
      BY <1>1, <2>1, <3>1 DEF Along
    <3> QED BY <3>2 DEF Link
  <2> DEFINE m0 == [k \in 0 .. n |-> m[k]]
             Q0 == [k \in 0 .. n |-> Q[k]]
  <2>3. /\ m0 \in [0 .. n -> Nat] /\ Q0 \in [0 .. n -> Paths]
        /\ m0[n] = m[n] /\ Q0[n] = Q[n]
        /\ \A k \in 0 .. n : m0[k] = m[k] /\ Q0[k] = Q[k]
    BY <1>1
  <2> HIDE DEF m0, Q0
  <2>4. Along(K, m0, Q0, s)
    <3>1. m0[0] = Len(s) /\ Q0[0] = <<>>
      BY <1>1, <2>1, <2>3 DEF Along
    <3>2. ASSUME NEW k \in 1 .. n PROVE Link(K[k], m0[k], Q0[k], m0[k - 1], Q0[k - 1], s)
      <4>1. k \in 1 .. n + 1 /\ k \in 0 .. n /\ k - 1 \in 0 .. n
        BY <1>1
      <4>2. Link(L[k], m[k], Q[k], m[k - 1], Q[k - 1], s)
        BY <1>1, <2>1, <4>1 DEF Along
      <4> QED BY <1>1, <2>3, <4>1, <4>2
    <3> QED BY <3>1, <3>2 DEF Along, n
  <2>5. Completes(K, v.end, Q[n], s)
    BY <2>2, <2>3, <2>4 DEF Completes, n
  <2>6. Q[n] \in Paths
    BY <1>1, <2>1
  <2> QED BY <2>2, <2>5, <2>6
<1>3. ASSUME NEW v \in FrameWays(f, i, s), NEW r \in Paths,
             Completes(K, v.end, r, s), q = Join(v.path, r)
      PROVE  Completes(L, i, q, s)
  <2>1. PICK m \in [0 .. n -> Nat], Q \in [0 .. n -> Paths] :
          m[n] = v.end /\ Q[n] = r /\ Along(K, m, Q, s)
    BY <1>3 DEF Completes, n
  <2> DEFINE m1 == [k \in 0 .. n + 1 |-> IF k = n + 1 THEN i ELSE m[k]]
             Q1 == [k \in 0 .. n + 1 |-> IF k = n + 1 THEN q ELSE Q[k]]
  <2>2. /\ m1 \in [0 .. n + 1 -> Nat] /\ Q1 \in [0 .. n + 1 -> Paths]
        /\ m1[n + 1] = i /\ Q1[n + 1] = q
        /\ \A k \in 0 .. n : m1[k] = m[k] /\ Q1[k] = Q[k]
    BY <1>1
  <2> HIDE DEF m1, Q1
  <2>3. Along(L, m1, Q1, s)
    <3>1. m1[0] = Len(s) /\ Q1[0] = <<>>
      BY <1>1, <2>1, <2>2 DEF Along
    <3>2. ASSUME NEW k \in 1 .. n + 1
          PROVE  Link(L[k], m1[k], Q1[k], m1[k - 1], Q1[k - 1], s)
      <4>1. CASE k \in 1 .. n
        <5>1. k \in 0 .. n /\ k - 1 \in 0 .. n
          BY <1>1, <4>1
        <5>2. Link(K[k], m[k], Q[k], m[k - 1], Q[k - 1], s)
          BY <2>1, <4>1 DEF Along, n
        <5> QED BY <1>1, <2>2, <4>1, <5>1, <5>2
      <4>2. CASE k = n + 1
        <5>1. k - 1 = n /\ n \in 0 .. n
          BY <1>1, <4>2
        <5> QED BY <1>1, <1>3, <2>1, <2>2, <4>2, <5>1 DEF Link
      <4> QED BY <1>1, <4>1, <4>2
    <3> QED BY <1>1, <3>1, <3>2 DEF Along
  <2> QED BY <1>1, <2>2, <2>3 DEF Completes
<1> QED BY <1>2, <1>3 DEF L

-----------------------------------------------------------------------------
(* How the ways of a call change hands *)

LEMMA WayShift ==
  ASSUME NEW s, NEW h \in Paths, NEW b \in Paths, NEW r \in Paths, NEW w \in WayType(s)
  PROVE  Join(h, Join(Join(b, w.path), r)) = Join(Join(h, b), Join(w.path, r))
<1> DEFINE x == w.path
<1>1. x \in Paths
  BY DEF WayType
<1> HIDE DEF x
<1>2. Join(h, Join(Join(b, x), r)) = Join(Join(h, b), Join(x, r))
  BY <1>1, PathShift
<1> QED BY <1>2 DEF x

LEMMA WaysShift ==
  ASSUME NEW s, NEW h \in Paths, NEW b \in Paths, NEW r \in Paths,
         NEW w \in WayType(s), NEW u \in WayType(s)
  PROVE  /\ Join(h, Join(Join(b, Join(w.path, u.path)), r)) = Join(Join(h, b), Join(w.path, Join(u.path, r)))
         /\ Join(u.path, r) \in Paths
<1> DEFINE x == w.path
           y == u.path
           z == Join(x, y)
<1>1. x \in Paths /\ y \in Paths
  BY DEF WayType
<1>2. z \in Paths /\ Join(y, r) \in Paths
  <2> HIDE DEF x, y
  <2> QED BY <1>1, PathConcat
<1>3. Join(h, Join(Join(b, z), r)) = Join(Join(h, b), Join(z, r))
  <2> HIDE DEF z
  <2> QED BY <1>2, PathShift
<1>4. Join(z, r) = Join(x, Join(y, r))
  <2> HIDE DEF x, y
  <2> QED BY <1>1, PathAssoc
<1> QED BY <1>2, <1>3, <1>4

\* What is written at the beginning of every way may be written at once.
LEMMA Emitting ==
  ASSUME NEW s \in Seq(Kind), NEW K, NEW h \in Paths, NEW b \in Paths, NEW p,
         NEW X, NEW ws \in SUBSET WayType(s),
         \A v : v \in X <=> \E w \in ws : v = Way(Join(b, w.path), w.end)
  PROVE  Ahead(X, K, h, p, s) <=> Ahead(ws, K, Join(h, b), p, s)
<1>1. ASSUME NEW w \in ws, NEW r \in Paths
      PROVE  Join(h, Join(Join(b, w.path), r)) = Join(Join(h, b), Join(w.path, r))
  BY WayShift
<1>2. ASSUME NEW w \in ws, NEW v, v = Way(Join(b, w.path), w.end)
      PROVE  v.path = Join(b, w.path) /\ v.end = w.end
  BY <1>2 DEF Way
<1>3. ASSUME Ahead(X, K, h, p, s) PROVE Ahead(ws, K, Join(h, b), p, s)
  <2>1. PICK v \in X : \E r \in Paths : Completes(K, v.end, r, s) /\ p = Join(h, Join(v.path, r))
    BY <1>3 DEF Ahead
  <2>2. PICK w \in ws : v = Way(Join(b, w.path), w.end)
    BY <2>1
  <2>3. v.path = Join(b, w.path) /\ v.end = w.end
    BY <1>2, <2>2
  <2>4. PICK r \in Paths : Completes(K, w.end, r, s) /\ p = Join(h, Join(Join(b, w.path), r))
    BY <2>1, <2>3
  <2>5. p = Join(Join(h, b), Join(w.path, r))
    BY <1>1, <2>4
  <2> QED BY <2>4, <2>5 DEF Ahead
<1>4. ASSUME Ahead(ws, K, Join(h, b), p, s) PROVE Ahead(X, K, h, p, s)
  <2>1. PICK w \in ws : \E r \in Paths : Completes(K, w.end, r, s) /\ p = Join(Join(h, b), Join(w.path, r))
    BY <1>4 DEF Ahead
  <2>2. PICK v \in X : v = Way(Join(b, w.path), w.end)
    BY <2>1
  <2>3. v.path = Join(b, w.path) /\ v.end = w.end
    BY <1>2, <2>2
  <2>4. PICK r \in Paths : Completes(K, w.end, r, s) /\ p = Join(Join(h, b), Join(w.path, r))
    BY <2>1
  <2>5. p = Join(h, Join(v.path, r))
    BY <1>1, <2>3, <2>4
  <2> QED BY <2>3, <2>4, <2>5 DEF Ahead
<1> QED BY <1>3, <1>4

\* What follows every way may be left to the continuation.
LEMMA Pushing ==
  ASSUME NEW s \in Seq(Kind), NEW K \in Seq(Frame), NEW f \in Frame,
         NEW h \in Paths, NEW b \in Paths, NEW p,
         NEW X, NEW ws \in SUBSET WayType(s),
         \A w \in ws : FrameWays(f, w.end, s) \subseteq WayType(s),
         \A v : v \in X <=> \E w \in ws : \E u \in FrameWays(f, w.end, s) :
                              v = Way(Join(b, Join(w.path, u.path)), u.end)
  PROVE  Ahead(X, K, h, p, s) <=> Ahead(ws, Append(K, f), Join(h, b), p, s)
<1> DEFINE F(w) == FrameWays(f, w.end, s)
<1>1. ASSUME NEW w \in ws, NEW u \in F(w), NEW r \in Paths
      PROVE  /\ Join(h, Join(Join(b, Join(w.path, u.path)), r)) = Join(Join(h, b), Join(w.path, Join(u.path, r)))
             /\ Join(u.path, r) \in Paths
  BY WaysShift
<1>2. ASSUME NEW w \in ws, NEW u \in F(w), NEW v, v = Way(Join(b, Join(w.path, u.path)), u.end)
      PROVE  v.path = Join(b, Join(w.path, u.path)) /\ v.end = u.end
  BY <1>2 DEF Way
<1>3. ASSUME NEW w \in ws, NEW q \in Paths
      PROVE  Completes(Append(K, f), w.end, q, s) <=>
               \E u \in F(w) : \E r \in Paths : Completes(K, u.end, r, s) /\ q = Join(u.path, r)
  <2>1. w.end \in Nat
    BY DEF WayType
  <2>2. \A u \in F(w) : u.end \in Nat
    BY DEF WayType
  <2> QED BY <2>1, <2>2, CompletesPushed
<1>4. ASSUME Ahead(X, K, h, p, s) PROVE Ahead(ws, Append(K, f), Join(h, b), p, s)
  <2>1. PICK v \in X, r \in Paths : Completes(K, v.end, r, s) /\ p = Join(h, Join(v.path, r))
    BY <1>4 DEF Ahead
  <2>2. PICK w \in ws : \E u \in F(w) : v = Way(Join(b, Join(w.path, u.path)), u.end)
    BY <2>1
  <2>9. PICK u \in F(w) : v = Way(Join(b, Join(w.path, u.path)), u.end)
    BY <2>2
  <2>3. /\ Completes(K, u.end, r, s) /\ p = Join(h, Join(Join(b, Join(w.path, u.path)), r))
        /\ Join(u.path, r) \in Paths
    <3>1. v.path = Join(b, Join(w.path, u.path)) /\ v.end = u.end
      BY <2>9 DEF Way
    <3>2. Join(u.path, r) \in Paths
      BY <1>1
    <3> QED BY <2>1, <3>1, <3>2
  <2>4. Completes(Append(K, f), w.end, Join(u.path, r), s)
    BY <1>3, <2>3
  <2>5. p = Join(Join(h, b), Join(w.path, Join(u.path, r)))
    BY <1>1, <2>3
  <2> QED BY <2>3, <2>4, <2>5 DEF Ahead
<1>5. ASSUME Ahead(ws, Append(K, f), Join(h, b), p, s) PROVE Ahead(X, K, h, p, s)
  <2>1. PICK w \in ws, q \in Paths :
          Completes(Append(K, f), w.end, q, s) /\ p = Join(Join(h, b), Join(w.path, q))
    BY <1>5 DEF Ahead
  <2>2. PICK u \in F(w), r \in Paths : Completes(K, u.end, r, s) /\ q = Join(u.path, r)
    BY <1>3, <2>1
  <2>3. PICK v \in X : v = Way(Join(b, Join(w.path, u.path)), u.end)
    OBVIOUS
  <2>4. v.path = Join(b, Join(w.path, u.path)) /\ v.end = u.end
    BY <2>3 DEF Way
  <2>5. p = Join(h, Join(v.path, r))
    <3>1. p = Join(Join(h, b), Join(w.path, Join(u.path, r)))
      BY <2>1, <2>2
    <3>2. Join(h, Join(Join(b, Join(w.path, u.path)), r)) = Join(Join(h, b), Join(w.path, Join(u.path, r)))
      BY <1>1
    <3> QED BY <2>4, <3>1, <3>2
  <2> QED BY <2>2, <2>4, <2>5 DEF Ahead
<1> QED BY <1>4, <1>5

LEMMA AheadUnion ==
  ASSUME NEW A, NEW B, NEW K, NEW h, NEW p, NEW s
  PROVE  Ahead(A \cup B, K, h, p, s) <=> Ahead(A, K, h, p, s) \/ Ahead(B, K, h, p, s)
BY DEF Ahead

-----------------------------------------------------------------------------
(* The ways of each call *)

LEMMA WaysFacts ==
  ASSUME NEW s \in Input, NEW e \in Exp, NEW c \in CallsOf(e), NEW i \in 0 .. Len(s)
  PROVE  Ways(c, i, s) = Unfold(Ways, c, i, s) /\ Ways(c, i, s) \in SUBSET WayType(s)
<1>1. /\ Ways(c, i, s) = Unfold(Ways, c, i, s)
      /\ \A w \in Ways(c, i, s) : w \in [path : Seq(PathElt), end : 0 .. Len(s)]
  BY WaysAssumption
<1> QED BY <1>1 DEF WayType, Paths

LEMMA WaysToken ==
  ASSUME NEW s \in Input, NEW e \in Exp, NEW i \in 0 .. Len(s), e.op = "Token"
  PROVE  Ways(Call("match_exp", e, 0), i, s) =
           IF i < Len(s) /\ s[i + 1] = e.kind THEN {Way(<<Token(i + 1)>>, i + 1)} ELSE {}
<1>1. Ways(Call("match_exp", e, 0), i, s) = Unfold(Ways, Call("match_exp", e, 0), i, s)
  BY Calls, WaysFacts
<1> QED BY <1>1, CallFields DEF Unfold, Around, Then, Join

LEMMA WaysNothing ==
  ASSUME NEW s \in Input, NEW e \in Exp, NEW i \in 0 .. Len(s), e.op = "Nothing"
  PROVE  Ways(Call("match_exp", e, 0), i, s) = {Way(<<Punct("Nothing")>>, i)}
<1>1. Ways(Call("match_exp", e, 0), i, s) = Unfold(Ways, Call("match_exp", e, 0), i, s)
  BY Calls, WaysFacts
<1> QED BY <1>1, CallFields DEF Unfold, Around, Then, Join

\* The three quantifiers and the marks and the function of each.
Quantifier ==
  {[op |-> "Repeat", enter |-> "Enter_repeat", leave |-> "Leave_repeat", f |-> "match_repeat"],
   [op |-> "Repeat1", enter |-> "Enter_repeat1", leave |-> "Leave_repeat1", f |-> "match_repeat1"],
   [op |-> "Opt", enter |-> "Enter_opt", leave |-> "Leave_opt", f |-> "match_opt"]}

LEMMA WaysQuantifier ==
  ASSUME NEW s \in Input, NEW e \in Exp, NEW i \in 0 .. Len(s), NEW d \in Quantifier, e.op = d.op,
         NEW v
  PROVE  v \in Ways(Call("match_exp", e, 0), i, s) <=>
           \E w \in Ways(Call(d.f, e.args[1], 0), i, s) :
             v = Way(Join(Join(<<Punct(d.enter)>>, w.path), <<Punct(d.leave)>>), w.end)
<1>4. Ways(Call("match_exp", e, 0), i, s) = Unfold(Ways, Call("match_exp", e, 0), i, s)
  BY Calls, WaysFacts
<1>1. CASE d.op = "Repeat"
  BY <1>1, <1>4, CallFields DEF Unfold, Around, Then, Join, Quantifier
<1>2. CASE d.op = "Repeat1"
  BY <1>2, <1>4, CallFields DEF Unfold, Around, Then, Join, Quantifier
<1>3. CASE d.op = "Opt"
  BY <1>3, <1>4, CallFields DEF Unfold, Around, Then, Join, Quantifier
<1> QED BY <1>1, <1>2, <1>3 DEF Quantifier

LEMMA WaysAlt ==
  ASSUME NEW s \in Input, NEW e \in Exp, NEW i \in 0 .. Len(s), e.op = "Alt", NEW v
  PROVE  v \in Ways(Call("match_exp", e, 0), i, s) <=>
           \E w \in Ways(Call("match_case", e, 1), i, s) :
             v = Way(Join(Join(<<>>, w.path), <<Punct("Leave_alt")>>), w.end)
<1>1. Ways(Call("match_exp", e, 0), i, s) = Unfold(Ways, Call("match_exp", e, 0), i, s)
  BY Calls, WaysFacts
<1> QED BY <1>1, CallFields DEF Unfold, Around, Then, Join

LEMMA WaysSeq ==
  ASSUME NEW s \in Input, NEW e \in Exp, NEW i \in 0 .. Len(s), e.op = "Seq", NEW v
  PROVE  v \in Ways(Call("match_exp", e, 0), i, s) <=>
           \E w \in Ways(Call("match_seq", e, 1), i, s) :
             v = Way(Join(Join(<<Punct("Enter_seq")>>, w.path), <<>>), w.end)
<1>1. Ways(Call("match_exp", e, 0), i, s) = Unfold(Ways, Call("match_exp", e, 0), i, s)
  BY Calls, WaysFacts
<1> QED BY <1>1, CallFields DEF Unfold, Around, Then, Join

\* The frame after_exp, with the expression repeated and where it began.
Again(e, i) == [frame |-> "after_exp", exp |-> e, n |-> i]

LEMMA WaysIteration ==
  ASSUME NEW s, NEW e, NEW i, NEW j
  PROVE  FrameWays(Again(e, i), j, s) =
           IF j = i THEN {Way(<<>>, j)} ELSE Ways(Call("match_repeat", e, 0), j, s)
BY DEF FrameWays, Again, Leave

LEMMA WaysRepeat ==
  ASSUME NEW s \in Input, NEW e \in Exp, NEW i \in 0 .. Len(s), NEW v
  PROVE  v \in Ways(Call("match_repeat", e, 0), i, s) <=>
           \/ v = Way(<<>>, i)
           \/ \E w \in Ways(Call("match_exp", e, 0), i, s) :
              \E u \in FrameWays(Again(e, i), w.end, s) : v = Way(Join(w.path, u.path), u.end)
<1>1. Ways(Call("match_repeat", e, 0), i, s) = Unfold(Ways, Call("match_repeat", e, 0), i, s)
  BY Calls, WaysFacts
<1> QED BY <1>1, CallFields, WaysIteration DEF Unfold, Around, Then, Join

LEMMA WaysRepeat1 ==
  ASSUME NEW s \in Input, NEW e \in Exp, NEW i \in 0 .. Len(s), NEW v
  PROVE  v \in Ways(Call("match_repeat1", e, 0), i, s) <=>
           \E w \in Ways(Call("match_exp", e, 0), i, s) :
           \E u \in FrameWays(Again(e, i), w.end, s) : v = Way(Join(w.path, u.path), u.end)
<1>1. Ways(Call("match_repeat1", e, 0), i, s) = Unfold(Ways, Call("match_repeat1", e, 0), i, s)
  BY Calls, WaysFacts
<1> QED BY <1>1, CallFields, WaysIteration DEF Unfold, Around, Then, Join

LEMMA WaysOpt ==
  ASSUME NEW s \in Input, NEW e \in Exp, NEW i \in 0 .. Len(s)
  PROVE  Ways(Call("match_opt", e, 0), i, s) =
           {Way(<<>>, i)} \cup Ways(Call("match_exp", e, 0), i, s)
<1>1. Ways(Call("match_opt", e, 0), i, s) = Unfold(Ways, Call("match_opt", e, 0), i, s)
  BY Calls, WaysFacts
<1> QED BY <1>1, CallFields DEF Unfold, Around, Then, Join

LEMMA WaysCase ==
  ASSUME NEW s \in Input, NEW e \in Exp, NEW i \in 0 .. Len(s), NEW n \in 1 .. Len(e.args) + 1, NEW v
  PROVE  v \in Ways(Call("match_case", e, n), i, s) <=>
           \E k \in n .. Len(e.args) : \E w \in Ways(Call("match_exp", e.args[k], 0), i, s) :
             v = Way(Join(Join(<<EnterAlt(k)>>, w.path), <<>>), w.end)
<1>1. Ways(Call("match_case", e, n), i, s) = Unfold(Ways, Call("match_case", e, n), i, s)
  BY Calls, WaysFacts
<1> QED BY <1>1, CallFields DEF Unfold, Around, Then, Join

\* The frame match_seq, with the sequence and the expression to read next.
Following(e, n) == [frame |-> "match_seq", exp |-> e, n |-> n]

LEMMA WaysFollowing ==
  ASSUME NEW s, NEW e, NEW n, NEW j
  PROVE  FrameWays(Following(e, n), j, s) = Ways(Call("match_seq", e, n), j, s)
BY DEF FrameWays, Following, Leave

LEMMA WaysMatchSeq ==
  ASSUME NEW s \in Input, NEW e \in Exp, NEW i \in 0 .. Len(s), NEW n \in 1 .. Len(e.args), NEW v
  PROVE  v \in Ways(Call("match_seq", e, n), i, s) <=>
           \E w \in Ways(Call("match_exp", e.args[n], 0), i, s) :
           \E u \in FrameWays(Following(e, n + 1), w.end, s) : v = Way(Join(w.path, u.path), u.end)
<1>1. n \in 1 .. Len(e.args) + 1 /\ ~(n > Len(e.args))
  BY ExpAssumption
<1>2. Ways(Call("match_seq", e, n), i, s) = Unfold(Ways, Call("match_seq", e, n), i, s)
  BY <1>1, Calls, WaysFacts
<1> QED BY <1>1, <1>2, CallFields, WaysFollowing DEF Unfold, Around, Then, Join

LEMMA WaysSeqEnd ==
  ASSUME NEW s \in Input, NEW e \in Exp, NEW i \in 0 .. Len(s)
  PROVE  Ways(Call("match_seq", e, Len(e.args) + 1), i, s) = {Way(<<Punct("Leave_seq")>>, i)}
<1>1. Len(e.args) \in Nat
  BY ExpAssumption
<1>2. Len(e.args) + 1 \in 1 .. Len(e.args) + 1 /\ Len(e.args) + 1 > Len(e.args)
  BY <1>1
<1>3. Ways(Call("match_seq", e, Len(e.args) + 1), i, s)
         = Unfold(Ways, Call("match_seq", e, Len(e.args) + 1), i, s)
  BY <1>2, Calls, WaysFacts
<1> DEFINE c == Call("match_seq", e, Len(e.args) + 1)
<1>4. c.fn = "match_seq" /\ c.exp = e /\ c.i > Len(e.args)
  BY <1>2, CallFields
<1> HIDE DEF c
<1>5. Unfold(Ways, c, i, s) = {Way(<<Punct("Leave_seq")>>, i)}
  BY <1>4 DEF Unfold, Around, Then, Join
<1> QED BY <1>3, <1>5 DEF c

-----------------------------------------------------------------------------
(* What each function does to the paths ahead *)

LEMMA OneWay ==
  ASSUME NEW s \in Input, NEW j \in 0 .. Len(s), NEW x \in PathElt
  PROVE  /\ Way(<<>>, j) \in WayType(s) /\ Way(<<>>, j).path = <<>> /\ Way(<<>>, j).end = j
         /\ Way(<<x>>, j) \in WayType(s) /\ Way(<<x>>, j).path = <<x>> /\ Way(<<x>>, j).end = j
BY DEF Way, WayType, Paths

LEMMA EmitOne ==
  ASSUME NEW s \in Input, NEW K, NEW h \in Paths, NEW x \in PathElt, NEW j \in 0 .. Len(s), NEW p
  PROVE  Ahead({Way(<<x>>, j)}, K, h, p, s) <=> Ahead({Way(<<>>, j)}, K, Append(h, x), p, s)
<1> DEFINE b == <<x>>
           w == Way(<<>>, j)
           X == {Way(b, j)}
<1>1. b \in Paths /\ Append(h, x) = Join(h, b) /\ s \in Seq(Kind)
  BY Singleton, ExpAssumption
<1>2. w \in WayType(s) /\ w.path = <<>> /\ w.end = j
  BY OneWay, PathEmpty DEF PathElt
<1>3. Join(b, w.path) = b
  BY <1>1, <1>2, PathEmpty
<1>4. \A v : v \in X <=> \E u \in {w} : v = Way(Join(b, u.path), u.end)
  BY <1>2, <1>3
<1> HIDE DEF b, w, X
<1>6. {w} \in SUBSET WayType(s)
  BY <1>2
<1>5. Ahead(X, K, h, p, s) <=> Ahead({w}, K, Join(h, b), p, s)
  BY <1>1, <1>4, <1>6, Emitting
<1> QED BY <1>1, <1>5 DEF b, w, X

\* A frame of the continuation of which FrameWays is right.
FrameOK(f) == f \in Frame /\ (f.frame = "match_seq" => f.n \in 1 .. Len(f.exp.args) + 1)

LEMMA FrameWaysTyped ==
  ASSUME NEW s \in Input, NEW f, FrameOK(f), NEW j \in 0 .. Len(s)
  PROVE  FrameWays(f, j, s) \subseteq WayType(s)
<1>1. CASE f.frame \in Leave
  <2>1. Punct(f.frame) \in PathElt
    BY <1>1 DEF Punct, PathElt
  <2>2. FrameWays(f, j, s) = {Way(<<Punct(f.frame)>>, j)}
    BY <1>1 DEF FrameWays
  <2> QED BY <2>1, <2>2, OneWay
<1>2. CASE f.frame = "after_exp"
  <2>1. FrameWays(f, j, s) = IF j = f.n THEN {Way(<<>>, j)} ELSE Ways(Call("match_repeat", f.exp, 0), j, s)
    BY <1>2 DEF FrameWays, Leave
  <2>2. f.exp \in Exp /\ Way(<<>>, j) \in WayType(s)
    BY DEF FrameOK, Frame, Way, WayType, Paths
  <2>3. Ways(Call("match_repeat", f.exp, 0), j, s) \subseteq WayType(s)
    BY <2>2, Calls, WaysFacts
  <2> QED BY <2>1, <2>2, <2>3
<1>3. CASE f.frame = "match_seq"
  <2>1. FrameWays(f, j, s) = Ways(Call("match_seq", f.exp, f.n), j, s)
    BY <1>3 DEF FrameWays, Leave
  <2>2. f.exp \in Exp /\ f.n \in 1 .. Len(f.exp.args) + 1
    BY <1>3 DEF FrameOK, Frame
  <2> QED BY <2>1, <2>2, Calls, WaysFacts
<1> QED BY <1>1, <1>2, <1>3 DEF FrameOK, Frame

\* The continuation applied: its last frame, then the others.
LEMMA ContFrame ==
  ASSUME NEW s \in Input, NEW K \in Seq(Frame), K # <<>>, FrameOK(Top(K)),
         NEW h \in Paths, NEW p, NEW i \in 0 .. Len(s)
  PROVE  Ahead({Way(<<>>, i)}, K, h, p, s) <=> Ahead(FrameWays(Top(K), i, s), Pop(K), h, p, s)
<1> DEFINE f == Top(K)
           w == Way(<<>>, i)
           X == FrameWays(f, i, s)
<1>1. /\ s \in Seq(Kind) /\ f \in Frame /\ Pop(K) \in Seq(Frame) /\ K = Append(Pop(K), f)
      /\ <<>> \in Paths /\ Join(h, <<>>) = h
  <2>1. Pop(K) \in Seq(Frame) /\ K = Append(Pop(K), f)
    BY DEF Top, Pop
  <2> QED BY <2>1, ExpAssumption, PathEmpty DEF FrameOK
<1>2. w \in WayType(s) /\ w.path = <<>> /\ w.end = i
  BY DEF Way, WayType, Paths
<1>3. X \subseteq WayType(s)
  BY FrameWaysTyped
<1> HIDE DEF f, w
<1>4. ASSUME NEW u \in X PROVE Way(Join(<<>>, Join(w.path, u.path)), u.end) = u
  <2>1. u.path \in Paths /\ u = Way(u.path, u.end)
    BY <1>3 DEF WayType, Way
  <2> QED BY <1>2, <2>1, PathEmpty
<1>5. \A v : v \in X <=> \E y \in {w} : \E u \in FrameWays(f, y.end, s) :
                           v = Way(Join(<<>>, Join(y.path, u.path)), u.end)
  BY <1>2, <1>4
<1>6. \A y \in {w} : FrameWays(f, y.end, s) \subseteq WayType(s)
  BY <1>2, <1>3
<1> HIDE DEF X
<1>7. {w} \in SUBSET WayType(s)
  BY <1>2
<1>8. Ahead(X, Pop(K), h, p, s) <=> Ahead({w}, Append(Pop(K), f), Join(h, <<>>), p, s)
  BY <1>1, <1>5, <1>6, <1>7, Pushing
<1> QED BY <1>1, <1>8 DEF X, w, f

LEMMA StepToken ==
  ASSUME NEW s \in Input, NEW e \in Exp, NEW i \in 0 .. Len(s), NEW K, NEW h \in Paths, NEW p,
         e.op = "Token"
  PROVE  /\ i < Len(s) /\ s[i + 1] = e.kind =>
              (Ahead(Ways(Call("match_exp", e, 0), i, s), K, h, p, s)
                 <=> Ahead({Way(<<>>, i + 1)}, K, Append(h, Token(i + 1)), p, s))
         /\ ~(i < Len(s) /\ s[i + 1] = e.kind) =>
              ~Ahead(Ways(Call("match_exp", e, 0), i, s), K, h, p, s)
<1>1. ASSUME i < Len(s), s[i + 1] = e.kind
      PROVE  Ahead(Ways(Call("match_exp", e, 0), i, s), K, h, p, s)
               <=> Ahead({Way(<<>>, i + 1)}, K, Append(h, Token(i + 1)), p, s)
  <2>1. Ways(Call("match_exp", e, 0), i, s) = {Way(<<Token(i + 1)>>, i + 1)}
    BY <1>1, WaysToken
  <2>2. Token(i + 1) \in PathElt /\ i + 1 \in 0 .. Len(s)
    BY <1>1, ExpAssumption DEF Token, PathElt
  <2> QED BY <2>1, <2>2, EmitOne
<1>2. ASSUME ~(i < Len(s) /\ s[i + 1] = e.kind)
      PROVE  ~Ahead(Ways(Call("match_exp", e, 0), i, s), K, h, p, s)
  <2>1. Ways(Call("match_exp", e, 0), i, s) = {}
    BY <1>2, WaysToken
  <2> QED BY <2>1 DEF Ahead
<1> QED BY <1>1, <1>2

LEMMA StepNothing ==
  ASSUME NEW s \in Input, NEW e \in Exp, NEW i \in 0 .. Len(s), NEW K, NEW h \in Paths, NEW p,
         e.op = "Nothing"
  PROVE  Ahead(Ways(Call("match_exp", e, 0), i, s), K, h, p, s)
           <=> Ahead({Way(<<>>, i)}, K, Append(h, Punct("Nothing")), p, s)
<1>1. Ways(Call("match_exp", e, 0), i, s) = {Way(<<Punct("Nothing")>>, i)}
  BY WaysNothing
<1>2. Punct("Nothing") \in PathElt
  BY DEF Punct, PathElt
<1> QED BY <1>1, <1>2, EmitOne

LeaveFrame(leave, e) == [frame |-> leave, exp |-> e, n |-> 0]

\* Marks around the ways ws: one is written now, the other by the continuation.
LEMMA Surrounding ==
  ASSUME NEW s \in Input, NEW e \in Exp, NEW K \in Seq(Frame), NEW h \in Paths, NEW p,
         NEW b \in Paths, NEW leave \in Leave, NEW ws \in SUBSET WayType(s), NEW X,
         \A v : v \in X <=> \E w \in ws : v = Way(Join(Join(b, w.path), <<Punct(leave)>>), w.end)
  PROVE  Ahead(X, K, h, p, s) <=> Ahead(ws, Append(K, LeaveFrame(leave, e)), Join(h, b), p, s)
<1> DEFINE f == LeaveFrame(leave, e)
           l == <<Punct(leave)>>
<1>1. f \in Frame /\ FrameOK(f) /\ s \in Seq(Kind) /\ l \in Paths
  BY ExpAssumption DEF LeaveFrame, Frame, FrameOK, Punct, PathElt, Paths, Leave
<1>2. ASSUME NEW w \in ws
      PROVE  /\ w.path \in Paths /\ w.end \in 0 .. Len(s)
             /\ FrameWays(f, w.end, s) = {Way(l, w.end)}
             /\ FrameWays(f, w.end, s) \subseteq WayType(s)
  <2>1. w.path \in Paths /\ w.end \in 0 .. Len(s)
    BY DEF WayType
  <2>2. FrameWays(f, w.end, s) = {Way(l, w.end)}
    BY DEF FrameWays, LeaveFrame
  <2> QED BY <1>1, <2>1, <2>2, FrameWaysTyped
<1>7. \A v : v \in X <=> \E w \in ws : v = Way(Join(Join(b, w.path), l), w.end)
  OBVIOUS
<1> HIDE DEF f, l
<1>3. ASSUME NEW w \in ws, NEW v
      PROVE  v = Way(Join(Join(b, w.path), l), w.end)
               <=> \E u \in FrameWays(f, w.end, s) : v = Way(Join(b, Join(w.path, u.path)), u.end)
  <2>1. Way(l, w.end).path = l /\ Way(l, w.end).end = w.end
    BY DEF Way
  <2>2. Join(Join(b, w.path), l) = Join(b, Join(w.path, l))
    <3> DEFINE x == w.path
    <3>1. x \in Paths
      BY <1>2
    <3> HIDE DEF x
    <3>2. Join(Join(b, x), l) = Join(b, Join(x, l))
      BY <1>1, <3>1, PathAssoc
    <3> QED BY <3>2 DEF x
  <2> QED BY <1>2, <2>1, <2>2
<1>4. \A v : v \in X <=> \E w \in ws : \E u \in FrameWays(f, w.end, s) :
                           v = Way(Join(b, Join(w.path, u.path)), u.end)
  <2>1. ASSUME NEW v
        PROVE  (\E w \in ws : v = Way(Join(Join(b, w.path), l), w.end))
                 <=> \E w \in ws : \E u \in FrameWays(f, w.end, s) :
                       v = Way(Join(b, Join(w.path, u.path)), u.end)
    <3>1. ASSUME NEW w \in ws, v = Way(Join(Join(b, w.path), l), w.end)
          PROVE  \E u \in FrameWays(f, w.end, s) : v = Way(Join(b, Join(w.path, u.path)), u.end)
      BY <1>3, <3>1
    <3>2. ASSUME NEW w \in ws, NEW u \in FrameWays(f, w.end, s),
                 v = Way(Join(b, Join(w.path, u.path)), u.end)
          PROVE  v = Way(Join(Join(b, w.path), l), w.end)
      BY <1>3, <3>2
    <3> QED BY <3>1, <3>2
  <2> QED BY <1>7, <2>1
<1>5. \A w \in ws : FrameWays(f, w.end, s) \subseteq WayType(s)
  BY <1>2
<1>6. Ahead(X, K, h, p, s) <=> Ahead(ws, Append(K, f), Join(h, b), p, s)
  BY <1>1, <1>4, <1>5, Pushing
<1> QED BY <1>6 DEF f

LEMMA StepQuantifier ==
  ASSUME NEW s \in Input, NEW e \in Exp, NEW i \in 0 .. Len(s), NEW K \in Seq(Frame),
         NEW h \in Paths, NEW p, NEW d \in Quantifier, e.op = d.op
  PROVE  Ahead(Ways(Call("match_exp", e, 0), i, s), K, h, p, s)
           <=> Ahead(Ways(Call(d.f, e.args[1], 0), i, s), Append(K, LeaveFrame(d.leave, e)),
                     Append(h, Punct(d.enter)), p, s)
<1> DEFINE X  == Ways(Call("match_exp", e, 0), i, s)
           ws == Ways(Call(d.f, e.args[1], 0), i, s)
           b  == <<Punct(d.enter)>>
<1>1. d.leave \in Leave /\ d.enter \in Enter /\ d.f \in {"match_repeat", "match_repeat1", "match_opt"}
      /\ d.op \in {"Repeat", "Repeat1", "Opt"}
  BY DEF Quantifier, Leave, Enter
<1>2. e.args[1] \in Exp
  BY <1>1, ExpAssumption
<1>3. ws \in SUBSET WayType(s)
  BY <1>1, <1>2, Calls, WaysFacts
<1>4. b \in Paths /\ Append(h, Punct(d.enter)) = Join(h, b)
  <2>1. Punct(d.enter) \in PathElt
    BY <1>1 DEF Punct, PathElt
  <2> QED BY <2>1, Singleton
<1>5. \A v : v \in X <=> \E w \in ws : v = Way(Join(Join(b, w.path), <<Punct(d.leave)>>), w.end)
  BY WaysQuantifier
<1> HIDE DEF X, ws, b
<1>6. Ahead(X, K, h, p, s) <=> Ahead(ws, Append(K, LeaveFrame(d.leave, e)), Join(h, b), p, s)
  BY <1>1, <1>3, <1>4, <1>5, Surrounding
<1> QED BY <1>4, <1>6 DEF X, ws

LEMMA StepAlt ==
  ASSUME NEW s \in Input, NEW e \in Exp, NEW i \in 0 .. Len(s), NEW K \in Seq(Frame),
         NEW h \in Paths, NEW p, e.op = "Alt"
  PROVE  Ahead(Ways(Call("match_exp", e, 0), i, s), K, h, p, s)
           <=> Ahead(Ways(Call("match_case", e, 1), i, s), Append(K, LeaveFrame("Leave_alt", e)), h, p, s)
<1> DEFINE X  == Ways(Call("match_exp", e, 0), i, s)
           ws == Ways(Call("match_case", e, 1), i, s)
<1>1. ws \in SUBSET WayType(s)
  <2>1. 1 \in 1 .. Len(e.args) + 1
    BY ExpAssumption
  <2> QED BY <2>1, Calls, WaysFacts
<1>2. <<>> \in Paths /\ Join(h, <<>>) = h /\ "Leave_alt" \in Leave
  BY PathEmpty DEF Leave
<1>3. \A v : v \in X <=> \E w \in ws : v = Way(Join(Join(<<>>, w.path), <<Punct("Leave_alt")>>), w.end)
  BY WaysAlt
<1> HIDE DEF X, ws
<1>4. Ahead(X, K, h, p, s) <=> Ahead(ws, Append(K, LeaveFrame("Leave_alt", e)), Join(h, <<>>), p, s)
  BY <1>1, <1>2, <1>3, Surrounding
<1> QED BY <1>2, <1>4 DEF X, ws

LEMMA NoCase ==
  ASSUME NEW s \in Input, NEW e \in Exp, NEW i \in 0 .. Len(s), NEW K, NEW h, NEW p,
         NEW n \in 1 .. Len(e.args) + 1, n = Len(e.args) + 1
  PROVE  ~Ahead(Ways(Call("match_case", e, n), i, s), K, h, p, s)
<1>1. n .. Len(e.args) = {}
  BY ExpAssumption
<1>2. \A v : v \notin Ways(Call("match_case", e, n), i, s)
  BY <1>1, WaysCase
<1> QED BY <1>2 DEF Ahead

LEMMA StepSeq ==
  ASSUME NEW s \in Input, NEW e \in Exp, NEW i \in 0 .. Len(s), NEW K \in Seq(Frame),
         NEW h \in Paths, NEW p, e.op = "Seq"
  PROVE  Ahead(Ways(Call("match_exp", e, 0), i, s), K, h, p, s)
           <=> Ahead(Ways(Call("match_seq", e, 1), i, s), K, Append(h, Punct("Enter_seq")), p, s)
<1> DEFINE X  == Ways(Call("match_exp", e, 0), i, s)
           ws == Ways(Call("match_seq", e, 1), i, s)
           b  == <<Punct("Enter_seq")>>
<1>1. ws \in SUBSET WayType(s)
  <2>1. 1 \in 1 .. Len(e.args) + 1
    BY ExpAssumption
  <2> QED BY <2>1, Calls, WaysFacts
<1>2. b \in Paths /\ Append(h, Punct("Enter_seq")) = Join(h, b)
  <2>1. Punct("Enter_seq") \in PathElt
    BY DEF Punct, PathElt, Enter
  <2> QED BY <2>1, Singleton
<1>3. \A v : v \in X <=> \E w \in ws : v = Way(Join(Join(b, w.path), <<>>), w.end)
  BY WaysSeq
<1> HIDE DEF X, ws, b
<1>4. ASSUME NEW w \in ws PROVE Join(Join(b, w.path), <<>>) = Join(b, w.path)
  <2>1. w.path \in Paths
    BY <1>1 DEF WayType
  <2>2. Join(b, w.path) \in Paths
    BY <1>2, <2>1, PathConcat
  <2> QED BY <2>2, PathEmpty
<1>5. \A v : v \in X <=> \E w \in ws : v = Way(Join(b, w.path), w.end)
  BY <1>3, <1>4
<1>6. Ahead(X, K, h, p, s) <=> Ahead(ws, K, Join(h, b), p, s)
  <2>1. s \in Seq(Kind) /\ b \in Paths
    BY <1>2, ExpAssumption
  <2> QED BY <1>1, <1>5, <2>1, Emitting
<1> QED BY <1>2, <1>6 DEF X, ws

\* What is to follow an expression is left to the frame f.
LEMMA Continuing ==
  ASSUME NEW s \in Input, NEW K \in Seq(Frame), NEW f, FrameOK(f), NEW h \in Paths, NEW p,
         NEW ws \in SUBSET WayType(s), NEW X,
         \A v : v \in X <=> \E w \in ws : \E u \in FrameWays(f, w.end, s) :
                              v = Way(Join(w.path, u.path), u.end)
  PROVE  Ahead(X, K, h, p, s) <=> Ahead(ws, Append(K, f), h, p, s)
<1>1. <<>> \in Paths /\ Join(h, <<>>) = h /\ f \in Frame /\ s \in Seq(Kind)
  BY PathEmpty, ExpAssumption DEF FrameOK
<1>2. ASSUME NEW w \in ws
      PROVE  /\ FrameWays(f, w.end, s) \subseteq WayType(s)
             /\ \A u \in FrameWays(f, w.end, s) : Join(<<>>, Join(w.path, u.path)) = Join(w.path, u.path)
  <2>1. w.path \in Paths /\ w.end \in 0 .. Len(s)
    BY DEF WayType
  <2>2. FrameWays(f, w.end, s) \subseteq WayType(s)
    BY <2>1, FrameWaysTyped
  <2>3. ASSUME NEW u \in FrameWays(f, w.end, s)
        PROVE  Join(<<>>, Join(w.path, u.path)) = Join(w.path, u.path)
    <3>1. u.path \in Paths
      BY <2>2 DEF WayType
    <3>2. Join(w.path, u.path) \in Paths
      BY <2>1, <3>1, PathConcat
    <3> QED BY <3>2, PathEmpty
  <2> QED BY <2>2, <2>3
<1>3. \A v : v \in X <=> \E w \in ws : \E u \in FrameWays(f, w.end, s) :
                           v = Way(Join(<<>>, Join(w.path, u.path)), u.end)
  BY <1>2
<1>4. \A w \in ws : FrameWays(f, w.end, s) \subseteq WayType(s)
  BY <1>2
<1>5. Ahead(X, K, h, p, s) <=> Ahead(ws, Append(K, f), Join(h, <<>>), p, s)
  BY <1>1, <1>3, <1>4, Pushing
<1> QED BY <1>1, <1>5

LEMMA AgainOK ==
  ASSUME NEW e \in Exp, NEW i \in Nat
  PROVE  FrameOK(Again(e, i))
BY DEF FrameOK, Again, Frame

LEMMA StepRepeat ==
  ASSUME NEW s \in Input, NEW e \in Exp, NEW i \in 0 .. Len(s), NEW K \in Seq(Frame),
         NEW h \in Paths, NEW p
  PROVE  Ahead(Ways(Call("match_repeat", e, 0), i, s), K, h, p, s)
           <=> \/ Ahead(Ways(Call("match_exp", e, 0), i, s), Append(K, Again(e, i)), h, p, s)
               \/ Ahead({Way(<<>>, i)}, K, h, p, s)
<1> DEFINE A  == Ways(Call("match_repeat", e, 0), i, s)
           ws == Ways(Call("match_exp", e, 0), i, s)
           f  == Again(e, i)
           B  == {Way(<<>>, i)}
           X  == {v \in A : \E w \in ws : \E u \in FrameWays(f, w.end, s) : v = Way(Join(w.path, u.path), u.end)}
<1>1. ws \in SUBSET WayType(s)
  BY Calls, WaysFacts
<1>2. FrameOK(f)
  <2>1. i \in Nat
    BY ExpAssumption
  <2> QED BY <2>1, AgainOK
<1>3. \A v : v \in A <=>
           v \in B \/ \E w \in ws : \E u \in FrameWays(f, w.end, s) : v = Way(Join(w.path, u.path), u.end)
  BY WaysRepeat
<1> HIDE DEF A, ws, f, B
<1>4. A = X \cup B
  BY <1>3
<1>5. \A v : v \in X <=> \E w \in ws : \E u \in FrameWays(f, w.end, s) : v = Way(Join(w.path, u.path), u.end)
  BY <1>3
<1> HIDE DEF X
<1>6. Ahead(X, K, h, p, s) <=> Ahead(ws, Append(K, f), h, p, s)
  BY <1>1, <1>2, <1>5, Continuing
<1>7. Ahead(A, K, h, p, s) <=> Ahead(X, K, h, p, s) \/ Ahead(B, K, h, p, s)
  BY <1>4, AheadUnion
<1> QED BY <1>6, <1>7 DEF A, ws, f, B

LEMMA StepRepeat1 ==
  ASSUME NEW s \in Input, NEW e \in Exp, NEW i \in 0 .. Len(s), NEW K \in Seq(Frame),
         NEW h \in Paths, NEW p
  PROVE  Ahead(Ways(Call("match_repeat1", e, 0), i, s), K, h, p, s)
           <=> Ahead(Ways(Call("match_exp", e, 0), i, s), Append(K, Again(e, i)), h, p, s)
<1> DEFINE X  == Ways(Call("match_repeat1", e, 0), i, s)
           ws == Ways(Call("match_exp", e, 0), i, s)
           f  == Again(e, i)
<1>1. ws \in SUBSET WayType(s)
  BY Calls, WaysFacts
<1>2. FrameOK(f)
  <2>1. i \in Nat
    BY ExpAssumption
  <2> QED BY <2>1, AgainOK
<1>3. \A v : v \in X <=> \E w \in ws : \E u \in FrameWays(f, w.end, s) : v = Way(Join(w.path, u.path), u.end)
  BY WaysRepeat1
<1> HIDE DEF X, ws, f
<1>4. Ahead(X, K, h, p, s) <=> Ahead(ws, Append(K, f), h, p, s)
  BY <1>1, <1>2, <1>3, Continuing
<1> QED BY <1>4 DEF X, ws, f

LEMMA StepOpt ==
  ASSUME NEW s \in Input, NEW e \in Exp, NEW i \in 0 .. Len(s), NEW K, NEW h, NEW p
  PROVE  Ahead(Ways(Call("match_opt", e, 0), i, s), K, h, p, s)
           <=> \/ Ahead(Ways(Call("match_exp", e, 0), i, s), K, h, p, s)
               \/ Ahead({Way(<<>>, i)}, K, h, p, s)
<1>1. Ways(Call("match_opt", e, 0), i, s) = {Way(<<>>, i)} \cup Ways(Call("match_exp", e, 0), i, s)
  BY WaysOpt
<1> QED BY <1>1, AheadUnion

\* The ways that begin with the n-th case.
CaseWays(e, n, i, s) ==
  {Way(Join(<<EnterAlt(n)>>, w.path), w.end) : w \in Ways(Call("match_exp", e.args[n], 0), i, s)}

LEMMA CaseEmits ==
  ASSUME NEW s \in Input, NEW e \in Exp, NEW i \in 0 .. Len(s), NEW K \in Seq(Frame),
         NEW h \in Paths, NEW p, NEW n \in 1 .. Len(e.args)
  PROVE  Ahead(CaseWays(e, n, i, s), K, h, p, s)
           <=> Ahead(Ways(Call("match_exp", e.args[n], 0), i, s), K, Append(h, EnterAlt(n)), p, s)
<1> DEFINE X  == CaseWays(e, n, i, s)
           ws == Ways(Call("match_exp", e.args[n], 0), i, s)
           b  == <<EnterAlt(n)>>
<1>1. e.args[n] \in Exp /\ s \in Seq(Kind) /\ n \in Nat
  BY ExpAssumption
<1>2. ws \in SUBSET WayType(s)
  BY <1>1, Calls, WaysFacts
<1>3. b \in Paths /\ Append(h, EnterAlt(n)) = Join(h, b)
  <2>1. EnterAlt(n) \in PathElt
    BY <1>1 DEF EnterAlt, PathElt, Enter
  <2> QED BY <2>1, Singleton
<1>4. \A v : v \in X <=> \E w \in ws : v = Way(Join(b, w.path), w.end)
  BY DEF CaseWays
<1> HIDE DEF X, ws, b
<1>5. Ahead(X, K, h, p, s) <=> Ahead(ws, K, Join(h, b), p, s)
  <2>1. s \in Seq(Kind) /\ b \in Paths
    BY <1>1, <1>3
  <2> QED BY <1>2, <1>4, <2>1, Emitting
<1> QED BY <1>3, <1>5 DEF X, ws

LEMMA CasesAre ==
  ASSUME NEW s \in Input, NEW e \in Exp, NEW i \in 0 .. Len(s), NEW n \in 1 .. Len(e.args) + 1, NEW v
  PROVE  v \in Ways(Call("match_case", e, n), i, s) <=> \E k \in n .. Len(e.args) : v \in CaseWays(e, k, i, s)
<1>1. ASSUME NEW k \in n .. Len(e.args), NEW w \in Ways(Call("match_exp", e.args[k], 0), i, s)
      PROVE  Join(Join(<<EnterAlt(k)>>, w.path), <<>>) = Join(<<EnterAlt(k)>>, w.path)
  <2>1. e.args[k] \in Exp /\ k \in Nat
    BY ExpAssumption
  <2>2. EnterAlt(k) \in PathElt
    BY <2>1 DEF EnterAlt, PathElt, Enter
  <2>3. <<EnterAlt(k)>> \in Paths /\ w.path \in Paths
    <3>1. w \in WayType(s)
      BY <2>1, Calls, WaysFacts
    <3> QED BY <2>2, <3>1 DEF Paths, WayType
  <2>4. Join(<<EnterAlt(k)>>, w.path) \in Paths
    BY <2>3, PathConcat
  <2> QED BY <2>4, PathEmpty
<1>2. v \in Ways(Call("match_case", e, n), i, s) <=>
           \E k \in n .. Len(e.args) : \E w \in Ways(Call("match_exp", e.args[k], 0), i, s) :
             v = Way(Join(Join(<<EnterAlt(k)>>, w.path), <<>>), w.end)
  BY WaysCase
<1> QED BY <1>1, <1>2 DEF CaseWays

LEMMA StepCase ==
  ASSUME NEW s \in Input, NEW e \in Exp, NEW i \in 0 .. Len(s), NEW K \in Seq(Frame),
         NEW h \in Paths, NEW p, NEW n \in 1 .. Len(e.args)
  PROVE  Ahead(Ways(Call("match_case", e, n), i, s), K, h, p, s)
           <=> \/ Ahead(CaseWays(e, n, i, s), K, h, p, s)
               \/ Ahead(Ways(Call("match_case", e, n + 1), i, s), K, h, p, s)
<1>1. /\ n \in 1 .. Len(e.args) + 1 /\ n + 1 \in 1 .. Len(e.args) + 1
      /\ \A k : k \in n .. Len(e.args) <=> k = n \/ k \in n + 1 .. Len(e.args)
  BY ExpAssumption
<1> DEFINE A == Ways(Call("match_case", e, n), i, s)
           B == CaseWays(e, n, i, s)
           C == Ways(Call("match_case", e, n + 1), i, s)
<1>2. ASSUME NEW v
      PROVE  v \in A <=> v \in B \/ v \in C
  <2>1. v \in A <=> \E k \in n .. Len(e.args) : v \in CaseWays(e, k, i, s)
    BY <1>1, CasesAre
  <2>2. v \in C <=> \E k \in n + 1 .. Len(e.args) : v \in CaseWays(e, k, i, s)
    BY <1>1, CasesAre
  <2> HIDE DEF A, C
  <2> QED BY <1>1, <2>1, <2>2
<1> HIDE DEF A, B, C
<1>3. A = B \cup C
  BY <1>2
<1>4. Ahead(A, K, h, p, s) <=> Ahead(B, K, h, p, s) \/ Ahead(C, K, h, p, s)
  BY <1>3, AheadUnion
<1> QED BY <1>4 DEF A, B, C

LEMMA FollowingOK ==
  ASSUME NEW e \in Exp, NEW n \in 1 .. Len(e.args) + 1
  PROVE  FrameOK(Following(e, n))
<1>1. n \in Nat
  BY ExpAssumption
<1> QED BY <1>1 DEF FrameOK, Following, Frame

LEMMA StepMatchSeq ==
  ASSUME NEW s \in Input, NEW e \in Exp, NEW i \in 0 .. Len(s), NEW K \in Seq(Frame),
         NEW h \in Paths, NEW p, NEW n \in 1 .. Len(e.args)
  PROVE  Ahead(Ways(Call("match_seq", e, n), i, s), K, h, p, s)
           <=> Ahead(Ways(Call("match_exp", e.args[n], 0), i, s), Append(K, Following(e, n + 1)), h, p, s)
<1> DEFINE X  == Ways(Call("match_seq", e, n), i, s)
           ws == Ways(Call("match_exp", e.args[n], 0), i, s)
           f  == Following(e, n + 1)
<1>1. e.args[n] \in Exp /\ n + 1 \in 1 .. Len(e.args) + 1
  BY ExpAssumption
<1>2. ws \in SUBSET WayType(s)
  BY <1>1, Calls, WaysFacts
<1>3. FrameOK(f)
  BY <1>1, FollowingOK
<1>4. \A v : v \in X <=> \E w \in ws : \E u \in FrameWays(f, w.end, s) : v = Way(Join(w.path, u.path), u.end)
  BY WaysMatchSeq
<1> HIDE DEF X, ws, f
<1>5. Ahead(X, K, h, p, s) <=> Ahead(ws, Append(K, f), h, p, s)
  BY <1>2, <1>3, <1>4, Continuing
<1> QED BY <1>5 DEF X, ws, f

LEMMA StepSeqEnd ==
  ASSUME NEW s \in Input, NEW e \in Exp, NEW i \in 0 .. Len(s), NEW K, NEW h \in Paths, NEW p
  PROVE  Ahead(Ways(Call("match_seq", e, Len(e.args) + 1), i, s), K, h, p, s)
           <=> Ahead({Way(<<>>, i)}, K, Append(h, Punct("Leave_seq")), p, s)
<1>1. Ways(Call("match_seq", e, Len(e.args) + 1), i, s) = {Way(<<Punct("Leave_seq")>>, i)}
  BY WaysSeqEnd
<1>2. Punct("Leave_seq") \in PathElt
  BY DEF Punct, PathElt, Leave
<1> QED BY <1>1, <1>2, EmitOne

LEMMA StepLeave ==
  ASSUME NEW s \in Input, NEW K \in Seq(Frame), K # <<>>, FrameOK(Top(K)), Top(K).frame \in Leave,
         NEW h \in Paths, NEW p, NEW i \in 0 .. Len(s)
  PROVE  Ahead({Way(<<>>, i)}, K, h, p, s)
           <=> Ahead({Way(<<>>, i)}, Pop(K), Append(h, Punct(Top(K).frame)), p, s)
<1>1. Ahead({Way(<<>>, i)}, K, h, p, s) <=> Ahead(FrameWays(Top(K), i, s), Pop(K), h, p, s)
  BY ContFrame
<1>2. FrameWays(Top(K), i, s) = {Way(<<Punct(Top(K).frame)>>, i)}
  BY DEF FrameWays
<1>3. Punct(Top(K).frame) \in PathElt
  BY DEF Punct, PathElt
<1> QED BY <1>1, <1>2, <1>3, EmitOne

LEMMA StepEnd ==
  ASSUME NEW s \in Input, NEW h \in Paths, NEW p, NEW i \in 0 .. Len(s)
  PROVE  Ahead({Way(<<>>, i)}, <<>>, h, p, s) <=> i = Len(s) /\ p = h
<1> DEFINE w == Way(<<>>, i)
<1>1. w.path = <<>> /\ w.end = i /\ s \in Seq(Kind) /\ <<>> \in Paths
  BY ExpAssumption, PathEmpty DEF Way
<1> HIDE DEF w
<1>2. \A r : Completes(<<>>, i, r, s) <=> i = Len(s) /\ r = <<>>
  BY <1>1, CompletesNothing
<1>3. Join(h, Join(<<>>, <<>>)) = h
  BY <1>1, PathEmpty
<1>4. Ahead({w}, <<>>, h, p, s) <=> i = Len(s) /\ p = h
  BY <1>1, <1>2, <1>3 DEF Ahead
<1> QED BY <1>4 DEF w

-----------------------------------------------------------------------------
(* Which paths are preferred *)

\* Every way of ws begins with an element of S.
Starts(ws, S) == \A w \in ws : \E x \in S : \E c \in Paths : w.path = Join(<<x>>, c)

\* p goes on after h with an element of S.
GoesOn(p, h, S) == \E x \in S : \E c \in Paths : p = Join(h, Join(<<x>>, c))

LEMMA AheadGoesOn ==
  ASSUME NEW ws, NEW S \in SUBSET PathElt, Starts(ws, S), NEW K, NEW h, NEW p, NEW s,
         Ahead(ws, K, h, p, s)
  PROVE  GoesOn(p, h, S)
<1>1. PICK v \in ws : \E r \in Paths : p = Join(h, Join(v.path, r))
  BY DEF Ahead
<1>2. PICK r \in Paths : p = Join(h, Join(v.path, r))
  BY <1>1
<1>3. PICK x \in S : \E c \in Paths : v.path = Join(<<x>>, c)
  BY DEF Starts
<1>4. PICK c \in Paths : v.path = Join(<<x>>, c)
  BY <1>3
<1> DEFINE b == <<x>>
<1>5. b \in Paths
  BY DEF Paths
<1> HIDE DEF b
<1>6. Join(Join(b, c), r) = Join(b, Join(c, r)) /\ Join(c, r) \in Paths
  BY <1>5, PathAssoc, PathConcat
<1>7. p = Join(h, Join(b, Join(c, r)))
  BY <1>2, <1>4, <1>6 DEF b
<1> QED BY <1>6, <1>7 DEF GoesOn, b

LEMMA GoingOn ==
  ASSUME NEW h \in Paths, NEW S \in SUBSET PathElt, NEW T \in SUBSET PathElt,
         \A x \in S, y \in T : Prior(x, y),
         NEW p, GoesOn(p, h, S), NEW r, GoesOn(r, h, T)
  PROVE  Preferred(p, r)
<1>1. PICK x \in S : \E c \in Paths : p = Join(h, Join(<<x>>, c))
  BY DEF GoesOn
<1>2. PICK c \in Paths : p = Join(h, Join(<<x>>, c))
  BY <1>1
<1>3. PICK y \in T : \E d \in Paths : r = Join(h, Join(<<y>>, d))
  BY DEF GoesOn
<1>4. PICK d \in Paths : r = Join(h, Join(<<y>>, d))
  BY <1>3
<1> DEFINE a == Join(<<x>>, c)
           b == Join(<<y>>, d)
<1>5. <<x>> \in Paths /\ <<y>> \in Paths /\ x \in PathElt /\ y \in PathElt /\ Prior(x, y)
  BY DEF Paths
<1>6. a \in Paths /\ b \in Paths
  BY <1>5, PathConcat
<1>7. Preferred(Join(h, a), Join(h, b))
  BY <1>5, <1>6, Parting
<1> QED BY <1>2, <1>4, <1>7

\* What a matched expression begins with: never the end of a quantifier.
Beginning == {x \in PathElt : x.elt \notin Leaving}

LEMMA ExpBegins ==
  ASSUME NEW s \in Input, NEW e \in Exp, NEW i \in 0 .. Len(s)
  PROVE  Starts(Ways(Call("match_exp", e, 0), i, s), Beginning)
<1> SUFFICES ASSUME NEW v \in Ways(Call("match_exp", e, 0), i, s)
             PROVE  \E x \in Beginning : \E c \in Paths : v.path = Join(<<x>>, c)
  BY DEF Starts
<1>1. <<>> \in Paths
  BY DEF Paths
<1>2. ASSUME NEW x \in Beginning
      PROVE  <<x>> \in Paths /\ Join(<<x>>, <<>>) = <<x>>
  <2>1. <<x>> \in Paths
    BY DEF Beginning, Paths
  <2> QED BY <2>1, PathEmpty
<1>3. CASE e.op = "Token"
  <2>1. i < Len(s) /\ v = Way(<<Token(i + 1)>>, i + 1)
    BY <1>3, WaysToken
  <2>2. Token(i + 1) \in Beginning /\ v.path = <<Token(i + 1)>>
    BY <2>1 DEF Beginning, Token, PathElt, Leaving, Way
  <2> QED BY <1>1, <1>2, <2>2
<1>4. CASE e.op = "Nothing"
  <2>1. v = Way(<<Punct("Nothing")>>, i)
    BY <1>4, WaysNothing
  <2>2. Punct("Nothing") \in Beginning /\ v.path = <<Punct("Nothing")>>
    BY <2>1 DEF Beginning, Punct, PathElt, Leaving, Way
  <2> QED BY <1>1, <1>2, <2>2
<1>5. CASE e.op \in {"Repeat", "Repeat1", "Opt"}
  <2>1. PICK d \in Quantifier : e.op = d.op
    BY <1>5 DEF Quantifier
  <2>2. PICK w \in Ways(Call(d.f, e.args[1], 0), i, s) :
          v = Way(Join(Join(<<Punct(d.enter)>>, w.path), <<Punct(d.leave)>>), w.end)
    BY <2>1, WaysQuantifier
  <2>3. /\ Punct(d.enter) \in Beginning /\ Punct(d.leave) \in PathElt
        /\ d.f \in {"match_repeat", "match_repeat1", "match_opt"}
    BY DEF Quantifier, Beginning, Punct, PathElt, Enter, Leave, Leaving
  <2>4. w.path \in Paths
    <3>1. e.args[1] \in Exp
      BY <1>5, ExpAssumption
    <3>2. w \in WayType(s)
      BY <2>3, <3>1, Calls, WaysFacts
    <3> QED BY <3>2 DEF WayType
  <2> DEFINE a == <<Punct(d.enter)>>
             y == w.path
             l == <<Punct(d.leave)>>
  <2>5. a \in Paths /\ y \in Paths /\ l \in Paths
    BY <2>3, <2>4 DEF Paths, Beginning
  <2>6. v.path = Join(Join(a, y), l)
    BY <2>2 DEF Way
  <2> HIDE DEF a, y, l
  <2>7. v.path = Join(a, Join(y, l)) /\ Join(y, l) \in Paths
    BY <2>5, <2>6, PathAssoc, PathConcat
  <2> QED BY <2>3, <2>7 DEF a
<1>6. CASE e.op = "Alt"
  <2>1. 1 \in 1 .. Len(e.args) + 1
    BY ExpAssumption
  <2>2. PICK w \in Ways(Call("match_case", e, 1), i, s) :
          v = Way(Join(Join(<<>>, w.path), <<Punct("Leave_alt")>>), w.end)
    BY <1>6, WaysAlt
  <2>3. PICK k \in 1 .. Len(e.args) : w \in CaseWays(e, k, i, s)
    BY <2>1, CasesAre
  <2>4. PICK u \in Ways(Call("match_exp", e.args[k], 0), i, s) : w = Way(Join(<<EnterAlt(k)>>, u.path), u.end)
    BY <2>3 DEF CaseWays
  <2>5. e.args[k] \in Exp /\ k \in Nat
    BY ExpAssumption
  <2>6. EnterAlt(k) \in Beginning
    BY <2>5 DEF Beginning, EnterAlt, PathElt, Enter, Leaving
  <2>7. u.path \in Paths
    <3>1. u \in WayType(s)
      BY <2>5, Calls, WaysFacts
    <3> QED BY <3>1 DEF WayType
  <2> DEFINE a == <<EnterAlt(k)>>
             y == u.path
             l == <<Punct("Leave_alt")>>
  <2>8. a \in Paths /\ y \in Paths /\ l \in Paths
    <3>1. Punct("Leave_alt") \in PathElt
      BY DEF Punct, PathElt, Leave
    <3> QED BY <2>6, <2>7, <3>1 DEF Paths, Beginning
  <2>9. w.path = Join(a, y) /\ v.path = Join(Join(<<>>, w.path), l)
    BY <2>2, <2>4 DEF Way
  <2> HIDE DEF a, y, l
  <2>10. Join(a, y) \in Paths /\ Join(y, l) \in Paths
    BY <2>8, PathConcat
  <2>11. v.path = Join(a, Join(y, l))
    BY <2>8, <2>9, <2>10, PathAssoc, PathEmpty
  <2> QED BY <2>6, <2>10, <2>11 DEF a
<1>7. CASE e.op = "Seq"
  <2>1. PICK w \in Ways(Call("match_seq", e, 1), i, s) :
          v = Way(Join(Join(<<Punct("Enter_seq")>>, w.path), <<>>), w.end)
    BY <1>7, WaysSeq
  <2>2. Punct("Enter_seq") \in Beginning
    BY DEF Beginning, Punct, PathElt, Enter, Leaving
  <2>3. w.path \in Paths
    <3>1. 1 \in 1 .. Len(e.args) + 1
      BY ExpAssumption
    <3>2. w \in WayType(s)
      BY <3>1, Calls, WaysFacts
    <3> QED BY <3>2 DEF WayType
  <2>4. v.path = Join(Join(<<Punct("Enter_seq")>>, w.path), <<>>)
    BY <2>1 DEF Way
  <2>5. <<Punct("Enter_seq")>> \in Paths
    BY <1>2, <2>2
  <2>6. Join(<<Punct("Enter_seq")>>, w.path) \in Paths
    BY <2>3, <2>5, PathConcat
  <2>7. v.path = Join(<<Punct("Enter_seq")>>, w.path)
    BY <2>4, <2>6, PathEmpty
  <2> QED BY <2>2, <2>3, <2>7
<1> QED BY <1>3, <1>4, <1>5, <1>6, <1>7, ExpAssumption DEF Ops

\* Another iteration, or a value, is preferred to leaving the quantifier.
LEMMA IteratingPreferred ==
  ASSUME NEW s \in Input, NEW e \in Exp, NEW i \in 0 .. Len(s), NEW K \in Seq(Frame),
         K # <<>>, FrameOK(Top(K)), Top(K).frame \in Leaving, NEW L, NEW h \in Paths,
         NEW p, Ahead(Ways(Call("match_exp", e, 0), i, s), L, h, p, s),
         NEW r, Ahead({Way(<<>>, i)}, K, h, r, s)
  PROVE  Preferred(p, r)
<1> DEFINE x == Punct(Top(K).frame)
<1>1. GoesOn(p, h, Beginning)
  <2>1. Beginning \in SUBSET PathElt
    BY DEF Beginning
  <2> QED BY <2>1, ExpBegins, AheadGoesOn
<1>2. x \in PathElt /\ x.elt \in Leaving /\ Top(K).frame \in Leave
  BY DEF Punct, PathElt, Leave, Leaving
<1>3. FrameWays(Top(K), i, s) = {Way(<<x>>, i)}
  BY <1>2 DEF FrameWays
<1> HIDE DEF x
<1>4. Starts({Way(<<x>>, i)}, {x})
  <2>1. Way(<<x>>, i).path = Join(<<x>>, <<>>) /\ <<>> \in Paths
    <3>1. <<x>> \in Paths
      BY <1>2 DEF Paths
    <3> QED BY <3>1, PathEmpty DEF Way
  <2> QED BY <2>1 DEF Starts
<1>5. Ahead({Way(<<x>>, i)}, Pop(K), h, r, s)
  BY <1>3, ContFrame
<1>6. GoesOn(r, h, {x})
  BY <1>2, <1>4, <1>5, AheadGoesOn
<1>7. \A y \in Beginning, z \in {x} : Prior(y, z)
  BY <1>2 DEF Beginning, Prior
<1> QED BY <1>1, <1>2, <1>6, <1>7, GoingOn DEF Beginning

\* A case is preferred to those after it.
LEMMA CasePreferred ==
  ASSUME NEW s \in Input, NEW e \in Exp, NEW i \in 0 .. Len(s), NEW K, NEW h \in Paths,
         NEW n \in 1 .. Len(e.args),
         NEW p, Ahead(CaseWays(e, n, i, s), K, h, p, s),
         NEW r, Ahead(Ways(Call("match_case", e, n + 1), i, s), K, h, r, s)
  PROVE  Preferred(p, r)
<1> DEFINE S(m) == {EnterAlt(k) : k \in m .. Len(e.args)}
<1>1. Len(e.args) \in Nat /\ n \in Nat /\ n + 1 \in 1 .. Len(e.args) + 1
  BY ExpAssumption
<1>2. ASSUME NEW k \in 1 .. Len(e.args)
      PROVE  Starts(CaseWays(e, k, i, s), {EnterAlt(k)})
  <2> SUFFICES ASSUME NEW v \in CaseWays(e, k, i, s)
               PROVE  \E c \in Paths : v.path = Join(<<EnterAlt(k)>>, c)
    BY DEF Starts
  <2>1. PICK w \in Ways(Call("match_exp", e.args[k], 0), i, s) : v = Way(Join(<<EnterAlt(k)>>, w.path), w.end)
    BY DEF CaseWays
  <2>2. e.args[k] \in Exp
    BY ExpAssumption
  <2>3. w \in WayType(s)
    BY <2>2, Calls, WaysFacts
  <2> QED BY <2>1, <2>3 DEF Way, WayType
<1>3. \A k \in 1 .. Len(e.args) : EnterAlt(k) \in PathElt
  BY <1>1 DEF EnterAlt, PathElt, Enter
<1>4. GoesOn(p, h, {EnterAlt(n)})
  BY <1>2, <1>3, AheadGoesOn
<1>5. GoesOn(r, h, S(n + 1))
  <2>1. ASSUME NEW v \in Ways(Call("match_case", e, n + 1), i, s)
        PROVE  \E x \in S(n + 1) : \E c \in Paths : v.path = Join(<<x>>, c)
    <3>1. PICK k \in n + 1 .. Len(e.args) : v \in CaseWays(e, k, i, s)
      BY <1>1, CasesAre
    <3>2. k \in 1 .. Len(e.args)
      BY <1>1
    <3>3. \E c \in Paths : v.path = Join(<<EnterAlt(k)>>, c)
      BY <1>2, <3>1, <3>2 DEF Starts
    <3> QED BY <3>3
  <2>2. S(n + 1) \in SUBSET PathElt
    BY <1>1, <1>3
  <2>3. Starts(Ways(Call("match_case", e, n + 1), i, s), S(n + 1))
    BY <2>1 DEF Starts
  <2> HIDE DEF S
  <2> QED BY <2>2, <2>3, AheadGoesOn
<1>6. \A x \in {EnterAlt(n)}, y \in S(n + 1) : Prior(x, y)
  BY <1>1 DEF EnterAlt, Prior
<1>7. {EnterAlt(n)} \in SUBSET PathElt /\ S(n + 1) \in SUBSET PathElt
  BY <1>1, <1>3
<1> HIDE DEF S
<1> QED BY <1>4, <1>5, <1>6, <1>7, GoingOn

-----------------------------------------------------------------------------
(* The paths ahead of a state *)

\* The ways in which the function about to run goes on.
CtlWays(c, i, s) ==
  IF c.fn \in Fns THEN Ways(c, i, s) ELSE IF c.fn = "cont" THEN {Way(<<>>, i)} ELSE {}

\* The full paths that running c may lead to before it returns None.
Tasks(c, i, K, h, s) ==
  {p \in Paths : IF c.fn = "some" THEN p = h ELSE Ahead(CtlWays(c, i, s), K, h, p, s)}

Now == Tasks(call, pos, kont, path, input)

\* The call that resuming c makes, and the paths it may lead to.
Resumed(c) == IF c.alt = "next_case" THEN Call("match_case", c.exp, c.i) ELSE Call("cont", c.exp, 0)
Later(c, s) == Tasks(Resumed(c), c.pos, c.kont, c.path, s)

\* The paths F are those ahead now (N) and those the alternatives C lead to,
\* each preferred to those that are tried after it.
Ordered(N, C, F, s) ==
  /\ \A p : p \in F <=> p \in N \/ \E k \in DOMAIN C : p \in Later(C[k], s)
  /\ \A k \in DOMAIN C : \A p \in N, r \in Later(C[k], s) : Preferred(p, r)
  /\ \A j, k \in DOMAIN C :
        (j < k) => \A p \in Later(C[k], s), r \in Later(C[j], s) : Preferred(p, r)

\* The marks that bound an iteration are where a continuation expects them.
KontShape(K) ==
  \A k \in DOMAIN K :
    /\ FrameOK(K[k])
    /\ K[k].frame = "after_exp" => k > 1 /\ K[k - 1].frame \in Leaving

InLoop(K) == K # <<>> /\ Top(K).frame \in Leaving

Shape ==
  /\ KontShape(kont)
  /\ \A k \in DOMAIN choices : KontShape(choices[k].kont)
  /\ call.fn \in {"match_repeat", "match_repeat1", "match_opt"} => InLoop(kont)
  /\ call.fn \in {"match_exp", "match_repeat", "match_repeat1", "match_opt"} => call.i = 0
  /\ call.fn = "match_seq" => call.i <= Len(call.exp.args) + 1
  /\ call.fn = "none" => choices = <<>>

PathsOrdered == Ordered(Now, choices, FullPaths(root, input), input)

LEMMA OrderedPush ==
  ASSUME NEW C \in Seq(Choice), NEW c \in Choice, NEW N, NEW M, NEW F, NEW s,
         Ordered(N, C, F, s), \A p : p \in N <=> p \in M \/ p \in Later(c, s),
         \A p \in M, r \in Later(c, s) : Preferred(p, r)
  PROVE  Ordered(M, Append(C, c), F, s)
<1> DEFINE D == Append(C, c)
           n == Len(C)
<1>1. /\ n \in Nat /\ DOMAIN C = 1 .. n /\ DOMAIN D = 1 .. n + 1
      /\ D[n + 1] = c /\ \A k \in 1 .. n : D[k] = C[k]
  BY AppendProperties, LenProperties
<1> HIDE DEF D, n
<1>2. \A k \in DOMAIN D : k \in DOMAIN C \/ k = n + 1
  BY <1>1
<1>3. ASSUME NEW p
      PROVE  p \in F <=> p \in M \/ \E k \in DOMAIN D : p \in Later(D[k], s)
  <2>1. p \in F <=> p \in M \/ p \in Later(c, s) \/ \E k \in DOMAIN C : p \in Later(C[k], s)
    BY DEF Ordered
  <2>2. (\E k \in DOMAIN D : p \in Later(D[k], s))
          <=> p \in Later(c, s) \/ \E k \in DOMAIN C : p \in Later(C[k], s)
    BY <1>1, <1>2
  <2> QED BY <2>1, <2>2
<1>4. ASSUME NEW k \in DOMAIN D, NEW p \in M, NEW r \in Later(D[k], s)
      PROVE  Preferred(p, r)
  <2>1. p \in N
    OBVIOUS
  <2> QED BY <1>1, <1>2, <2>1 DEF Ordered
<1>5. ASSUME NEW j \in DOMAIN D, NEW k \in DOMAIN D, j < k,
             NEW p \in Later(D[k], s), NEW r \in Later(D[j], s)
      PROVE  Preferred(p, r)
  <2>1. j \in DOMAIN C /\ D[j] = C[j]
    BY <1>1, <1>5
  <2>2. CASE k \in DOMAIN C
    BY <1>1, <1>5, <2>1, <2>2 DEF Ordered
  <2>3. CASE k = n + 1
    <3>1. p \in N
      BY <1>1, <2>3
    <3> QED BY <2>1, <3>1 DEF Ordered
  <2> QED BY <1>2, <2>2, <2>3
<1>6. Ordered(M, D, F, s)
  BY <1>3, <1>4, <1>5 DEF Ordered
<1> QED BY <1>6 DEF D

LEMMA OrderedPop ==
  ASSUME NEW C \in Seq(Choice), C # <<>>, NEW N, N = {}, NEW F, NEW s, Ordered(N, C, F, s)
  PROVE  Ordered(Later(Top(C), s), Pop(C), F, s)
<1> DEFINE D == Pop(C)
           n == Len(C)
           M == Later(Top(C), s)
<1>1. /\ n \in Nat /\ n >= 1 /\ DOMAIN C = 1 .. n /\ DOMAIN D = 1 .. n - 1
      /\ Top(C) = C[n] /\ \A k \in 1 .. n - 1 : D[k] = C[k]
  <2>1. n \in Nat /\ DOMAIN C = 1 .. n
    BY LenProperties
  <2>2. n >= 1
    BY <2>1, EmptySeq
  <2>3. D \in Seq(Choice) /\ Len(D) = n - 1 /\ Top(C) = C[n] /\ \A k \in DOMAIN D : D[k] = C[k]
    BY PopType
  <2> HIDE DEF D, n, M
  <2>4. DOMAIN D = 1 .. n - 1
    BY <2>3, LenProperties
  <2> QED BY <2>1, <2>2, <2>3, <2>4
<1>2. M = Later(C[n], s)
  BY <1>1
<1> HIDE DEF D, n, M
<1>3. ASSUME NEW p
      PROVE  p \in F <=> p \in M \/ \E k \in DOMAIN D : p \in Later(D[k], s)
  <2>1. p \in F <=> \E k \in DOMAIN C : p \in Later(C[k], s)
    BY DEF Ordered
  <2>2. \A k : k \in DOMAIN C <=> k = n \/ k \in DOMAIN D
    BY <1>1
  <2>3. \A k \in DOMAIN D : D[k] = C[k]
    BY <1>1
  <2> QED BY <1>2, <2>1, <2>2, <2>3
<1>4. ASSUME NEW k \in DOMAIN D, NEW p \in M, NEW r \in Later(D[k], s)
      PROVE  Preferred(p, r)
  <2>1. k \in DOMAIN C /\ n \in DOMAIN C /\ k < n /\ D[k] = C[k]
    BY <1>1
  <2> QED BY <1>2, <2>1 DEF Ordered
<1>5. ASSUME NEW j \in DOMAIN D, NEW k \in DOMAIN D, j < k,
             NEW p \in Later(D[k], s), NEW r \in Later(D[j], s)
      PROVE  Preferred(p, r)
  <2>1. j \in DOMAIN C /\ k \in DOMAIN C /\ D[j] = C[j] /\ D[k] = C[k]
    BY <1>1
  <2> QED BY <1>5, <2>1 DEF Ordered
<1>6. Ordered(M, D, F, s)
  BY <1>3, <1>4, <1>5 DEF Ordered
<1> QED BY <1>6 DEF D, M

LEMMA KontShapePush ==
  ASSUME NEW K \in Seq(Frame), KontShape(K), NEW f, FrameOK(f), f.frame = "after_exp" => InLoop(K)
  PROVE  KontShape(Append(K, f)) /\ Append(K, f) # <<>> /\ Top(Append(K, f)) = f
<1> DEFINE L == Append(K, f)
           n == Len(K)
<1>1. /\ n \in Nat /\ DOMAIN K = 1 .. n /\ DOMAIN L = 1 .. n + 1 /\ Len(L) = n + 1
      /\ L[n + 1] = f /\ \A k \in 1 .. n : L[k] = K[k]
  BY AppendProperties, LenProperties DEF FrameOK
<1>2. f.frame = "after_exp" => n >= 1 /\ K[n].frame \in Leaving
  BY <1>1, EmptySeq DEF InLoop, Top
<1> HIDE DEF L, n
<1>3. ASSUME NEW k \in DOMAIN L
      PROVE  FrameOK(L[k]) /\ (L[k].frame = "after_exp" => k > 1 /\ L[k - 1].frame \in Leaving)
  <2>1. CASE k \in 1 .. n
    <3>1. k \in DOMAIN K /\ L[k] = K[k] /\ (k > 1 => L[k - 1] = K[k - 1])
      BY <1>1, <2>1
    <3> QED BY <3>1 DEF KontShape
  <2>2. CASE k = n + 1
    <3>1. L[k] = f /\ (n >= 1 => L[k - 1] = K[n]) /\ (n >= 1 => k > 1)
      BY <1>1, <2>2
    <3> QED BY <1>2, <3>1
  <2> QED BY <1>1, <2>1, <2>2
<1>4. L # <<>> /\ Top(L) = f
  BY <1>1 DEF Top
<1> QED BY <1>3, <1>4 DEF KontShape, L

LEMMA KontShapePop ==
  ASSUME NEW K \in Seq(Frame), K # <<>>, KontShape(K)
  PROVE  /\ KontShape(Pop(K)) /\ FrameOK(Top(K))
         /\ Top(K).frame = "after_exp" => InLoop(Pop(K))
<1> DEFINE L == Pop(K)
           n == Len(K)
<1>1. /\ n \in Nat /\ n >= 1 /\ DOMAIN K = 1 .. n /\ DOMAIN L = 1 .. n - 1 /\ Len(L) = n - 1
      /\ Top(K) = K[n] /\ \A k \in 1 .. n - 1 : L[k] = K[k]
  BY PopType, LenProperties
<1> HIDE DEF L, n
<1>2. ASSUME NEW k \in DOMAIN L
      PROVE  FrameOK(L[k]) /\ (L[k].frame = "after_exp" => k > 1 /\ L[k - 1].frame \in Leaving)
  <2>1. k \in DOMAIN K /\ L[k] = K[k] /\ (k > 1 => L[k - 1] = K[k - 1])
    BY <1>1
  <2> QED BY <2>1 DEF KontShape
<1>3. ASSUME Top(K).frame = "after_exp" PROVE InLoop(L)
  <2>1. n > 1 /\ K[n - 1].frame \in Leaving
    BY <1>1, <1>3 DEF KontShape
  <2>2. L # <<>> /\ Top(L) = K[n - 1]
    BY <1>1, <2>1 DEF Top
  <2> QED BY <2>1, <2>2 DEF InLoop
<1> QED BY <1>1, <1>2, <1>3 DEF KontShape, L

\* What is known of a state.
LEMMA StateFacts ==
  ASSUME TypeOK, IndexesInBounds, Shape
  PROVE  /\ input \in Input /\ root \in Exp /\ call.exp \in Exp /\ pos \in 0 .. Len(input)
         /\ path \in Paths /\ kont \in Seq(Frame) /\ choices \in Seq(Choice)
         /\ call.fn \in Fns \cup Control
         /\ call = Call(call.fn, call.exp, call.i)
         /\ call.fn \in {"match_exp", "match_repeat", "match_repeat1", "match_opt"} =>
              call = Call(call.fn, call.exp, 0)
         /\ call.fn = "match_case" => call.i \in 1 .. Len(call.exp.args)
         /\ call.fn = "match_seq" => call.i \in 1 .. Len(call.exp.args) + 1
         /\ Len(call.exp.args) \in Nat /\ pos \in Nat
<1>1. call = Call(call.fn, call.exp, call.i) /\ call.fn \in Fns \cup Control
      /\ call.exp \in Exp /\ call.i \in Nat
  BY DEF TypeOK, Call
<1>2. call.exp.args \in Seq(Exp) /\ Len(call.exp.args) \in Nat
      /\ DOMAIN call.exp.args = 1 .. Len(call.exp.args)
  BY <1>1, ExpAssumption, LenProperties
<1>3. root \in Exp /\ input \in Input /\ pos \in 0 .. Len(input) /\ Len(input) \in Nat
  BY ExpAssumption, LenProperties DEF TypeOK
<1> QED BY <1>1, <1>2, <1>3 DEF TypeOK, IndexesInBounds, Shape, Paths

LEMMA PushIs ==
  ASSUME NEW K, NEW e, NEW n, NEW leave
  PROVE  /\ Push(K, leave, e, 0) = Append(K, LeaveFrame(leave, e))
         /\ Push(K, "after_exp", e, n) = Append(K, Again(e, n))
         /\ Push(K, "match_seq", e, n) = Append(K, Following(e, n))
BY DEF Push, LeaveFrame, Again, Following

LEMMA LeaveOK ==
  ASSUME NEW leave \in Leave, NEW e \in Exp
  PROVE  FrameOK(LeaveFrame(leave, e)) /\ LeaveFrame(leave, e).frame = leave
BY DEF FrameOK, LeaveFrame, Frame, Leave

\* Or remembers the state it is made in.
LEMMA OrIs ==
  ASSUME NEW alt, NEW e, NEW i
  PROVE  LET c == Or(alt, e, i)
         IN  /\ c.alt = alt /\ c.exp = e /\ c.i = i
             /\ c.path = path /\ c.pos = pos /\ c.kont = kont
BY DEF Or

\* The marks stay where continuations expect them, whatever is backtracked.
LEMMA StepShaped ==
  ASSUME TypeOK, IndexesInBounds, Shape, [Next]_vars
  PROVE  Shape'
<1> DEFINE Open(C) == \A k \in DOMAIN C : KontShape(C[k].kont)
           CallShape(c, K) ==
             /\ c.fn \in {"match_repeat", "match_repeat1", "match_opt"} => InLoop(K)
             /\ c.fn \in {"match_exp", "match_repeat", "match_repeat1", "match_opt"} => c.i = 0
             /\ c.fn = "match_seq" => c.i <= Len(c.exp.args) + 1
<1>1. /\ KontShape(kont) /\ Open(choices) /\ CallShape(call, kont)
      /\ call.fn = "none" => choices = <<>>
  BY DEF Shape
<1>2. ASSUME KontShape(kont'), Open(choices'), CallShape(call', kont'), call'.fn # "none"
      PROVE  Shape'
  BY <1>2 DEF Shape
<1>3. ASSUME NEW e, NEW K, NEW f \in {"match_exp", "match_case", "cont", "fail", "some"}, NEW n,
             f = "match_exp" => n = 0
      PROVE  CallShape(Call(f, e, n), K) /\ Call(f, e, n).fn # "none"
  BY <1>3 DEF Call
<1>4. ASSUME NEW K, NEW f \in {"cont", "fail", "some"}
      PROVE  CallShape(Go(f), K) /\ Go(f).fn # "none"
  BY DEF Go, Call
<1>5. ASSUME NEW c \in Choice, c.kont = kont
      PROVE  Open(Append(choices, c))
  <2>1. choices \in Seq(Choice)
    BY StateFacts
  <2> QED BY <1>1, <1>5, <2>1, AppendType
<1>6. ASSUME NEW alt \in {"after_repeat", "after_opt", "next_case"}, NEW e \in Exp, NEW i \in Nat
      PROVE  Or(alt, e, i) \in Choice /\ Or(alt, e, i).kont = kont
  BY StateFacts DEF Or, Choice, TypeOK
<1>7. ASSUME kont # <<>>
      PROVE  /\ KontShape(Pop(kont)) /\ FrameOK(Top(kont))
             /\ Top(kont).frame = "after_exp" => InLoop(Pop(kont))
  BY <1>1, <1>7, StateFacts, KontShapePop
<1>8. ASSUME NEW f, FrameOK(f), f.frame = "after_exp" => InLoop(kont)
      PROVE  KontShape(Append(kont, f)) /\ Append(kont, f) # <<>> /\ Top(Append(kont, f)) = f
  BY <1>1, <1>8, StateFacts, KontShapePush
<1>9. pos \in Nat /\ call.exp \in Exp /\ Len(call.exp.args) \in Nat
  BY StateFacts
<1> HIDE DEF Open
<1>10. CASE MatchToken \/ MismatchToken \/ MatchNothing
  <2>1. KontShape(kont') /\ Open(choices')
    BY <1>1, <1>10 DEF MatchToken, MismatchToken, MatchNothing
  <2>2. call' = Go("cont") \/ call' = Go("fail")
    BY <1>10 DEF MatchToken, MismatchToken, MatchNothing
  <2> QED BY <1>2, <1>4, <2>1, <2>2
<1>11. ASSUME NEW op, NEW enter, NEW leave \in Leaving, NEW f \in {"match_repeat", "match_repeat1", "match_opt"},
              EnterQuantifier(op, enter, leave, f)
       PROVE  Shape'
  <2> DEFINE g == LeaveFrame(leave, call.exp)
  <2>1. leave \in Leave /\ FrameOK(g) /\ g.frame = leave /\ leave # "after_exp"
    BY <1>9, LeaveOK DEF Leaving, Leave
  <2>2. kont' = Append(kont, g) /\ choices' = choices /\ call' = Call(f, call.exp.args[1], 0)
    BY <1>11, PushIs DEF EnterQuantifier
  <2> HIDE DEF g
  <2>3. KontShape(kont') /\ InLoop(kont')
    BY <1>8, <2>1, <2>2 DEF InLoop
  <2>4. CallShape(call', kont') /\ call'.fn # "none"
    BY <2>2, <2>3 DEF Call
  <2> QED BY <1>1, <1>2, <2>2, <2>3, <2>4
<1>12. CASE EnterRepeat \/ EnterRepeat1 \/ EnterOpt
  <2>1. /\ "Leave_repeat" \in Leaving /\ "Leave_repeat1" \in Leaving /\ "Leave_opt" \in Leaving
    BY DEF Leaving
  <2> QED BY <1>11, <1>12, <2>1 DEF EnterRepeat, EnterRepeat1, EnterOpt
<1>13. CASE EnterSeq
  <2>1. call' = Call("match_seq", call.exp, 1) /\ kont' = kont /\ choices' = choices
    BY <1>13 DEF EnterSeq
  <2>2. CallShape(call', kont') /\ call'.fn # "none"
    BY <1>9, <2>1 DEF Call
  <2> QED BY <1>1, <1>2, <2>1, <2>2
<1>14. CASE MatchCases
  <2>1. CASE call.exp.args = <<>>
    BY <1>1, <1>2, <1>4, <1>14, <2>1 DEF MatchCases
  <2>2. CASE call.exp.args # <<>>
    <3> DEFINE g == LeaveFrame("Leave_alt", call.exp)
    <3>1. FrameOK(g) /\ g.frame # "after_exp"
      BY <1>9, LeaveOK DEF Leave
    <3>2. kont' = Append(kont, g) /\ choices' = choices /\ call' = Call("match_case", call.exp, 1)
      BY <1>14, <2>2, PushIs DEF MatchCases
    <3> HIDE DEF g
    <3>3. KontShape(kont')
      BY <1>8, <3>1, <3>2
    <3> QED BY <1>1, <1>2, <1>3, <3>2, <3>3
  <2> QED BY <2>1, <2>2
<1>15. ASSUME kont' = Append(kont, Again(call.exp, pos)), call' = Call("match_exp", call.exp, 0),
              Open(choices'), InLoop(kont)
       PROVE  Shape'
  <2>1. FrameOK(Again(call.exp, pos))
    BY <1>9, AgainOK
  <2>2. KontShape(kont')
    BY <1>8, <1>15, <2>1
  <2> QED BY <1>2, <1>3, <1>15, <2>2
<1>16. CASE MatchRepeat
  <2>1. /\ kont' = Append(kont, Again(call.exp, pos)) /\ call' = Call("match_exp", call.exp, 0)
        /\ choices' = Append(choices, Or("after_repeat", call.exp, 0)) /\ call.fn = "match_repeat"
    BY <1>16 DEF MatchRepeat, Calling, Push, Again
  <2>2. Open(choices')
    BY <1>5, <1>6, <1>9, <2>1
  <2> QED BY <1>1, <1>15, <2>1, <2>2
<1>17. CASE MatchRepeat1
  <2>1. /\ kont' = Append(kont, Again(call.exp, pos)) /\ call' = Call("match_exp", call.exp, 0)
        /\ choices' = choices /\ call.fn = "match_repeat1"
    BY <1>17 DEF MatchRepeat1, Calling, Push, Again
  <2> QED BY <1>1, <1>15, <2>1
<1>18. CASE MatchOpt
  <2>1. /\ kont' = kont /\ call' = Call("match_exp", call.exp, 0)
        /\ choices' = Append(choices, Or("after_opt", call.exp, 0))
    BY <1>18 DEF MatchOpt
  <2>2. Open(choices')
    BY <1>5, <1>6, <1>9, <2>1
  <2> QED BY <1>1, <1>2, <1>3, <2>1, <2>2
<1>19. CASE MatchCase
  <2>1. /\ kont' = kont /\ call' = Call("match_exp", call.exp.args[call.i], 0)
        /\ choices' = Append(choices, Or("next_case", call.exp, call.i + 1)) \/ choices' = choices
    BY <1>19 DEF MatchCase
  <2>2. call.i + 1 \in Nat
    BY DEF TypeOK
  <2>3. Open(choices')
    BY <1>1, <1>5, <1>6, <1>9, <2>1, <2>2
  <2> QED BY <1>1, <1>2, <1>3, <2>1, <2>3
<1>20. CASE MatchSeq
  <2>1. CASE call.i > Len(call.exp.args)
    BY <1>1, <1>2, <1>4, <1>20, <2>1 DEF MatchSeq
  <2>2. CASE ~(call.i > Len(call.exp.args))
    <3> DEFINE g == Following(call.exp, call.i + 1)
    <3>1. call.i + 1 \in 1 .. Len(call.exp.args) + 1
      BY <1>9, <1>20, <2>2, StateFacts DEF MatchSeq, Calling
    <3>2. FrameOK(g) /\ g.frame # "after_exp"
      BY <1>9, <3>1, FollowingOK DEF Following
    <3>3. /\ kont' = Append(kont, g) /\ choices' = choices
          /\ call' = Call("match_exp", call.exp.args[call.i], 0)
      BY <1>20, <2>2, PushIs DEF MatchSeq
    <3> HIDE DEF g
    <3>4. KontShape(kont')
      BY <1>8, <3>2, <3>3
    <3> QED BY <1>1, <1>2, <1>3, <3>3, <3>4
  <2> QED BY <2>1, <2>2
<1>21. CASE ContLeave
  <2>1. kont # <<>> /\ kont' = Pop(kont) /\ call' = call /\ choices' = choices /\ call.fn = "cont"
    BY <1>21 DEF ContLeave, Calling
  <2>2. CallShape(call', kont') /\ call'.fn # "none"
    BY <2>1
  <2> QED BY <1>1, <1>2, <1>7, <2>1, <2>2
<1>22. CASE ContAfterExp
  <2>1. /\ kont # <<>> /\ kont' = Pop(kont) /\ choices' = choices /\ Top(kont).frame = "after_exp"
        /\ call' = Go("cont") \/ call' = Call("match_repeat", Top(kont).exp, 0)
    BY <1>22 DEF ContAfterExp
  <2>2. KontShape(kont') /\ InLoop(kont')
    BY <1>7, <2>1
  <2>3. CallShape(call', kont') /\ call'.fn # "none"
    BY <1>4, <2>1, <2>2 DEF Call
  <2> QED BY <1>1, <1>2, <2>1, <2>2, <2>3
<1>23. CASE ContSeq
  <2>1. /\ kont # <<>> /\ kont' = Pop(kont) /\ choices' = choices /\ Top(kont).frame = "match_seq"
        /\ call' = Call("match_seq", Top(kont).exp, Top(kont).n)
    BY <1>23 DEF ContSeq
  <2>2. Top(kont).n \in 1 .. Len(Top(kont).exp.args) + 1 /\ Top(kont).exp \in Exp
    BY <1>7, <2>1 DEF FrameOK, Frame
  <2>3. CallShape(call', kont') /\ call'.fn # "none"
    <3>1. Len(Top(kont).exp.args) \in Nat
      BY <2>2, ExpAssumption
    <3> QED BY <2>1, <2>2, <3>1 DEF Call
  <2> QED BY <1>1, <1>2, <1>7, <2>1, <2>3
<1>24. CASE MatchEnd
  <2>1. kont' = kont /\ choices' = choices /\ (call' = Go("some") \/ call' = Go("fail"))
    BY <1>24 DEF MatchEnd
  <2> QED BY <1>1, <1>2, <1>4, <2>1
<1>25. CASE Backtrack
  <2>1. /\ choices # <<>> /\ choices' = Pop(choices) /\ kont' = Top(choices).kont
        /\ call' = Call("match_case", Top(choices).exp, Top(choices).i) \/ call' = Go("cont")
    BY <1>25 DEF Backtrack, Resume
  <2>2. /\ Len(choices) \in DOMAIN choices /\ Top(choices) = choices[Len(choices)]
        /\ \A k \in DOMAIN Pop(choices) : k \in DOMAIN choices /\ Pop(choices)[k] = choices[k]
    BY <2>1, StateFacts, PopType
  <2>3. KontShape(kont') /\ Open(choices')
    BY <1>1, <2>1, <2>2 DEF Open
  <2>4. CallShape(call', kont') /\ call'.fn # "none"
    <3>1. CASE call' = Call("match_case", Top(choices).exp, Top(choices).i)
      BY <1>3, <3>1
    <3>2. CASE call' = Go("cont")
      BY <1>4, <3>2
    <3> QED BY <2>1, <3>1, <3>2
  <2> QED BY <1>2, <2>3, <2>4
<1>26. CASE NoMatch
  BY <1>1, <1>26 DEF NoMatch, Shape, Go, Call, Open
<1>27. CASE UNCHANGED vars
  BY <1>27 DEF vars, Shape
<1> QED BY <1>10, <1>12, <1>13, <1>14, <1>16, <1>17, <1>18, <1>19, <1>20, <1>21, <1>22,
           <1>23, <1>24, <1>25, <1>26, <1>27 DEF Next

LEMMA TasksAre ==
  ASSUME NEW c, NEW i, NEW K, NEW h, NEW s, NEW p
  PROVE  /\ p \in Tasks(c, i, K, h, s) => p \in Paths
         /\ p \in Paths =>
              /\ c.fn \in Fns => (p \in Tasks(c, i, K, h, s) <=> Ahead(Ways(c, i, s), K, h, p, s))
              /\ c.fn = "cont" => (p \in Tasks(c, i, K, h, s) <=> Ahead({Way(<<>>, i)}, K, h, p, s))
              /\ c.fn = "some" => (p \in Tasks(c, i, K, h, s) <=> p = h)
              /\ c.fn \in {"fail", "none"} => p \notin Tasks(c, i, K, h, s)
<1>1. ~Ahead({}, K, h, p, s)
  BY DEF Ahead
<1> QED BY <1>1 DEF Tasks, CtlWays, Fns

\* What the functions that open no alternative do to the paths ahead.
LEMMA NowIs ==
  ASSUME NEW p
  PROVE  /\ p \in Now => p \in Paths
         /\ p \in Paths =>
              /\ call.fn \in Fns => (p \in Now <=> Ahead(Ways(call, pos, input), kont, path, p, input))
              /\ call.fn = "cont" => (p \in Now <=> Ahead({Way(<<>>, pos)}, kont, path, p, input))
              /\ call.fn = "some" => (p \in Now <=> p = path)
              /\ call.fn \in {"fail", "none"} => p \notin Now
BY TasksAre DEF Now

LEMMA NextIs ==
  ASSUME NEW p
  PROVE  /\ p \in Now' => p \in Paths
         /\ p \in Paths =>
              /\ call'.fn \in Fns => (p \in Now' <=> Ahead(Ways(call', pos', input'), kont', path', p, input'))
              /\ call'.fn = "cont" => (p \in Now' <=> Ahead({Way(<<>>, pos')}, kont', path', p, input'))
              /\ call'.fn = "some" => (p \in Now' <=> p = path')
              /\ call'.fn \in {"fail", "none"} => p \notin Now'
BY TasksAre DEF Now

LEMMA NowToken ==
  ASSUME TypeOK, IndexesInBounds, Shape, MatchToken \/ MismatchToken
  PROVE  Now' = Now
<1> DEFINE e == call.exp
           c == Call("match_exp", e, 0)
<1>1. /\ input \in Input /\ e \in Exp /\ pos \in 0 .. Len(input) /\ path \in Paths /\ kont \in Seq(Frame)
      /\ call = c /\ call.fn = "match_exp" /\ e.op = "Token" /\ Len(input) \in Nat
  BY StateFacts, ExpAssumption DEF MatchToken, MismatchToken, Matching, Calling
<1>2. "match_exp" \in Fns
  BY DEF Fns
<1> HIDE DEF e
<1>3. ASSUME NEW p \in Paths
      PROVE  p \in Now <=> Ahead(Ways(c, pos, input), kont, path, p, input)
  BY <1>1, <1>2, NowIs
<1>4. CASE MatchToken
  <2>1. /\ pos < Len(input) /\ input[pos + 1] = e.kind /\ call'.fn = "cont" /\ pos' = pos + 1
        /\ path' = Append(path, Token(pos + 1)) /\ kont' = kont /\ input' = input
    BY <1>4 DEF MatchToken, Go, Call, e
  <2>2. ASSUME NEW p \in Paths
        PROVE  p \in Now' <=> Ahead({Way(<<>>, pos + 1)}, kont, Append(path, Token(pos + 1)), p, input)
    BY <2>1, NextIs
  <2>3. ASSUME NEW p \in Paths PROVE p \in Now' <=> p \in Now
    BY <1>1, <1>3, <2>1, <2>2, StepToken
  <2> QED BY <2>3, NowIs, NextIs
<1>5. CASE MismatchToken
  <2>1. ~(pos < Len(input) /\ input[pos + 1] = e.kind) /\ call'.fn = "fail"
    BY <1>1, <1>5 DEF MismatchToken, Go, Call, e
  <2>2. ASSUME NEW p \in Paths PROVE p \notin Now' /\ p \notin Now
    BY <1>1, <1>3, <2>1, NextIs, StepToken
  <2> QED BY <2>2, NowIs, NextIs
<1> QED BY <1>4, <1>5

LEMMA NowNothing ==
  ASSUME TypeOK, IndexesInBounds, Shape, MatchNothing
  PROVE  Now' = Now
<1> DEFINE c == Call("match_exp", call.exp, 0)
<1>1. /\ input \in Input /\ call.exp \in Exp /\ pos \in 0 .. Len(input) /\ path \in Paths
      /\ call = c /\ call.fn = "match_exp" /\ call.exp.op = "Nothing" /\ call.fn \in Fns
  BY StateFacts DEF MatchNothing, Matching, Calling, Fns
<1>2. /\ call'.fn = "cont" /\ pos' = pos /\ path' = Append(path, Punct("Nothing"))
      /\ kont' = kont /\ input' = input
  BY DEF MatchNothing, Go, Call
<1>3. ASSUME NEW p \in Paths PROVE p \in Now' <=> p \in Now
  <2>1. p \in Now <=> Ahead(Ways(c, pos, input), kont, path, p, input)
    BY <1>1, NowIs
  <2>2. p \in Now' <=> Ahead({Way(<<>>, pos)}, kont, Append(path, Punct("Nothing")), p, input)
    BY <1>2, NextIs
  <2> QED BY <1>1, <2>1, <2>2, StepNothing
<1> QED BY <1>3, NowIs, NextIs

LEMMA NowQuantifier ==
  ASSUME TypeOK, IndexesInBounds, Shape, EnterRepeat \/ EnterRepeat1 \/ EnterOpt
  PROVE  Now' = Now
<1> DEFINE c == Call("match_exp", call.exp, 0)
<1>1. PICK d \in Quantifier : EnterQuantifier(d.op, d.enter, d.leave, d.f)
  BY DEF EnterRepeat, EnterRepeat1, EnterOpt, Quantifier
<1>2. /\ input \in Input /\ call.exp \in Exp /\ pos \in 0 .. Len(input) /\ path \in Paths
      /\ kont \in Seq(Frame) /\ call = c /\ call.fn = "match_exp" /\ call.exp.op = d.op /\ call.fn \in Fns
  BY <1>1, StateFacts DEF EnterQuantifier, Matching, Calling, Fns
<1> DEFINE a == Call(d.f, call.exp.args[1], 0)
           K == Append(kont, LeaveFrame(d.leave, call.exp))
           h == Append(path, Punct(d.enter))
<1>3. call' = a /\ pos' = pos /\ path' = h /\ kont' = K /\ input' = input
  BY <1>1, PushIs DEF EnterQuantifier
<1>4. call'.fn \in Fns
  BY <1>3 DEF Quantifier, Fns, Call
<1>5. ASSUME NEW p \in Paths PROVE p \in Now' <=> p \in Now
  <2>1. p \in Now <=> Ahead(Ways(c, pos, input), kont, path, p, input)
    BY <1>2, NowIs
  <2>2. p \in Now' <=> Ahead(Ways(a, pos, input), K, h, p, input)
    <3> HIDE DEF a, K, h
    <3> QED BY <1>3, <1>4, NextIs
  <2> QED BY <1>2, <2>1, <2>2, StepQuantifier
<1> QED BY <1>5, NowIs, NextIs

LEMMA NowSeq ==
  ASSUME TypeOK, IndexesInBounds, Shape, EnterSeq
  PROVE  Now' = Now
<1> DEFINE c == Call("match_exp", call.exp, 0)
           a == Call("match_seq", call.exp, 1)
           h == Append(path, Punct("Enter_seq"))
<1>1. /\ input \in Input /\ call.exp \in Exp /\ pos \in 0 .. Len(input) /\ path \in Paths
      /\ kont \in Seq(Frame) /\ call = c /\ call.fn = "match_exp" /\ call.exp.op = "Seq" /\ call.fn \in Fns
  BY StateFacts DEF EnterSeq, Matching, Calling, Fns
<1>2. call' = a /\ pos' = pos /\ path' = h /\ kont' = kont /\ input' = input /\ call'.fn \in Fns
  BY DEF EnterSeq, Call, Fns
<1>3. ASSUME NEW p \in Paths PROVE p \in Now' <=> p \in Now
  <2>1. p \in Now <=> Ahead(Ways(c, pos, input), kont, path, p, input)
    BY <1>1, NowIs
  <2>2. p \in Now' <=> Ahead(Ways(a, pos, input), kont, h, p, input)
    <3> HIDE DEF a, h
    <3> QED BY <1>2, NextIs
  <2> QED BY <1>1, <2>1, <2>2, StepSeq
<1> QED BY <1>3, NowIs, NextIs

LEMMA NowCases ==
  ASSUME TypeOK, IndexesInBounds, Shape, MatchCases
  PROVE  Now' = Now
<1> DEFINE c == Call("match_exp", call.exp, 0)
           a == Call("match_case", call.exp, 1)
           K == Append(kont, LeaveFrame("Leave_alt", call.exp))
<1>1. /\ input \in Input /\ call.exp \in Exp /\ pos \in 0 .. Len(input) /\ path \in Paths
      /\ kont \in Seq(Frame) /\ call = c /\ call.fn = "match_exp" /\ call.exp.op = "Alt" /\ call.fn \in Fns
  BY StateFacts DEF MatchCases, Matching, Calling, Fns
<1>2. ASSUME NEW p \in Paths
      PROVE  p \in Now <=> Ahead(Ways(a, pos, input), K, path, p, input)
  <2>1. p \in Now <=> Ahead(Ways(c, pos, input), kont, path, p, input)
    BY <1>1, NowIs
  <2> QED BY <1>1, <2>1, StepAlt
<1>3. CASE call.exp.args = <<>>
  <2>1. call'.fn = "fail"
    BY <1>3 DEF MatchCases, Go, Call
  <2>2. ASSUME NEW p \in Paths PROVE p \notin Now /\ p \notin Now'
    <3>1. 1 \in 1 .. Len(call.exp.args) + 1 /\ 1 = Len(call.exp.args) + 1
      BY <1>3
    <3>2. ~Ahead(Ways(a, pos, input), K, path, p, input)
      BY <1>1, <3>1, NoCase
    <3> QED BY <1>2, <2>1, <3>2, NextIs
  <2> QED BY <2>2, NowIs, NextIs
<1>4. CASE call.exp.args # <<>>
  <2>1. call' = a /\ pos' = pos /\ path' = path /\ kont' = K /\ input' = input /\ call'.fn \in Fns
    BY <1>4 DEF MatchCases, Call, Fns, Push, LeaveFrame
  <2>2. ASSUME NEW p \in Paths PROVE p \in Now' <=> p \in Now
    <3>1. p \in Now' <=> Ahead(Ways(a, pos, input), K, path, p, input)
      <4> HIDE DEF a, K
      <4> QED BY <2>1, NextIs
    <3> QED BY <1>2, <3>1
  <2> QED BY <2>2, NowIs, NextIs
<1> QED BY <1>3, <1>4

LEMMA NowMatchSeq ==
  ASSUME TypeOK, IndexesInBounds, Shape, MatchSeq
  PROVE  Now' = Now
<1> DEFINE c == Call("match_seq", call.exp, call.i)
<1>1. /\ input \in Input /\ call.exp \in Exp /\ pos \in 0 .. Len(input) /\ path \in Paths
      /\ kont \in Seq(Frame) /\ call = c /\ call.i \in 1 .. Len(call.exp.args) + 1 /\ call.fn \in Fns
      /\ Len(call.exp.args) \in Nat
  BY StateFacts DEF MatchSeq, Calling, Fns
<1>2. ASSUME NEW p \in Paths
      PROVE  p \in Now <=> Ahead(Ways(c, pos, input), kont, path, p, input)
  BY <1>1, NowIs
<1>3. CASE call.i > Len(call.exp.args)
  <2>1. call.i = Len(call.exp.args) + 1
    BY <1>1, <1>3
  <2>2. /\ call'.fn = "cont" /\ pos' = pos /\ path' = Append(path, Punct("Leave_seq"))
        /\ kont' = kont /\ input' = input
    BY <1>3 DEF MatchSeq, Go, Call
  <2>3. ASSUME NEW p \in Paths PROVE p \in Now' <=> p \in Now
    <3>1. p \in Now' <=> Ahead({Way(<<>>, pos)}, kont, Append(path, Punct("Leave_seq")), p, input)
      BY <2>2, NextIs
    <3>2. p \in Now <=> Ahead(Ways(Call("match_seq", call.exp, Len(call.exp.args) + 1), pos, input), kont, path, p, input)
      BY <1>2, <2>1
    <3> QED BY <1>1, <3>1, <3>2, StepSeqEnd
  <2> QED BY <2>3, NowIs, NextIs
<1>4. CASE ~(call.i > Len(call.exp.args))
  <2> DEFINE a == Call("match_exp", call.exp.args[call.i], 0)
             K == Append(kont, Following(call.exp, call.i + 1))
  <2>1. call.i \in 1 .. Len(call.exp.args)
    BY <1>1, <1>4
  <2>2. call' = a /\ pos' = pos /\ path' = path /\ kont' = K /\ input' = input /\ call'.fn \in Fns
    BY <1>4 DEF MatchSeq, Call, Fns, Push, Following
  <2>3. ASSUME NEW p \in Paths PROVE p \in Now' <=> p \in Now
    <3>1. p \in Now' <=> Ahead(Ways(a, pos, input), K, path, p, input)
      <4> HIDE DEF a, K
      <4> QED BY <2>2, NextIs
    <3> QED BY <1>1, <1>2, <2>1, <3>1, StepMatchSeq
  <2> QED BY <2>3, NowIs, NextIs
<1> QED BY <1>3, <1>4

LEMMA NowRepeat1 ==
  ASSUME TypeOK, IndexesInBounds, Shape, MatchRepeat1
  PROVE  Now' = Now
<1> DEFINE c == Call("match_repeat1", call.exp, 0)
           a == Call("match_exp", call.exp, 0)
           K == Append(kont, Again(call.exp, pos))
<1>1. /\ input \in Input /\ call.exp \in Exp /\ pos \in 0 .. Len(input) /\ path \in Paths
      /\ kont \in Seq(Frame) /\ call = c /\ call.fn \in Fns
  BY StateFacts DEF MatchRepeat1, Calling, Fns
<1>2. call' = a /\ pos' = pos /\ path' = path /\ kont' = K /\ input' = input /\ call'.fn \in Fns
  BY DEF MatchRepeat1, Call, Fns, Push, Again
<1>3. ASSUME NEW p \in Paths PROVE p \in Now' <=> p \in Now
  <2>1. p \in Now <=> Ahead(Ways(c, pos, input), kont, path, p, input)
    BY <1>1, NowIs
  <2>2. p \in Now' <=> Ahead(Ways(a, pos, input), K, path, p, input)
    <3> HIDE DEF a, K
    <3> QED BY <1>2, NextIs
  <2> QED BY <1>1, <2>1, <2>2, StepRepeat1
<1> QED BY <1>3, NowIs, NextIs

\* The continuation is applied to a frame whose ways are given.
LEMMA NowFrame ==
  ASSUME TypeOK, IndexesInBounds, Shape, call.fn = "cont", kont # <<>>
  PROVE  /\ Top(kont) \in Frame /\ FrameOK(Top(kont))
         /\ \A p \in Paths :
              p \in Now <=> Ahead(FrameWays(Top(kont), pos, input), Pop(kont), path, p, input)
<1>1. /\ input \in Input /\ pos \in 0 .. Len(input) /\ path \in Paths /\ kont \in Seq(Frame)
      /\ KontShape(kont)
  BY StateFacts DEF Shape
<1>2. FrameOK(Top(kont))
  BY <1>1, KontShapePop
<1>3. ASSUME NEW p \in Paths
      PROVE  p \in Now <=> Ahead(FrameWays(Top(kont), pos, input), Pop(kont), path, p, input)
  <2>1. p \in Now <=> Ahead({Way(<<>>, pos)}, kont, path, p, input)
    BY NowIs
  <2> QED BY <1>1, <1>2, <2>1, ContFrame
<1> QED BY <1>2, <1>3 DEF FrameOK

LEMMA NowLeave ==
  ASSUME TypeOK, IndexesInBounds, Shape, ContLeave
  PROVE  Now' = Now
<1> DEFINE h == Append(path, Punct(Top(kont).frame))
           K == Pop(kont)
<1>1. /\ input \in Input /\ pos \in 0 .. Len(input) /\ path \in Paths /\ kont \in Seq(Frame)
      /\ call.fn = "cont" /\ kont # <<>> /\ Top(kont).frame \in Leave
  BY StateFacts DEF ContLeave, Calling
<1>2. FrameOK(Top(kont))
  BY <1>1, NowFrame
<1>3. call'.fn = "cont" /\ pos' = pos /\ path' = h /\ kont' = K /\ input' = input
  BY DEF ContLeave, Calling
<1>4. ASSUME NEW p \in Paths PROVE p \in Now' <=> p \in Now
  <2>1. p \in Now <=> Ahead({Way(<<>>, pos)}, kont, path, p, input)
    BY <1>1, NowIs
  <2>2. p \in Now' <=> Ahead({Way(<<>>, pos)}, K, h, p, input)
    <3> HIDE DEF h, K
    <3> QED BY <1>3, NextIs
  <2> QED BY <1>1, <1>2, <2>1, <2>2, StepLeave
<1> QED BY <1>4, NowIs, NextIs

LEMMA NowAfterExp ==
  ASSUME TypeOK, IndexesInBounds, Shape, ContAfterExp
  PROVE  Now' = Now
<1> DEFINE f == Top(kont)
           K == Pop(kont)
           a == Call("match_repeat", f.exp, 0)
<1>1. call.fn = "cont" /\ kont # <<>> /\ f.frame = "after_exp"
  BY DEF ContAfterExp, Calling
<1>2. FrameWays(f, pos, input) = IF pos = f.n THEN {Way(<<>>, pos)} ELSE Ways(a, pos, input)
  BY <1>1 DEF FrameWays, Leave
<1>3. /\ pos' = pos /\ path' = path /\ kont' = K /\ input' = input
      /\ pos = f.n => call'.fn = "cont"
      /\ pos # f.n => call' = a /\ call'.fn \in Fns
  BY DEF ContAfterExp, Go, Call, Fns
<1>4. ASSUME NEW p \in Paths PROVE p \in Now' <=> p \in Now
  <2>1. p \in Now <=> Ahead(FrameWays(f, pos, input), K, path, p, input)
    BY <1>1, NowFrame
  <2> HIDE DEF a, f, K
  <2>2. CASE pos = f.n
    <3>1. p \in Now' <=> Ahead({Way(<<>>, pos)}, K, path, p, input)
      BY <1>3, <2>2, NextIs
    <3> QED BY <1>2, <2>1, <2>2, <3>1
  <2>3. CASE pos # f.n
    <3>1. p \in Now' <=> Ahead(Ways(a, pos, input), K, path, p, input)
      BY <1>3, <2>3, NextIs
    <3> QED BY <1>2, <2>1, <2>3, <3>1
  <2> QED BY <2>2, <2>3
<1> QED BY <1>4, NowIs, NextIs

LEMMA NowContSeq ==
  ASSUME TypeOK, IndexesInBounds, Shape, ContSeq
  PROVE  Now' = Now
<1> DEFINE f == Top(kont)
           K == Pop(kont)
           a == Call("match_seq", f.exp, f.n)
<1>1. call.fn = "cont" /\ kont # <<>> /\ f.frame = "match_seq"
  BY DEF ContSeq, Calling
<1>2. FrameWays(f, pos, input) = Ways(a, pos, input)
  BY <1>1 DEF FrameWays, Leave
<1>3. pos' = pos /\ path' = path /\ kont' = K /\ input' = input /\ call' = a /\ call'.fn \in Fns
  BY DEF ContSeq, Call, Fns
<1>4. ASSUME NEW p \in Paths PROVE p \in Now' <=> p \in Now
  <2>1. p \in Now <=> Ahead(FrameWays(f, pos, input), K, path, p, input)
    BY <1>1, NowFrame
  <2> HIDE DEF a, f, K
  <2>2. p \in Now' <=> Ahead(Ways(a, pos, input), K, path, p, input)
    BY <1>3, NextIs
  <2> QED BY <1>2, <2>1, <2>2
<1> QED BY <1>4, NowIs, NextIs

LEMMA NowEnd ==
  ASSUME TypeOK, IndexesInBounds, Shape, MatchEnd
  PROVE  Now' = Now
<1>1. /\ input \in Input /\ pos \in 0 .. Len(input) /\ path \in Paths /\ call.fn = "cont" /\ kont = <<>>
  BY StateFacts DEF MatchEnd, Calling
<1>2. /\ path' = path
      /\ pos = Len(input) => call'.fn = "some"
      /\ pos # Len(input) => call'.fn = "fail"
  BY DEF MatchEnd, Go, Call
<1>3. ASSUME NEW p \in Paths PROVE p \in Now' <=> p \in Now
  <2>1. p \in Now <=> Ahead({Way(<<>>, pos)}, <<>>, path, p, input)
    BY <1>1, NowIs
  <2>2. p \in Now <=> pos = Len(input) /\ p = path
    BY <1>1, <2>1, StepEnd
  <2>3. CASE pos = Len(input)
    BY <1>2, <2>2, <2>3, NextIs
  <2>4. CASE pos # Len(input)
    BY <1>2, <2>2, <2>4, NextIs
  <2> QED BY <2>3, <2>4
<1> QED BY <1>3, NowIs, NextIs

LEMMA NowNoMatch ==
  ASSUME NoMatch
  PROVE  Now' = Now
<1>1. call.fn = "fail" /\ call'.fn = "none"
  BY DEF NoMatch, Calling, Go, Call
<1> QED BY <1>1, NowIs, NextIs

LEMMA LaterIs ==
  ASSUME NEW alt, NEW e, NEW i, NEW s, NEW p
  PROVE  /\ p \in Later(Or(alt, e, i), s) => p \in Paths
         /\ p \in Paths =>
              p \in Later(Or(alt, e, i), s) <=>
                IF alt = "next_case" THEN Ahead(Ways(Call("match_case", e, i), pos, s), kont, path, p, s)
                ELSE Ahead({Way(<<>>, pos)}, kont, path, p, s)
<1> DEFINE c == Or(alt, e, i)
           a == Call("match_case", e, i)
           b == Call("cont", e, 0)
<1>1. /\ c.alt = alt /\ c.exp = e /\ c.i = i
      /\ c.path = path /\ c.pos = pos /\ c.kont = kont
  BY OrIs
<1>2. a.fn \in Fns /\ b.fn = "cont"
  BY DEF Fns, Call
<1>3. Later(c, s) = Tasks(IF alt = "next_case" THEN a ELSE b, pos, kont, path, s)
  <2> HIDE DEF c
  <2> QED BY <1>1 DEF Later, Resumed
<1> HIDE DEF a, b, c
<1>4. CASE alt = "next_case"
  <2>1. Later(c, s) = Tasks(a, pos, kont, path, s)
    BY <1>3, <1>4
  <2>2. /\ p \in Tasks(a, pos, kont, path, s) => p \in Paths
        /\ p \in Paths => (p \in Tasks(a, pos, kont, path, s) <=> Ahead(Ways(a, pos, s), kont, path, p, s))
    BY <1>2, TasksAre
  <2> QED BY <1>4, <2>1, <2>2 DEF a, c
<1>5. CASE alt # "next_case"
  <2>1. Later(c, s) = Tasks(b, pos, kont, path, s)
    BY <1>3, <1>5
  <2>2. /\ p \in Tasks(b, pos, kont, path, s) => p \in Paths
        /\ p \in Paths => (p \in Tasks(b, pos, kont, path, s) <=> Ahead({Way(<<>>, pos)}, kont, path, p, s))
    BY <1>2, TasksAre
  <2> QED BY <1>5, <2>1, <2>2 DEF c
<1> QED BY <1>4, <1>5

\* The alternative c is opened: what was ahead is ahead still, or left to c,
\* and the former is preferred.
Opened(c) ==
  /\ \A p : p \in Now <=> p \in Now' \/ p \in Later(c, input)
  /\ \A p \in Now', r \in Later(c, input) : Preferred(p, r)

LEMMA OpenQuantifier ==
  ASSUME TypeOK, IndexesInBounds, Shape, MatchRepeat \/ MatchOpt
  PROVE  \E alt \in {"after_repeat", "after_opt"} :
           choices' = Append(choices, Or(alt, call.exp, 0)) /\ Opened(Or(alt, call.exp, 0))
<1> DEFINE a == Call("match_exp", call.exp, 0)
           W == Ways(a, pos, input)
           B == {Way(<<>>, pos)}
<1>1. /\ input \in Input /\ call.exp \in Exp /\ pos \in 0 .. Len(input) /\ path \in Paths
      /\ kont \in Seq(Frame) /\ call = Call(call.fn, call.exp, 0) /\ call.fn \in {"match_repeat", "match_opt"}
      /\ InLoop(kont) /\ KontShape(kont) /\ call.fn \in Fns
  BY StateFacts DEF MatchRepeat, MatchOpt, Calling, Fns, Shape
<1>2. PICK alt \in {"after_repeat", "after_opt"} : choices' = Append(choices, Or(alt, call.exp, 0))
  BY DEF MatchRepeat, MatchOpt
<1>3. /\ call' = a /\ pos' = pos /\ path' = path /\ input' = input /\ call'.fn \in Fns
      /\ call.fn = "match_repeat" => kont' = Append(kont, Again(call.exp, pos))
      /\ call.fn = "match_opt" => kont' = kont
  BY DEF MatchRepeat, MatchOpt, Calling, Call, Fns, Push, Again
<1>4. ASSUME NEW p \in Paths
      PROVE  p \in Now' <=> Ahead(W, kont', path, p, input)
  <2> HIDE DEF a
  <2> QED BY <1>3, NextIs
<1>5. ASSUME NEW p \in Paths
      PROVE  p \in Later(Or(alt, call.exp, 0), input) <=> Ahead(B, kont, path, p, input)
  BY LaterIs
<1>6. ASSUME NEW p \in Paths
      PROVE  p \in Now <=> Ahead(W, kont', path, p, input) \/ Ahead(B, kont, path, p, input)
  <2>1. p \in Now <=> Ahead(Ways(Call(call.fn, call.exp, 0), pos, input), kont, path, p, input)
    BY <1>1, NowIs
  <2>2. CASE call.fn = "match_repeat"
    BY <1>1, <1>3, <2>1, <2>2, StepRepeat
  <2>3. CASE call.fn = "match_opt"
    BY <1>1, <1>3, <2>1, <2>3, StepOpt
  <2> QED BY <1>1, <2>2, <2>3
<1>7. FrameOK(Top(kont)) /\ kont # <<>> /\ Top(kont).frame \in Leaving
  BY <1>1, KontShapePop DEF InLoop
<1>8. ASSUME NEW p \in Paths, NEW r \in Paths,
             Ahead(W, kont', path, p, input), Ahead(B, kont, path, r, input)
      PROVE  Preferred(p, r)
  BY <1>1, <1>7, <1>8, IteratingPreferred
<1> HIDE DEF W, B
<1> DEFINE c == Or(alt, call.exp, 0)
<1>9. /\ \A p : p \in Later(c, input) => p \in Paths
      /\ \A p : p \in Now => p \in Paths
      /\ \A p : p \in Now' => p \in Paths
  BY LaterIs, NowIs, NextIs
<1>10. \A p : p \in Now <=> p \in Now' \/ p \in Later(c, input)
  BY <1>4, <1>5, <1>6, <1>9
<1>11. \A p \in Now', r \in Later(c, input) : Preferred(p, r)
  BY <1>4, <1>5, <1>8, <1>9
<1> QED BY <1>2, <1>10, <1>11 DEF Opened

LEMMA OpenCase ==
  ASSUME TypeOK, IndexesInBounds, Shape, MatchCase
  PROVE  IF call.i < Len(call.exp.args)
         THEN /\ choices' = Append(choices, Or("next_case", call.exp, call.i + 1))
              /\ Opened(Or("next_case", call.exp, call.i + 1))
         ELSE choices' = choices /\ Now' = Now
<1> DEFINE e == call.exp
           n == call.i
           a == Call("match_exp", e.args[n], 0)
           h == Append(path, EnterAlt(n))
           B == CaseWays(e, n, pos, input)
           C == Ways(Call("match_case", e, n + 1), pos, input)
<1>1. /\ input \in Input /\ e \in Exp /\ pos \in 0 .. Len(input) /\ path \in Paths
      /\ kont \in Seq(Frame) /\ call = Call("match_case", e, n) /\ n \in 1 .. Len(e.args) /\ call.fn \in Fns
      /\ Len(e.args) \in Nat
  BY StateFacts DEF MatchCase, Calling, Fns
<1>2. call' = a /\ pos' = pos /\ path' = h /\ kont' = kont /\ input' = input /\ call'.fn \in Fns
  BY DEF MatchCase, Call, Fns
<1> HIDE DEF e, n
<1>3. ASSUME NEW p \in Paths
      PROVE  p \in Now' <=> Ahead(B, kont, path, p, input)
  <2>1. p \in Now' <=> Ahead(Ways(a, pos, input), kont, h, p, input)
    <3> HIDE DEF a, h
    <3> QED BY <1>2, NextIs
  <2> QED BY <1>1, <2>1, CaseEmits
<1>4. ASSUME NEW p \in Paths
      PROVE  p \in Now <=> Ahead(B, kont, path, p, input) \/ Ahead(C, kont, path, p, input)
  <2>1. p \in Now <=> Ahead(Ways(Call("match_case", e, n), pos, input), kont, path, p, input)
    BY <1>1, NowIs
  <2> QED BY <1>1, <2>1, StepCase
<1>5. CASE n < Len(e.args)
  <2> DEFINE c == Or("next_case", e, n + 1)
  <2>1. ASSUME NEW p \in Paths
        PROVE  p \in Later(c, input) <=> Ahead(C, kont, path, p, input)
    BY LaterIs
  <2>2. ASSUME NEW p \in Paths, NEW r \in Paths,
               Ahead(B, kont, path, p, input), Ahead(C, kont, path, r, input)
        PROVE  Preferred(p, r)
    BY <1>1, <2>2, CasePreferred
  <2> HIDE DEF B, C
  <2>3. /\ \A p : p \in Later(c, input) => p \in Paths
        /\ \A p : p \in Now => p \in Paths
        /\ \A p : p \in Now' => p \in Paths
    BY LaterIs, NowIs, NextIs
  <2>4. \A p : p \in Now <=> p \in Now' \/ p \in Later(c, input)
    BY <1>3, <1>4, <2>1, <2>3
  <2>5. \A p \in Now', r \in Later(c, input) : Preferred(p, r)
    BY <1>3, <2>1, <2>2, <2>3
  <2>6. choices' = Append(choices, c)
    BY <1>5 DEF MatchCase, e, n
  <2> QED BY <1>5, <2>4, <2>5, <2>6 DEF Opened, e, n
<1>6. CASE ~(n < Len(e.args))
  <2>1. n + 1 \in 1 .. Len(e.args) + 1 /\ n + 1 = Len(e.args) + 1
    BY <1>1, <1>6
  <2>2. ASSUME NEW p PROVE ~Ahead(C, kont, path, p, input)
    BY <1>1, <2>1, NoCase
  <2> HIDE DEF B, C
  <2>3. ASSUME NEW p \in Paths PROVE p \in Now' <=> p \in Now
    BY <1>3, <1>4, <2>2
  <2>4. Now' = Now
    BY <2>3, NowIs, NextIs
  <2>5. choices' = choices
    BY <1>6 DEF MatchCase, e, n
  <2> QED BY <1>6, <2>4, <2>5 DEF e, n
<1> QED BY <1>5, <1>6

LEMMA Resuming ==
  ASSUME TypeOK, IndexesInBounds, Shape, Backtrack
  PROVE  /\ choices # <<>> /\ choices' = Pop(choices)
         /\ Now = {} /\ Now' = Later(Top(choices), input)
<1> DEFINE c == Top(choices)
<1>1. call.fn = "fail" /\ choices # <<>> /\ choices' = Pop(choices) /\ input' = input
  BY DEF Backtrack, Calling
<1>2. Now = {}
  BY <1>1, NowIs
<1>3. /\ path' = c.path /\ pos' = c.pos /\ kont' = c.kont
      /\ c.alt = "next_case" => call' = Resumed(c)
      /\ c.alt # "next_case" => call'.fn = "cont" /\ Resumed(c).fn = "cont"
  BY DEF Backtrack, Resume, Resumed, Go, Call
<1> HIDE DEF c
<1>4. CtlWays(call', pos', input') = CtlWays(Resumed(c), c.pos, input) /\ (call'.fn = "some" <=> Resumed(c).fn = "some")
  <2>1. CASE c.alt = "next_case"
    BY <1>1, <1>3, <2>1
  <2>2. CASE c.alt # "next_case"
    BY <1>1, <1>3, <2>2 DEF CtlWays, Fns
  <2> QED BY <2>1, <2>2
<1>5. Now' = Later(c, input)
  BY <1>1, <1>3, <1>4 DEF Now, Later, Tasks
<1> QED BY <1>1, <1>2, <1>5 DEF c

-----------------------------------------------------------------------------
(* The theorem *)

LEMMA InitOrdered ==
  ASSUME Init
  PROVE  Shape /\ PathsOrdered
<1> DEFINE c == Call("match_exp", root, 0)
           W == Ways(c, 0, input)
<1>1. /\ input \in Input /\ root \in Exp /\ call = c /\ path = <<>> /\ pos = 0
      /\ kont = <<>> /\ choices = <<>> /\ input \in Seq(Kind) /\ 0 \in 0 .. Len(input)
  BY ExpAssumption DEF Init
<1>2. Shape
  BY <1>1 DEF Shape, KontShape, Call
<1>3. c.fn \in Fns
  BY DEF Call, Fns
<1>4. W \in SUBSET WayType(input)
  BY <1>1, Calls, WaysFacts
<1>5. ASSUME NEW p \in Paths
      PROVE  p \in Now <=> Ahead(W, <<>>, <<>>, p, input)
  <2> HIDE DEF c
  <2> QED BY <1>1, <1>3, NowIs
<1> HIDE DEF W
<1>6. FullPaths(root, input) = {w.path : w \in {v \in W : v.end = Len(input)}}
  BY DEF FullPaths, W
<1>7. \A i, r : Completes(<<>>, i, r, input) <=> i = Len(input) /\ r = <<>>
  BY <1>1, CompletesNothing
<1>8. ASSUME NEW v \in W
      PROVE  v.path \in Paths /\ Join(<<>>, Join(v.path, <<>>)) = v.path
  <2>1. v.path \in Paths
    BY <1>4 DEF WayType
  <2> QED BY <2>1, PathEmpty
<1>9. <<>> \in Paths
  BY DEF Paths
<1>10. ASSUME NEW p
       PROVE  p \in FullPaths(root, input) <=> p \in Now
  <2>1. ASSUME p \in FullPaths(root, input) PROVE p \in Now
    <3>1. PICK v \in W : v.end = Len(input) /\ p = v.path
      BY <1>6, <2>1
    <3>2. p \in Paths /\ Ahead(W, <<>>, <<>>, p, input)
      BY <1>7, <1>8, <1>9, <3>1 DEF Ahead
    <3> QED BY <1>5, <3>2
  <2>2. ASSUME p \in Now PROVE p \in FullPaths(root, input)
    <3>1. Ahead(W, <<>>, <<>>, p, input)
      BY <1>5, <2>2, NowIs
    <3>2. PICK v \in W : \E r \in Paths : Completes(<<>>, v.end, r, input) /\ p = Join(<<>>, Join(v.path, r))
      BY <3>1 DEF Ahead
    <3>3. v.end = Len(input) /\ p = v.path
      BY <1>7, <1>8, <3>2
    <3> QED BY <1>6, <3>3
  <2> QED BY <2>1, <2>2
<1>11. DOMAIN choices = {}
  BY <1>1
<1> QED BY <1>2, <1>10, <1>11 DEF PathsOrdered, Ordered

LEMMA StepOrdered ==
  ASSUME TypeOK, IndexesInBounds, Shape, PathsOrdered, [Next]_vars
  PROVE  PathsOrdered'
<1> DEFINE F == FullPaths(root, input)
<1>1. choices \in Seq(Choice) /\ Ordered(Now, choices, F, input)
  BY StateFacts DEF PathsOrdered
<1>2. root' = root /\ input' = input /\ F' = F
  BY DEF Next, vars, MatchToken, MismatchToken, MatchNothing, EnterRepeat, EnterRepeat1, EnterOpt,
         EnterQuantifier, EnterSeq, MatchCases, MatchRepeat, MatchRepeat1, MatchOpt, MatchCase,
         MatchSeq, ContLeave, ContAfterExp, ContSeq, MatchEnd, Backtrack, NoMatch
<1>3. PathsOrdered' <=> Ordered(Now', choices', F, input)
  BY <1>2 DEF PathsOrdered
<1> HIDE DEF F
<1>4. ASSUME Now' = Now, choices' = choices PROVE PathsOrdered'
  BY <1>1, <1>3, <1>4
<1>5. ASSUME NEW c \in Choice, choices' = Append(choices, c), Opened(c) PROVE PathsOrdered'
  <2>1. \A p : p \in Now <=> p \in Now' \/ p \in Later(c, input)
    BY <1>5 DEF Opened
  <2>2. \A p \in Now', r \in Later(c, input) : Preferred(p, r)
    BY <1>5 DEF Opened
  <2>3. Ordered(Now', Append(choices, c), F, input)
    BY <1>1, <2>1, <2>2, OrderedPush
  <2> QED BY <1>3, <1>5, <2>3
<1>6. ASSUME NEW alt \in {"after_repeat", "after_opt", "next_case"}, NEW e \in Exp, NEW i \in Nat
      PROVE  Or(alt, e, i) \in Choice
  BY StateFacts DEF Or, Choice, TypeOK
<1>7. call.exp \in Exp /\ call.i + 1 \in Nat
  BY StateFacts DEF TypeOK
<1>8. CASE MatchToken \/ MismatchToken
  BY <1>4, <1>8, NowToken DEF MatchToken, MismatchToken
<1>9. CASE MatchNothing
  BY <1>4, <1>9, NowNothing DEF MatchNothing
<1>10. CASE EnterRepeat \/ EnterRepeat1 \/ EnterOpt
  BY <1>4, <1>10, NowQuantifier DEF EnterRepeat, EnterRepeat1, EnterOpt, EnterQuantifier
<1>11. CASE EnterSeq
  BY <1>4, <1>11, NowSeq DEF EnterSeq
<1>12. CASE MatchCases
  BY <1>4, <1>12, NowCases DEF MatchCases
<1>13. CASE MatchRepeat \/ MatchOpt
  <2>1. PICK alt \in {"after_repeat", "after_opt"} :
          choices' = Append(choices, Or(alt, call.exp, 0)) /\ Opened(Or(alt, call.exp, 0))
    BY <1>13, OpenQuantifier
  <2>2. Or(alt, call.exp, 0) \in Choice
    BY <1>6, <1>7
  <2> QED BY <1>5, <2>1, <2>2
<1>14. CASE MatchCase
  <2>1. CASE call.i < Len(call.exp.args)
    <3>1. Or("next_case", call.exp, call.i + 1) \in Choice
      BY <1>6, <1>7
    <3> QED BY <1>5, <1>14, <2>1, <3>1, OpenCase
  <2>2. CASE ~(call.i < Len(call.exp.args))
    BY <1>4, <1>14, <2>2, OpenCase
  <2> QED BY <2>1, <2>2
<1>15. CASE MatchRepeat1
  BY <1>4, <1>15, NowRepeat1 DEF MatchRepeat1
<1>16. CASE MatchSeq
  BY <1>4, <1>16, NowMatchSeq DEF MatchSeq
<1>17. CASE ContLeave
  BY <1>4, <1>17, NowLeave DEF ContLeave
<1>18. CASE ContAfterExp
  BY <1>4, <1>18, NowAfterExp DEF ContAfterExp
<1>19. CASE ContSeq
  BY <1>4, <1>19, NowContSeq DEF ContSeq
<1>20. CASE MatchEnd
  BY <1>4, <1>20, NowEnd DEF MatchEnd
<1>21. CASE Backtrack
  <2>1. /\ choices # <<>> /\ choices' = Pop(choices)
        /\ Now = {} /\ Now' = Later(Top(choices), input)
    BY <1>21, Resuming
  <2>2. Ordered(Later(Top(choices), input), Pop(choices), F, input)
    BY <1>1, <2>1, OrderedPop
  <2> QED BY <1>3, <2>1, <2>2
<1>22. CASE NoMatch
  BY <1>4, <1>22, NowNoMatch DEF NoMatch
<1>23. CASE UNCHANGED vars
  BY <1>4, <1>23 DEF vars, Now
<1> QED BY <1>8, <1>9, <1>10, <1>11, <1>12, <1>13, <1>14, <1>15, <1>16, <1>17, <1>18, <1>19,
           <1>20, <1>21, <1>22, <1>23 DEF Next

LEMMA OrderedFirst ==
  ASSUME TypeOK, IndexesInBounds, Shape, PathsOrdered
  PROVE  FirstWay
<1> DEFINE F == FullPaths(root, input)
<1>1. /\ \A p : p \in F <=> p \in Now \/ \E k \in DOMAIN choices : p \in Later(choices[k], input)
      /\ \A k \in DOMAIN choices : \A p \in Now, r \in Later(choices[k], input) : Preferred(p, r)
  BY DEF PathsOrdered, Ordered
<1> HIDE DEF F
<1>2. ASSUME call.fn = "some"
      PROVE  path \in F /\ \A q \in F \ {path} : Preferred(path, q)
  <2>1. path \in Paths
    BY StateFacts
  <2>2. \A p : p \in Now <=> p = path
    BY <1>2, <2>1, NowIs
  <2> QED BY <1>1, <2>2
<1>3. ASSUME call.fn = "none"
      PROVE  F = {}
  <2>1. DOMAIN choices = {}
    BY <1>3 DEF Shape
  <2>2. \A p : p \notin Now
    BY <1>3, NowIs
  <2> QED BY <1>1, <2>1, <2>2
<1> QED BY <1>2, <1>3 DEF FirstWay, F

\* Whatever the expression and the tokens, match_ returns a way of matching
\* all of the tokens, the one preferred to every other by the order in which
\* the ways are tried, and None only when there is none.
THEOREM PreferredWayFound == Spec => []FirstWay
<1> DEFINE Inv == TypeOK /\ IndexesInBounds /\ Shape /\ PathsOrdered
<1>1. Init => Inv
  BY InitTyped, InitOrdered
<1>2. Inv /\ [Next]_vars => Inv'
  BY StepTyped, StepShaped, StepOrdered
<1>3. Inv => FirstWay
  BY OrderedFirst
<1> QED BY <1>1, <1>2, <1>3, PTL DEF Spec

\* Made, with the ways that Ways gives.
LEMMA MadeOfWays ==
  ASSUME NEW s \in Input, NEW W,
         \A d \in Exp : \A a \in CallsOf(d), j \in 0 .. Len(s) : W[<<a, j>>] = Ways(a, j, s),
         NEW e \in Exp, NEW c \in CallsOf(e), NEW i \in 0 .. Len(s)
  PROVE  Made(W, c, i, s) = Ways(c, i, s)
<1>1. Ways(c, i, s) = Unfold(Ways, c, i, s) /\ c.exp = e
  BY WaysAssumption, CallCases
<1>2. CASE c.fn = "match_exp" /\ e.op = "Token"
  BY <1>1, <1>2 DEF Made, Unfold, Around, Then
<1>3. CASE c.fn = "match_exp" /\ e.op = "Nothing"
  BY <1>1, <1>3 DEF Made, Unfold, Around, Then
<1>4. CASE c.fn = "match_exp" /\ e.op \in {"Repeat", "Repeat1", "Opt"}
  <2>1. e.args[1] \in Exp
    BY <1>4, ExpAssumption
  <2>2. \A f \in {"match_repeat", "match_repeat1", "match_opt"} :
          W[<<Call(f, e.args[1], 0), i>>] = Ways(Call(f, e.args[1], 0), i, s)
    BY <2>1, Calls
  <2> QED BY <1>1, <1>4, <2>2 DEF Made, Unfold, Around, Then
<1>5. CASE c.fn = "match_exp" /\ e.op \in {"Alt", "Seq"}
  <2>1. \A f \in {"match_case", "match_seq"} : W[<<Call(f, e, 1), i>>] = Ways(Call(f, e, 1), i, s)
    <3>1. 1 \in 1 .. Len(e.args) + 1
      BY ExpAssumption
    <3> QED BY <3>1, Calls
  <2> QED BY <1>1, <1>5, <2>1 DEF Made, Unfold, Around, Then
<1>6. CASE c.fn = "match_case"
  <2>1. ASSUME NEW k \in c.i .. Len(e.args)
        PROVE  W[<<Call("match_exp", e.args[k], 0), i>>] = Ways(Call("match_exp", e.args[k], 0), i, s)
    <3>1. e.args[k] \in Exp
      BY <1>6, CallCases, ExpAssumption
    <3> QED BY <3>1, Calls
  <2> QED BY <1>1, <1>6, <2>1 DEF Made, Unfold, Around, Then
<1>7. ASSUME NEW d \in Exp, NEW a \in CallsOf(d), NEW w \in Ways(a, i, s)
      PROVE  w.end \in 0 .. Len(s)
  BY <1>7, WaysAssumption
<1>8. CASE c.fn = "match_seq"
  <2>1. CASE c.i > Len(e.args)
    BY <1>1, <1>8, <2>1 DEF Made, Unfold, Around, Then
  <2>2. CASE ~(c.i > Len(e.args))
    <3> DEFINE a == Call("match_exp", e.args[c.i], 0)
               b == Call("match_seq", e, c.i + 1)
    <3>1. c.i + 1 \in 1 .. Len(e.args) + 1 /\ e.args[c.i] \in Exp
      BY <1>8, <2>2, CallCases, ExpAssumption
    <3>2. a \in CallsOf(e.args[c.i]) /\ b \in CallsOf(e)
      BY <3>1, Calls
    <3>3. W[<<a, i>>] = Ways(a, i, s) /\ \A j \in 0 .. Len(s) : W[<<b, j>>] = Ways(b, j, s)
      BY <3>1, <3>2
    <3> DEFINE After(w)  == {Way(w.path \o v.path, v.end) : v \in W[<<b, w.end>>]}
               After2(w) == {Way(w.path \o v.path, v.end) : v \in Ways(b, w.end, s)}
    <3>4. Made(W, c, i, s) = UNION {After(w) : w \in W[<<a, i>>]}
      BY <1>1, <1>8, <2>2 DEF Made, Unfold, Around, Then
    <3>5. Ways(c, i, s) = UNION {After2(w) : w \in Ways(a, i, s)}
      BY <1>1, <1>8, <2>2 DEF Unfold, Around, Then
    <3>6. \A w \in Ways(a, i, s) : After(w) = After2(w)
      <4>1. \A w \in Ways(a, i, s) : W[<<b, w.end>>] = Ways(b, w.end, s)
        BY <1>7, <3>1, <3>2, <3>3
      <4> HIDE DEF a, b
      <4> QED BY <4>1
    <3> HIDE DEF a, b, After, After2
    <3>7. {After(w) : w \in Ways(a, i, s)} = {After2(w) : w \in Ways(a, i, s)}
      BY <3>6
    <3> QED BY <3>3, <3>4, <3>5, <3>7
  <2> QED BY <2>1, <2>2
<1>9. CASE c.fn \in {"match_repeat", "match_repeat1", "match_opt"}
  <2> DEFINE a == Call("match_exp", e, 0)
             b == Call("match_repeat", e, 0)
  <2>1. a \in CallsOf(e) /\ b \in CallsOf(e)
    BY Calls
  <2>2. W[<<a, i>>] = Ways(a, i, s) /\ \A w \in Ways(a, i, s) : W[<<b, w.end>>] = Ways(b, w.end, s)
    BY <1>7, <2>1
  <2> QED BY <1>1, <1>9, <2>2 DEF Made, Unfold, Around, Then
<1> QED BY <1>2, <1>3, <1>4, <1>5, <1>6, <1>8, <1>9, CallCases, ExpAssumption DEF Ops

\* WaysAssumption is met by one Ways only, whatever the expressions are: any
\* system of ways made as the matcher's functions make them is the one that
\* FirstWay is about.
THEOREM WaysDetermined ==
  ASSUME NEW s \in Input, NEW V, Solution(V, s),
         NEW e \in Exp, NEW c \in CallsOf(e), NEW i \in 0 .. Len(s)
  PROVE  V[<<c, i>>] = Ways(c, i, s)
<1> DEFINE W == [x \in Places(s) |-> Ways(x[1], x[2], s)]
<1>1. ASSUME NEW d \in Exp, NEW a \in CallsOf(d), NEW j \in 0 .. Len(s)
      PROVE  W[<<a, j>>] = Ways(a, j, s)
  BY PlacesOf
<1>2. W \in Systems(s)
  <2> SUFFICES ASSUME NEW x \in Places(s) PROVE Ways(x[1], x[2], s) \subseteq WayType(s)
    BY DEF Systems
  <2>1. PICK d \in Exp : x[1] \in CallsOf(d)
    BY DEF Places, AllCalls
  <2>2. x[2] \in 0 .. Len(s)
    BY DEF Places
  <2> QED BY <2>1, <2>2, WaysAssumption DEF WayType, Paths
<1>3. ASSUME NEW d \in Exp, NEW a \in CallsOf(d), NEW j \in 0 .. Len(s)
      PROVE  W[<<a, j>>] = Made(W, a, j, s)
  <2> HIDE DEF W
  <2> QED BY <1>1, MadeOfWays
<1>4. Solution(W, s)
  BY <1>2, <1>3 DEF Solution
<1> HIDE DEF W
<1> QED BY <1>1, <1>4, WaysUnique
=============================================================================
