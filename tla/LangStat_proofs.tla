--------------------------- MODULE LangStat_proofs ---------------------------
(***************************************************************************)
(* What the parser reports of an error is where the error is, and the rows *)
(* of lang-stat's table and the clusters of errors add up, for every list  *)
(* of projects, every file and everything that an earlier run may have     *)
(* left behind.                                                            *)
(***************************************************************************)
EXTENDS LangStat, SequenceTheorems, FiniteSetTheorems, WellFoundedInduction, TLAPS

-----------------------------------------------------------------------------
(* Sums.  SumFunctionOnSet takes the elements of the set one by one, as    *)
(* CHOOSE has it; what it returns does not depend on that.                 *)

\* A property of 0, and of the successor of each number that has it, is one of
\* every number.
LEMMA SetInd ==
  ASSUME NEW S, 0 \in S, \A n \in Nat : n \in S => n + 1 \in S
  PROVE  Nat \subseteq S
<1>1. IsWellFoundedOn(OpToRel(<, Nat), Nat)
  BY NatLessThanWellFounded
<1> DEFINE T == Nat \ S
<1>2. CASE T # {}
  <2>1. \E x \in T : \A y \in T : ~ (<<y, x>> \in OpToRel(<, Nat))
    <3> HIDE DEF T
    <3>1. T \subseteq Nat BY DEF T
    <3> QED BY <1>1, <1>2, <3>1, WFMin
  <2>2. PICK x \in T : \A y \in T : ~ (<<y, x>> \in OpToRel(<, Nat))
    BY <2>1
  <2>3. \A y \in Nat : y < x => <<y, x>> \in OpToRel(<, Nat)
    BY DEF OpToRel
  <2> DEFINE R == OpToRel(<, Nat)
  <2>3a. (\A y \in Nat : y < x => <<y, x>> \in R) /\ (\A y \in T : ~ (<<y, x>> \in R))
    BY <2>2, <2>3
  <2>4. x # 0 /\ x \in Nat
    OBVIOUS
  <2> HIDE DEF R
  <2>5a. x - 1 \in Nat /\ x - 1 < x
    BY <2>4, SMT
  <2>5b. <<x-1, x>> \in R
    BY <2>5a, <2>3a
  <2>5. x - 1 \in S /\ x - 1 \in Nat
    BY <2>3a, <2>5a, <2>5b
  <2>6. (x - 1) + 1 \in S
    BY <2>5
  <2>7. (x - 1) + 1 = x
    BY <2>4, SMT
  <2> QED BY <2>6, <2>7
<1> QED BY <1>2

Next1(s) == CHOOSE x \in s : TRUE

\* h is the sum of g on every subset of A.
IsSum(h, g, A) ==
  h = [s \in SUBSET A |-> IF s = {} THEN 0 ELSE g[Next1(s)] + h[s \ {Next1(s)}]]

LEMMA Picked ==
  ASSUME NEW s, s # {}
  PROVE  Next1(s) \in s
BY DEF Next1

LEMMA Fewer ==
  ASSUME NEW s, IsFiniteSet(s), NEW x \in s
  PROVE  /\ IsFiniteSet(s \ {x}) /\ Cardinality(s) \in Nat /\ Cardinality(s \ {x}) \in Nat
         /\ Cardinality(s) = Cardinality(s \ {x}) + 1
<1>1. IsFiniteSet(s \ {x}) /\ Cardinality(s \ {x}) = Cardinality(s) - 1
  BY FS_RemoveElement
<1>2. Cardinality(s) \in Nat /\ Cardinality(s \ {x}) \in Nat
  BY <1>1, FS_CardinalityType
<1> QED BY <1>1, <1>2

\* There is such an h.
LEMMA SumExists ==
  ASSUME NEW A, IsFiniteSet(A), NEW g
  PROVE  \E h : IsSum(h, g, A)
<1> DEFINE Dom(n) == {s \in SUBSET A : Cardinality(s) <= n}
           F(h, s) == IF s = {} THEN 0 ELSE g[Next1(s)] + h[s \ {Next1(s)}]
           Good(n) == \E h : h = [s \in Dom(n) |-> F(h, s)]
           T == {n \in Nat : Good(n)}
<1>1. ASSUME NEW s \in SUBSET A
      PROVE  IsFiniteSet(s) /\ Cardinality(s) \in Nat
  BY FS_Subset, FS_CardinalityType
<1>2. ASSUME NEW n \in Nat, NEW s \in Dom(n + 1), s # {}
      PROVE  s \ {Next1(s)} \in Dom(n)
  <2>1. Cardinality(s) = Cardinality(s \ {Next1(s)}) + 1 /\ Cardinality(s \ {Next1(s)}) \in Nat
    BY <1>1, <1>2, Picked, Fewer
  <2> QED BY <1>1, <2>1
<1>3. 0 \in T
  <2>1. \A s \in Dom(0) : s = {}
    BY <1>1, FS_EmptySet
  <2> DEFINE h == [s \in Dom(0) |-> 0]
  <2>2. h = [s \in Dom(0) |-> F(h, s)]
    BY <2>1
  <2> QED BY <2>2
<1>4. ASSUME NEW n \in Nat, n \in T
      PROVE  n + 1 \in T
  <2>1. PICK h : h = [s \in Dom(n) |-> F(h, s)]
    BY <1>4
  <2> DEFINE k == [s \in Dom(n + 1) |-> F(h, s)]
  <2>2. \A s \in Dom(n) : s \in Dom(n + 1)
    BY <1>1
  <2> HIDE DEF F
  <2>3. \A s \in Dom(n) : k[s] = h[s]
    <3>1. \A s \in Dom(n) : h[s] = F(h, s)
      BY <2>1
    <3> QED BY <2>2, <3>1
  <2>4. \A s \in Dom(n + 1) : F(h, s) = F(k, s)
    <3> HIDE DEF k, Dom
    <3> QED BY <1>2, <2>3 DEF F
  <2>5. k = [s \in Dom(n + 1) |-> F(k, s)]
    BY <2>4
  <2> HIDE DEF k
  <2> QED BY <2>5
<1>5. Nat \subseteq T
  <2> HIDE DEF T
  <2> QED BY <1>3, <1>4, SetInd
<1>6. Cardinality(A) \in T
  BY <1>1, <1>5
<1>7. \A s \in SUBSET A : Cardinality(s) <= Cardinality(A)
  BY FS_Subset
<1>8. Dom(Cardinality(A)) = SUBSET A
  BY <1>7
<1>9. PICK h : h = [s \in SUBSET A |-> F(h, s)]
  BY <1>6, <1>8
<1> QED BY <1>9 DEF IsSum

LEMMA SumIsSum ==
  ASSUME NEW A, IsFiniteSet(A), NEW g
  PROVE  \E h : IsSum(h, g, A) /\ SumFunctionOnSet(g, A) = h[A]
<1> DEFINE h == CHOOSE h : IsSum(h, g, A)
<1>1. IsSum(h, g, A)
  BY SumExists
<1>2. SumFunctionOnSet(g, A) = h[A]
  BY DEF SumFunctionOnSet, FoldFunctionOnSet, MapThenFoldSet, IsSum, Next1
<1> QED BY <1>1, <1>2

LEMMA SumStep ==
  ASSUME NEW A, NEW g, NEW h, IsSum(h, g, A)
  PROVE  /\ h[{}] = 0
         /\ \A s \in SUBSET A : s # {} => h[s] = g[Next1(s)] + h[s \ {Next1(s)}]
<1>1. \A s \in SUBSET A : h[s] = IF s = {} THEN 0 ELSE g[Next1(s)] + h[s \ {Next1(s)}]
  BY DEF IsSum
<1> QED BY <1>1

\* The element that is taken first can be any.
LEMMA SumAnyOrder ==
  ASSUME NEW A, IsFiniteSet(A), NEW g, \A x \in A : g[x] \in Nat, NEW h, IsSum(h, g, A)
  PROVE  \A s \in SUBSET A : h[s] \in Nat /\ \A y \in s : h[s] = g[y] + h[s \ {y}]
<1> DEFINE Good(s) == h[s] \in Nat /\ \A y \in s : h[s] = g[y] + h[s \ {y}]
           T == {n \in Nat : \A s \in SUBSET A : Cardinality(s) <= n => Good(s)}
<1>1. ASSUME NEW s \in SUBSET A
      PROVE  IsFiniteSet(s) /\ Cardinality(s) \in Nat /\ (Cardinality(s) = 0 => s = {})
  BY FS_Subset, FS_CardinalityType, FS_EmptySet
<1>2. 0 \in T
  <2>1. ASSUME NEW s \in SUBSET A, Cardinality(s) <= 0
        PROVE  Good(s)
    <3>1. s = {}
      BY <1>1, <2>1
    <3> QED BY <3>1, SumStep
  <2> HIDE DEF Good
  <2> QED BY <2>1
<1>3. ASSUME NEW n \in Nat, n \in T
      PROVE  n + 1 \in T
  <2>1. ASSUME NEW s \in SUBSET A, Cardinality(s) <= n + 1, s # {}
        PROVE  Good(s)
    <3> DEFINE x == Next1(s)
               r == s \ {x}
    <3>1. x \in s /\ h[s] = g[x] + h[r]
      BY <2>1, Picked, SumStep
    <3>2. \A y \in s : Good(s \ {y})
      <4>1. ASSUME NEW y \in s
            PROVE  s \ {y} \in SUBSET A /\ Cardinality(s \ {y}) <= n
        <5>1. Cardinality(s) = Cardinality(s \ {y}) + 1 /\ Cardinality(s \ {y}) \in Nat
          BY <1>1, Fewer
        <5> QED BY <2>1, <5>1
      <4> HIDE DEF Good
      <4> QED BY <1>3, <4>1
    <3>3. h[s] \in Nat
      <4>1. h[r] \in Nat /\ g[x] \in Nat
        BY <3>1, <3>2
      <4> HIDE DEF x, r
      <4> QED BY <3>1, <4>1
    <3>4. ASSUME NEW y \in s, y # x
          PROVE  h[s] = g[y] + h[s \ {y}]
      <4>1. y \in r /\ x \in s \ {y} /\ (r \ {y}) = (s \ {y}) \ {x}
        BY <3>1, <3>4
      <4>2. h[r] = g[y] + h[r \ {y}]
        BY <3>1, <3>2, <4>1
      <4>3. h[s \ {y}] = g[x] + h[r \ {y}]
        BY <3>2, <4>1
      <4>4. g[x] \in Nat /\ g[y] \in Nat
        BY <3>1
      <4>5. h[r \ {y}] \in Nat
        <5>1. r \in SUBSET A /\ IsFiniteSet(r) /\ r \ {y} \in SUBSET A
          BY <1>1
        <5>2. Cardinality(r) = Cardinality(r \ {y}) + 1 /\ Cardinality(r \ {y}) \in Nat
          BY <4>1, <5>1, Fewer
        <5>3. Cardinality(s) = Cardinality(r) + 1 /\ Cardinality(r) \in Nat
          BY <1>1, <3>1, Fewer
        <5>4. Cardinality(r \ {y}) <= n
          BY <2>1, <5>2, <5>3
        <5> QED BY <1>3, <5>1, <5>4
      <4> HIDE DEF x, r
      <4> QED BY <3>1, <4>2, <4>3, <4>4, <4>5
    <3> QED BY <3>1, <3>3, <3>4
  <2>2. ASSUME NEW s \in SUBSET A, s = {}
        PROVE  Good(s)
    BY <2>2, SumStep
  <2> HIDE DEF Good
  <2> QED BY <2>1, <2>2
<1>4. Nat \subseteq T
  <2> HIDE DEF T
  <2> QED BY <1>2, <1>3, SetInd
<1>5. ASSUME NEW s \in SUBSET A
      PROVE  Good(s)
  <2>1. Cardinality(s) \in T /\ Cardinality(s) <= Cardinality(s)
    BY <1>1, <1>4
  <2> HIDE DEF Good
  <2> QED BY <2>1
<1> QED BY <1>5

\* Functions that agree on a set have the same sum on it.
LEMMA SumAgrees ==
  ASSUME NEW A, IsFiniteSet(A), NEW g, NEW h, IsSum(h, g, A),
         NEW B \in SUBSET A, NEW e, NEW k, IsSum(k, e, B), \A x \in B : g[x] = e[x]
  PROVE  \A s \in SUBSET B : h[s] = k[s]
<1> DEFINE T == {n \in Nat : \A s \in SUBSET B : Cardinality(s) <= n => h[s] = k[s]}
<1>1. ASSUME NEW s \in SUBSET B
      PROVE  IsFiniteSet(s) /\ Cardinality(s) \in Nat /\ (Cardinality(s) = 0 => s = {}) /\ s \in SUBSET A
  BY FS_Subset, FS_CardinalityType, FS_EmptySet
<1>2. h[{}] = k[{}]
  BY SumStep
<1>7. \A s \in SUBSET B : s # {} => k[s] = e[Next1(s)] + k[s \ {Next1(s)}]
  <2>1. \A s \in SUBSET B : k[s] = IF s = {} THEN 0 ELSE e[Next1(s)] + k[s \ {Next1(s)}]
    BY DEF IsSum
  <2> QED BY <2>1
<1>3. 0 \in T
  BY <1>1, <1>2
<1>4. ASSUME NEW n \in Nat, n \in T
      PROVE  n + 1 \in T
  <2>1. ASSUME NEW s \in SUBSET B, Cardinality(s) <= n + 1, s # {}
        PROVE  h[s] = k[s]
    <3> DEFINE x == Next1(s)
    <3>1. x \in s
      BY <2>1, Picked
    <3>2. Cardinality(s) = Cardinality(s \ {x}) + 1 /\ Cardinality(s \ {x}) \in Nat
      BY <1>1, <3>1, Fewer
    <3>3. h[s \ {x}] = k[s \ {x}]
      BY <1>4, <2>1, <3>2
    <3>4. h[s] = g[x] + h[s \ {x}]
      BY <1>1, <2>1, SumStep
    <3>5. k[s] = e[x] + k[s \ {x}]
      BY <1>7, <2>1
    <3>6. g[x] = e[x]
      BY <3>1
    <3> HIDE DEF x
    <3> QED BY <3>3, <3>4, <3>5, <3>6
  <2> QED BY <1>2, <2>1
<1>5. Nat \subseteq T
  <2> HIDE DEF T
  <2> QED BY <1>3, <1>4, SetInd
<1>6. ASSUME NEW s \in SUBSET B
      PROVE  h[s] = k[s]
  <2>1. Cardinality(s) \in T /\ Cardinality(s) <= Cardinality(s)
    BY <1>1, <1>5
  <2> QED BY <2>1
<1> QED BY <1>6

\* A sum depends on the terms only.
LEMMA SumSame ==
  ASSUME NEW A, IsFiniteSet(A), NEW g, NEW h, \A x \in A : g[x] = h[x]
  PROVE  SumFunctionOnSet(g, A) = SumFunctionOnSet(h, A)
<1>1. PICK u : IsSum(u, g, A) /\ SumFunctionOnSet(g, A) = u[A]
  BY SumIsSum
<1>2. PICK v : IsSum(v, h, A) /\ SumFunctionOnSet(h, A) = v[A]
  BY SumIsSum
<1>3. A \in SUBSET A
  OBVIOUS
<1> QED BY <1>1, <1>2, <1>3, SumAgrees

LEMMA SumEmpty ==
  ASSUME NEW g
  PROVE  SumFunctionOnSet(g, {}) = 0
<1>1. IsFiniteSet({})
  BY FS_EmptySet
<1> QED BY <1>1, SumIsSum, SumStep

LEMMA SumInNat ==
  ASSUME NEW A, IsFiniteSet(A), NEW g, \A x \in A : g[x] \in Nat
  PROVE  SumFunctionOnSet(g, A) \in Nat
BY SumIsSum, SumAnyOrder

\* One more element, one more term.
LEMMA SumAdd ==
  ASSUME NEW A, IsFiniteSet(A), NEW y, y \notin A, NEW g, \A x \in A \cup {y} : g[x] \in Nat
  PROVE  SumFunctionOnSet(g, A \cup {y}) = SumFunctionOnSet(g, A) + g[y]
<1> DEFINE B == A \cup {y}
<1>1. IsFiniteSet(B)
  BY FS_AddElement
<1>2. PICK h : IsSum(h, g, B) /\ SumFunctionOnSet(g, B) = h[B]
  BY <1>1, SumIsSum
<1>3. PICK k : IsSum(k, g, A) /\ SumFunctionOnSet(g, A) = k[A]
  BY SumIsSum
<1>4. h[A] = k[A]
  <2>1. A \in SUBSET B /\ A \in SUBSET A
    OBVIOUS
  <2> HIDE DEF B
  <2>2. IsFiniteSet(B) /\ IsSum(h, g, B) /\ IsSum(k, g, A)
    BY <1>1, <1>2, <1>3
  <2> QED BY <2>1, <2>2, SumAgrees
<1>5. B \ {y} = A /\ y \in B /\ A \in SUBSET B
  OBVIOUS
<1>6. h[B] = g[y] + h[A] /\ h[A] \in Nat /\ g[y] \in Nat
  BY <1>1, <1>2, <1>5, SumAnyOrder
<1> HIDE DEF B
<1>7. SumFunctionOnSet(g, B) = SumFunctionOnSet(g, A) + g[y]
  BY <1>2, <1>3, <1>4, <1>6
<1> QED BY <1>7 DEF B

-----------------------------------------------------------------------------
(* Sequences.  What the library has as functions that call themselves is   *)
(* determined by induction on the number of elements.                      *)

\* A set with the empty sequence, and with each sequence that extends one of
\* its sequences by an element, has all sequences.
LEMMA SeqInd ==
  ASSUME NEW S, NEW T, <<>> \in T,
         \A s \in Seq(S), e \in S : s \in T => Append(s, e) \in T
  PROVE  Seq(S) \subseteq T
<1> DEFINE N == {n \in Nat : \A s \in Seq(S) : Len(s) = n => s \in T}
<1>1. 0 \in N
  <2>1. \A s \in Seq(S) : Len(s) = 0 => s = <<>>
    BY EmptySeq
  <2> QED BY <2>1
<1>2. ASSUME NEW n \in Nat, n \in N
      PROVE  n + 1 \in N
  <2> SUFFICES ASSUME NEW s \in Seq(S), Len(s) = n + 1
               PROVE  s \in T
    OBVIOUS
  <2>1. s # <<>>
    BY EmptySeq
  <2>2. PICK t \in Seq(S), e \in S : s = Append(t, e)
    BY <2>1, SequenceEmptyOrAppend
  <2>3. Len(t) = n
    BY <2>2, AppendProperties, LenProperties
  <2> QED BY <1>2, <2>2, <2>3
<1>3. Nat \subseteq N
  <2> HIDE DEF N
  <2> QED BY <1>1, <1>2, SetInd
<1>4. \A s \in Seq(S) : Len(s) \in N
  BY <1>3, LenProperties
<1> QED BY <1>4

\* fn starts with a, and each value is made by H of the one before it.
MadeBy(fn, a, H, N, S) ==
  fn \in [0 .. N -> S] /\ fn[0] = a /\ \A i \in 1 .. N : fn[i] = H[i][fn[i - 1]]

\* There is such a function.
LEMMA Steps ==
  ASSUME NEW S, NEW a \in S, NEW N \in Nat, NEW H, H \in [1 .. N -> [S -> S]]
  PROVE  \E fn : MadeBy(fn, a, H, N, S)
<1> DEFINE Ok(n, fn) == fn[0] = a /\ \A i \in 1 .. n : fn[i] = H[i][fn[i - 1]]
           T == {n \in Nat : n <= N => \E fn \in [0 .. n -> S] : Ok(n, fn)}
<1>1. 0 \in T
  <2> DEFINE fn == [i \in 0 .. 0 |-> a]
  <2>1. fn \in [0 .. 0 -> S] /\ Ok(0, fn)
    OBVIOUS
  <2> HIDE DEF fn
  <2> QED BY <2>1
<1>2. ASSUME NEW n \in Nat, n \in T
      PROVE  n + 1 \in T
  <2> SUFFICES ASSUME n + 1 <= N
               PROVE  \E fn \in [0 .. n + 1 -> S] : Ok(n + 1, fn)
    OBVIOUS
  <2>1. PICK g \in [0 .. n -> S] : Ok(n, g)
    BY <1>2
  <2> DEFINE fn == [i \in 0 .. n + 1 |-> IF i = n + 1 THEN H[n + 1][g[n]] ELSE g[i]]
  <2>2. H[n + 1] \in [S -> S] /\ g[n] \in S
    OBVIOUS
  <2>3. H[n + 1][g[n]] \in S
    BY <2>2
  <2>4. fn \in [0 .. n + 1 -> S]
    BY <2>3
  <2>5. fn[n + 1] = H[n + 1][fn[n]] /\ \A i \in 0 .. n : fn[i] = g[i]
    OBVIOUS
  <2> HIDE DEF fn
  <2>6. Ok(n + 1, fn)
    <3>1. fn[0] = a
      BY <2>1, <2>5
    <3>2. ASSUME NEW i \in 1 .. n + 1 PROVE fn[i] = H[i][fn[i - 1]]
      <4>1. CASE i = n + 1
        BY <4>1, <2>5
      <4>2. CASE i \in 1 .. n
        BY <4>2, <2>1, <2>5
      <4> QED BY <4>1, <4>2
    <3> QED BY <3>1, <3>2
  <2> QED BY <2>4, <2>6
<1>3. N \in T
  <2> HIDE DEF T
  <2> QED BY <1>1, <1>2, SetInd
<1> QED BY <1>3 DEF MadeBy

-----------------------------------------------------------------------------
(* Lines and points *)

\* What the recursive function line_ends satisfies.
LEMMA LineEnds ==
  ASSUME NEW text \in Seq(STRING)
  PROVE  LET e == line_ends(text)
         IN  /\ e[0] = <<>>
             /\ \A o \in 1 .. Len(text) :
                  e[o] = IF text[o] = LF THEN Append(e[o - 1], o) ELSE e[o - 1]
<1> DEFINE N == Len(text)
           S == Seq(Nat)
           H == [i \in 1 .. N |-> [s \in S |-> IF text[i] = LF THEN Append(s, i) ELSE s]]
           F(e) == [o \in 0 .. N |-> IF o = 0 THEN <<>>
                                     ELSE IF text[o] = LF THEN Append(e[o - 1], o) ELSE e[o - 1]]
<1>1. N \in Nat
  BY LenProperties
<1>2. H \in [1 .. N -> [S -> S]]
  <2>1. ASSUME NEW i \in 1 .. N, NEW s \in S PROVE Append(s, i) \in S
    BY <1>1, AppendProperties
  <2> HIDE DEF S, N
  <2> QED BY <2>1
<1> DEFINE a == <<>>
<1>3. a \in S
  OBVIOUS
<1>4. PICK fn \in [0 .. N -> S] : fn[0] = a /\ \A i \in 1 .. N : fn[i] = H[i][fn[i - 1]]
  <2> HIDE DEF S, N, H, F, a
  <2>1. \E fn : MadeBy(fn, a, H, N, S)
    BY <1>1, <1>2, <1>3, Steps
  <2> QED BY <2>1 DEF MadeBy
<1>5. fn = F(fn)
  <2>1. \A i \in 1 .. N : fn[i - 1] \in S
    <3> HIDE DEF S, N, H
    <3> QED BY <1>1, <1>4
  <2>2. ASSUME NEW i \in 1 .. N
        PROVE  fn[i] = IF text[i] = LF THEN Append(fn[i - 1], i) ELSE fn[i - 1]
    <3>1. fn[i] = H[i][fn[i - 1]]
      BY <1>4
    <3>2. H[i] = [s \in S |-> IF text[i] = LF THEN Append(s, i) ELSE s]
      OBVIOUS
    <3> QED BY <2>1, <3>1, <3>2
  <2>3. fn = [i \in 0 .. N |-> fn[i]]
    BY <1>4
  <2>4. ASSUME NEW i \in 0 .. N PROVE fn[i] = F(fn)[i]
    <3> HIDE DEF S, N, H
    <3>1. i = 0 \/ i \in 1 .. N
      BY <1>1
    <3> QED BY <1>1, <1>4, <2>2, <3>1
  <2> HIDE DEF S, N, H
  <2> QED BY <2>3, <2>4
<1>6. line_ends(text) = F(line_ends(text))
  <2>1. \E e : e = F(e)
    BY <1>5
  <2>2. line_ends(text) = CHOOSE e : e = F(e)
    BY DEF line_ends
  <2> HIDE DEF F
  <2> QED BY <2>1, <2>2
<1> DEFINE e == line_ends(text)
<1>7. \A o \in 0 .. N : e[o] = IF o = 0 THEN <<>>
                               ELSE IF text[o] = LF THEN Append(e[o - 1], o) ELSE e[o - 1]
  <2> HIDE DEF e, N
  <2>1. e = F(e)
    BY <1>6 DEF e
  <2> QED BY <2>1
<1>8. \A o \in 1 .. N : o \in 0 .. N /\ o # 0
  BY <1>1
<1> HIDE DEF e
<1>9. e[0] = <<>>
  BY <1>1, <1>7
<1> QED BY <1>7, <1>8, <1>9 DEF e

\* s has the newlines among the first o characters of text, in order.
Newlines(s, text, o) ==
  /\ s \in Seq(Nat) /\ Len(s) <= o
  /\ \A k \in 1 .. Len(s) : s[k] \in 1 .. o /\ text[s[k]] = LF
  /\ \A j, k \in 1 .. Len(s) : j < k => s[j] < s[k]
  /\ \A i \in 1 .. o : text[i] = LF => \E k \in 1 .. Len(s) : s[k] = i

LEMMA EndsAreNewlines ==
  ASSUME NEW text \in Seq(STRING), NEW o \in 0 .. Len(text)
  PROVE  Newlines(line_ends(text)[o], text, o)
<1> DEFINE e == line_ends(text)
           T == {n \in Nat : n <= Len(text) => Newlines(e[n], text, n)}
<1>1. Len(text) \in Nat
  BY LenProperties
<1>2. e[0] = <<>> /\ \A n \in 1 .. Len(text) :
                       e[n] = IF text[n] = LF THEN Append(e[n - 1], n) ELSE e[n - 1]
  BY LineEnds
<1> HIDE DEF e
<1>3. 0 \in T
  <2>1. <<>> \in Seq(Nat) /\ Len(<<>>) = 0
    OBVIOUS
  <2>2. Newlines(<<>>, text, 0)
    BY <2>1 DEF Newlines
  <2> QED BY <1>2, <2>2
<1>4. ASSUME NEW n \in Nat, n \in T
      PROVE  n + 1 \in T
  <2> SUFFICES ASSUME n + 1 <= Len(text)
               PROVE  Newlines(e[n + 1], text, n + 1)
    OBVIOUS
  <2> DEFINE s == e[n]
             t == e[n + 1]
  <2>1. Newlines(s, text, n)
    BY <1>1, <1>4
  <2>2. t = IF text[n + 1] = LF THEN Append(s, n + 1) ELSE s
    BY <1>1, <1>2
  <2> HIDE DEF s, t
  <2>3. CASE text[n + 1] # LF
    <3>1. t = s
      BY <2>2, <2>3
    <3>2. \A i \in 1 .. n + 1 : text[i] = LF => i \in 1 .. n
      BY <2>3
    <3>3. s \in Seq(Nat) /\ Len(s) <= n
      BY <2>1 DEF Newlines
    <3>4. Len(s) <= n + 1
      BY <3>3, LenProperties
    <3> QED BY <2>1, <3>1, <3>2, <3>4 DEF Newlines, t
  <2>4. CASE text[n + 1] = LF
    <3>1. /\ t \in Seq(Nat) /\ Len(t) = Len(s) + 1 /\ Len(s) \in Nat
          /\ t[Len(s) + 1] = n + 1 /\ \A k \in 1 .. Len(s) : t[k] = s[k]
      <4>1. t = Append(s, n + 1) /\ s \in Seq(Nat) /\ n + 1 \in Nat
        BY <2>1, <2>2, <2>4 DEF Newlines
      <4> QED BY <4>1, AppendProperties, LenProperties
    <3>7. Len(t) <= n + 1
      <4>1. Len(s) <= n
        BY <2>1 DEF Newlines
      <4> QED BY <3>1, <4>1
    <3>2. \A k \in 1 .. Len(t) : k \in 1 .. Len(s) \/ k = Len(s) + 1
      BY <3>1
    <3>3. \A k \in 1 .. Len(s) : s[k] \in 1 .. n
      BY <2>1 DEF Newlines
    <3>4. \A k \in 1 .. Len(t) : t[k] \in 1 .. n + 1 /\ text[t[k]] = LF
      <4>1. ASSUME NEW k \in 1 .. Len(s) PROVE t[k] \in 1 .. n + 1 /\ text[t[k]] = LF
        <5>1. text[s[k]] = LF
          BY <2>1 DEF Newlines
        <5> QED BY <3>1, <3>3, <5>1
      <4>2. t[Len(s) + 1] \in 1 .. n + 1 /\ text[t[Len(s) + 1]] = LF
        BY <2>4, <3>1
      <4> QED BY <3>2, <4>1, <4>2
    <3>5. ASSUME NEW j \in 1 .. Len(t), NEW k \in 1 .. Len(t), j < k
          PROVE  t[j] < t[k]
      <4>1. j \in 1 .. Len(s)
        BY <3>1, <3>2, <3>5
      <4>2. CASE k \in 1 .. Len(s)
        BY <2>1, <3>1, <3>5, <4>1, <4>2 DEF Newlines
      <4>3. CASE k = Len(s) + 1
        BY <3>1, <3>3, <4>1, <4>3
      <4> QED BY <3>2, <4>2, <4>3
    <3>6. ASSUME NEW i \in 1 .. n + 1, text[i] = LF
          PROVE  \E k \in 1 .. Len(t) : t[k] = i
      <4>1. CASE i = n + 1
        BY <3>1, <4>1
      <4>2. CASE i \in 1 .. n
        <5>1. PICK k \in 1 .. Len(s) : s[k] = i
          BY <2>1, <3>6, <4>2 DEF Newlines
        <5> QED BY <3>1, <5>1
      <4> QED BY <4>1, <4>2
    <3> QED BY <3>1, <3>4, <3>5, <3>6, <3>7 DEF Newlines, t
  <2> QED BY <2>3, <2>4
<1>5. Nat \subseteq T
  <2> HIDE DEF T
  <2> QED BY <1>3, <1>4, SetInd
<1> QED BY <1>1, <1>5 DEF e

\* The newlines of fewer characters come first.
LEMMA EndsGrow ==
  ASSUME NEW text \in Seq(STRING), NEW a \in 0 .. Len(text), NEW b \in a .. Len(text)
  PROVE  LET s == line_ends(text)[a]
             t == line_ends(text)[b]
         IN  /\ Len(s) <= Len(t)
             /\ \A k \in 1 .. Len(s) : t[k] = s[k]
             /\ \A k \in Len(s) + 1 .. Len(t) : t[k] > a
<1> DEFINE e == line_ends(text)
           s == e[a]
           Grown(t) == /\ Len(s) <= Len(t)
                       /\ \A k \in 1 .. Len(s) : t[k] = s[k]
                       /\ \A k \in Len(s) + 1 .. Len(t) : t[k] > a
           T == {n \in Nat : a + n <= Len(text) => Grown(e[a + n])}
<1>1. Len(text) \in Nat
  BY LenProperties
<1>2. \A n \in 0 .. Len(text) : e[n] \in Seq(Nat) /\ Len(e[n]) \in Nat
  BY EndsAreNewlines, LenProperties DEF Newlines
<1>3. \A n \in 1 .. Len(text) : e[n] = IF text[n] = LF THEN Append(e[n - 1], n) ELSE e[n - 1]
  BY LineEnds
<1> HIDE DEF e
<1>4. 0 \in T
  BY <1>2
<1>5. ASSUME NEW n \in Nat, n \in T
      PROVE  n + 1 \in T
  <2> SUFFICES ASSUME a + (n + 1) <= Len(text)
               PROVE  Grown(e[a + (n + 1)])
    OBVIOUS
  <2> DEFINE t == e[a + n]
             u == e[a + (n + 1)]
             m == a + n + 1
  <2>1. Grown(t) /\ t \in Seq(Nat) /\ Len(t) \in Nat /\ Len(s) \in Nat
    BY <1>1, <1>2, <1>5
  <2>2. (u = t \/ u = Append(t, m)) /\ m \in Nat /\ m > a
    <3>1. m \in 1 .. Len(text) /\ m - 1 = a + n /\ m = a + (n + 1) /\ m > a
      BY <1>1
    <3> HIDE DEF m
    <3>2. e[m] = e[m - 1] \/ e[m] = Append(e[m - 1], m)
      BY <1>3, <3>1
    <3> QED BY <3>1, <3>2
  <2> HIDE DEF t, u, m, s
  <2>3. CASE u = t
    BY <2>1, <2>3 DEF u
  <2>4. CASE u = Append(t, m)
    <3>1. Len(u) = Len(t) + 1 /\ u[Len(t) + 1] = m /\ \A k \in 1 .. Len(t) : u[k] = t[k]
      BY <2>1, <2>2, <2>4, AppendProperties
    <3>2. \A k \in 1 .. Len(s) : k \in 1 .. Len(t)
      BY <2>1
    <3>3. \A k \in Len(s) + 1 .. Len(u) : k = Len(t) + 1 \/ k \in Len(s) + 1 .. Len(t)
      BY <2>1, <3>1
    <3>4. \A k \in Len(s) + 1 .. Len(t) : k \in 1 .. Len(t)
      BY <2>1
    <3>5. Grown(u)
      <4>1. Len(s) <= Len(u)
        BY <2>1, <3>1
      <4>2. \A k \in 1 .. Len(s) : u[k] = s[k]
        BY <2>1, <3>1, <3>2
      <4>3. ASSUME NEW k \in Len(s) + 1 .. Len(u) PROVE u[k] > a
        <5>1. CASE k = Len(t) + 1
          BY <2>2, <3>1, <5>1
        <5>2. CASE k \in Len(s) + 1 .. Len(t)
          <6>1. t[k] > a
            BY <2>1, <5>2
          <6>2. u[k] = t[k]
            BY <3>1, <3>4, <5>2
          <6> QED BY <6>1, <6>2
        <5> QED BY <3>3, <5>1, <5>2
      <4> QED BY <4>1, <4>2, <4>3
    <3> QED BY <3>5 DEF u
  <2> QED BY <2>2, <2>3, <2>4
<1>6. Nat \subseteq T
  <2> HIDE DEF T
  <2> QED BY <1>4, <1>5, SetInd
<1>7. b - a \in T /\ a + (b - a) = b
  BY <1>1, <1>6
<1> QED BY <1>1, <1>7 DEF e

\* Where the k-th line starts and stops.
AllEnds(text)  == line_ends(text)[Len(text)]
Start(text, k) == IF k = 1 THEN 0 ELSE AllEnds(text)[k - 1]
Stop(text, k)  == IF k <= Len(AllEnds(text)) THEN AllEnds(text)[k] ELSE Len(text)
NumLines(text) == Len(AllEnds(text)) + 1

IsChars(s, a, b) ==
  /\ s \in Seq(Nat) /\ Len(s) = b - a
  /\ \A i \in 1 .. b - a : s[i] = a + i

LEMMA CharsAre ==
  ASSUME NEW a \in Nat, NEW b \in Nat, a <= b
  PROVE  IsChars(chars(a, b), a, b)
<1>1. \A i \in 1 .. b - a : a + i \in Nat
  OBVIOUS
<1>2. b - a \in Nat
  OBVIOUS
<1> QED BY <1>1, <1>2 DEF chars, IsChars

\* The lines cover the text one after the other, each but the last ends with the
\* only newline it has, and the last has none.
LEMMA LineBounds ==
  ASSUME NEW text \in Seq(STRING)
  PROVE  /\ NumLines(text) \in Nat \ {0} /\ Len(text) \in Nat
         /\ \A k \in 1 .. NumLines(text) :
              /\ Start(text, k) \in Nat /\ Stop(text, k) \in Nat
              /\ Start(text, k) <= Stop(text, k) /\ Stop(text, k) <= Len(text)
              /\ k < NumLines(text) =>
                   /\ Start(text, k) < Stop(text, k) /\ text[Stop(text, k)] = LF
                   /\ Stop(text, k) = Start(text, k + 1)
              /\ k = NumLines(text) => Stop(text, k) = Len(text)
              /\ \A i \in Start(text, k) + 1 .. Stop(text, k) :
                   text[i] = LF => i = Stop(text, k) /\ k < NumLines(text)
         /\ Start(text, 1) = 0
<1> DEFINE s == AllEnds(text)
           N == Len(text)
           m == Len(s)
<1>1. N \in Nat
  BY LenProperties
<1>2. N \in 0 .. N
  BY <1>1
<1>3. Newlines(s, text, N)
  BY <1>2, EndsAreNewlines DEF AllEnds
<1>4. m \in Nat /\ (\A k \in 1 .. m : s[k] \in 1 .. N /\ text[s[k]] = LF)
      /\ (\A j, k \in 1 .. m : j < k => s[j] < s[k])
      /\ (\A i \in 1 .. N : text[i] = LF => \E k \in 1 .. m : s[k] = i)
  <2>1. s \in Seq(Nat)
    BY <1>3 DEF Newlines
  <2>2. m \in Nat
    BY <2>1, LenProperties
  <2> QED BY <1>3, <2>2 DEF Newlines
<1> DEFINE A(k) == IF k = 1 THEN 0 ELSE s[k - 1]
           B(k) == IF k <= m THEN s[k] ELSE N
<1>5. NumLines(text) = m + 1 /\ \A k : Start(text, k) = A(k) /\ Stop(text, k) = B(k)
  BY DEF NumLines, Start, Stop
<1> HIDE DEF s, N, m
<1>6. \A k \in 2 .. m + 1 : k - 1 \in 1 .. m
  BY <1>4
<1>7. ASSUME NEW k \in 1 .. m + 1
      PROVE  /\ A(k) \in Nat /\ B(k) \in Nat /\ A(k) <= B(k) /\ B(k) <= N
             /\ k < m + 1 => A(k) < B(k) /\ text[B(k)] = LF /\ B(k) = A(k + 1)
             /\ k = m + 1 => B(k) = N
  <2>1. A(k) \in Nat /\ A(k) <= N
    <3>1. CASE k = 1
      BY <1>1, <3>1
    <3>2. CASE k # 1
      <4>1. k - 1 \in 1 .. m
        BY <1>4, <3>2
      <4>2. s[k - 1] \in 1 .. N
        BY <1>4, <4>1
      <4> QED BY <1>1, <3>2, <4>2
    <3> QED BY <3>1, <3>2
  <2>2. CASE k = m + 1
    <3>1. B(k) = N
      BY <1>4, <2>2
    <3> QED BY <1>1, <1>4, <2>1, <2>2, <3>1
  <2>3. CASE k \in 1 .. m
    <3>1. B(k) = s[k] /\ B(k) \in 1 .. N /\ text[B(k)] = LF
      BY <1>4, <2>3
    <3>2. A(k) < B(k)
      <4>1. CASE k = 1
        BY <3>1, <4>1, <1>1
      <4>2. CASE k # 1
        <5>1. k - 1 \in 1 .. m /\ k - 1 < k
          BY <1>4, <4>2
        <5>2. s[k - 1] < s[k]
          BY <1>4, <2>3, <5>1
        <5> QED BY <3>1, <4>2, <5>2
      <4> QED BY <4>1, <4>2
    <3>3. k + 1 # 1 /\ (k + 1) - 1 = k
      OBVIOUS
    <3>4. B(k) = A(k + 1)
      BY <3>1, <3>3
    <3>5. B(k) \in Nat /\ B(k) <= N
      BY <3>1, <1>1
    <3>6. k # m + 1
      BY <1>4, <2>3
    <3> HIDE DEF A, B
    <3> QED BY <2>1, <3>1, <3>2, <3>4, <3>5, <3>6
  <2> QED BY <1>4, <2>2, <2>3
<1>8. ASSUME NEW k \in 1 .. m + 1, NEW i \in A(k) + 1 .. B(k), text[i] = LF
      PROVE  i = B(k) /\ k < m + 1
  <2>1. i \in 1 .. N /\ A(k) < i /\ i <= B(k)
    <3>1. A(k) \in Nat /\ B(k) \in Nat /\ B(k) <= N
      BY <1>7
    <3> HIDE DEF A, B
    <3> QED BY <1>1, <3>1
  <2>2. PICK j \in 1 .. m : s[j] = i
    BY <1>4, <1>8, <2>1
  <2>3. j >= k
    <3> SUFFICES ASSUME j < k PROVE FALSE
      BY <1>4
    <3>1. k # 1 /\ k - 1 \in 1 .. m /\ (j = k - 1 \/ j < k - 1)
      BY <1>4
    <3>2. A(k) = s[k - 1]
      BY <3>1
    <3>3. s[j] = s[k - 1] \/ s[j] < s[k - 1]
      BY <1>4, <3>1
    <3>4. s[k - 1] \in Nat
      BY <1>4, <3>1
    <3> QED BY <2>1, <2>2, <3>2, <3>3, <3>4
  <2>4. k \in 1 .. m /\ (j = k \/ k < j)
    BY <1>4, <2>3
  <2>5. B(k) = s[k]
    BY <2>4
  <2>6. k < j => s[k] < s[j]
    BY <1>4, <2>4
  <2>7. s[k] \in Nat
    BY <1>4, <2>4
  <2>8. i = B(k)
    BY <2>1, <2>2, <2>4, <2>5, <2>6, <2>7
  <2> QED BY <2>4, <2>8, <1>4
<1>9. A(1) = 0 /\ m + 1 \in Nat \ {0}
  BY <1>4
<1>10. Start(text, 1) = 0 /\ NumLines(text) \in Nat \ {0} /\ N \in Nat
  BY <1>1, <1>5, <1>9
<1> HIDE DEF A, B
<1>11. \A k \in 1 .. NumLines(text) :
              /\ Start(text, k) \in Nat /\ Stop(text, k) \in Nat
              /\ Start(text, k) <= Stop(text, k) /\ Stop(text, k) <= N
              /\ k < NumLines(text) =>
                   /\ Start(text, k) < Stop(text, k) /\ text[Stop(text, k)] = LF
                   /\ Stop(text, k) = Start(text, k + 1)
              /\ k = NumLines(text) => Stop(text, k) = N
              /\ \A i \in Start(text, k) + 1 .. Stop(text, k) :
                   text[i] = LF => i = Stop(text, k) /\ k < NumLines(text)
  BY <1>5, <1>7, <1>8
<1> QED BY <1>10, <1>11 DEF N

\* The lines of load_string are those.
LEMMA LinesAre ==
  ASSUME NEW text \in Seq(STRING)
  PROVE  LET lines == load_string(text).lines
         IN  /\ lines \in Seq(Seq(Nat)) /\ Len(lines) = NumLines(text)
             /\ \A k \in 1 .. NumLines(text) : lines[k] = chars(Start(text, k), Stop(text, k))
<1> DEFINE s == AllEnds(text)
           first == <<0>> \o s
           last  == Append(s, Len(text))
           lines == load_string(text).lines
<1>1. Len(text) \in Nat /\ s \in Seq(Nat) /\ Len(s) \in Nat
  <2>1. Len(text) \in 0 .. Len(text)
    BY LenProperties
  <2>2. s \in Seq(Nat)
    BY <2>1, EndsAreNewlines DEF Newlines, AllEnds
  <2> QED BY <2>1, <2>2, LenProperties
<1>2. lines = [k \in DOMAIN first |-> chars(first[k], last[k])]
  BY DEF load_string, split_after_newline, AllEnds
<1>3. /\ first \in Seq(Nat) /\ Len(first) = Len(s) + 1
      /\ \A k \in 1 .. Len(s) + 1 : first[k] = IF k <= 1 THEN <<0>>[k] ELSE s[k - 1]
  <2> DEFINE z == <<0>>
  <2>1. z \in Seq(Nat) /\ Len(z) = 1
    OBVIOUS
  <2> HIDE DEF s, z
  <2> QED BY <1>1, <2>1, ConcatProperties DEF z
<1>4. /\ Len(last) = Len(s) + 1 /\ last[Len(s) + 1] = Len(text)
      /\ \A k \in 1 .. Len(s) : last[k] = s[k]
  <2> HIDE DEF s
  <2> QED BY <1>1, AppendProperties
<1> HIDE DEF s, first, last
<1>5. NumLines(text) = Len(s) + 1
  BY DEF NumLines, s
<1>6. ASSUME NEW k \in 1 .. Len(s) + 1
      PROVE  first[k] = Start(text, k) /\ last[k] = Stop(text, k)
  <2>1. k = 1 \/ ~(k <= 1)
    OBVIOUS
  <2>2. k = Len(s) + 1 \/ k \in 1 .. Len(s)
    BY <1>1
  <2>3. first[k] = Start(text, k)
    BY <1>3, <2>1 DEF Start, s
  <2>4. last[k] = Stop(text, k)
    <3>1. CASE k = Len(s) + 1
      BY <1>1, <1>4, <3>1 DEF Stop, s
    <3>2. CASE k \in 1 .. Len(s)
      BY <1>1, <1>4, <3>2 DEF Stop, s
    <3> QED BY <2>2, <3>1, <3>2
  <2> QED BY <2>3, <2>4
<1>7. DOMAIN first = 1 .. Len(s) + 1
  BY <1>3, LenProperties
<1>8. lines = [k \in 1 .. Len(s) + 1 |-> chars(Start(text, k), Stop(text, k))]
  BY <1>2, <1>6, <1>7
<1>9. \A k \in 1 .. Len(s) + 1 : chars(Start(text, k), Stop(text, k)) \in Seq(Nat)
  BY <1>5, LineBounds, CharsAre DEF IsChars
<1> HIDE DEF lines
<1>10. lines \in Seq(Seq(Nat)) /\ Len(lines) = Len(s) + 1
  <2> DEFINE S == Seq(Nat)
             c(k) == chars(Start(text, k), Stop(text, k))
  <2>1. \A k \in 1 .. Len(s) + 1 : c(k) \in S
    BY <1>9
  <2>2. lines = [k \in 1 .. Len(s) + 1 |-> c(k)] /\ Len(s) + 1 \in Nat
    BY <1>1, <1>8
  <2> HIDE DEF S, c
  <2> QED BY <2>1, <2>2 DEF S
<1> QED BY <1>5, <1>8, <1>10 DEF lines

\* The line of a point and how far it is from its start.
LEMMA PointIs ==
  ASSUME NEW text \in Seq(STRING), NEW o \in 0 .. Len(text)
  PROVE  LET pt == PointAt(text, o)
             k  == pt.row + 1
         IN  /\ pt.row \in Nat /\ pt.column \in Nat /\ k \in 1 .. NumLines(text)
             /\ o = Start(text, k) + pt.column
             /\ o <= Stop(text, k)
             /\ k < NumLines(text) => o < Stop(text, k)
<1> DEFINE s == line_ends(text)[o]
           t == AllEnds(text)
<1>1. Len(text) \in Nat /\ Len(text) \in o .. Len(text) /\ o \in Nat
  BY LenProperties
<1>2. Newlines(s, text, o)
  BY EndsAreNewlines
<1>3. /\ Len(s) <= Len(t)
      /\ \A k \in 1 .. Len(s) : t[k] = s[k]
      /\ \A k \in Len(s) + 1 .. Len(t) : t[k] > o
  BY <1>1, EndsGrow DEF AllEnds
<1>4. Len(s) \in Nat /\ Len(t) \in Nat /\ s \in Seq(Nat)
  <2>1. s \in Seq(Nat) /\ t \in Seq(Nat)
    <3>1. Newlines(t, text, Len(text))
      BY <1>1, EndsAreNewlines DEF AllEnds
    <3> QED BY <1>2, <3>1 DEF Newlines
  <2> QED BY <2>1, LenProperties
<1> DEFINE pt == PointAt(text, o)
<1>5. pt.row = Len(s) /\ pt.column = IF s = <<>> THEN o ELSE o - s[Len(s)]
  BY DEF PointAt, Last
<1>6. NumLines(text) = Len(t) + 1
  BY DEF NumLines
<1>7. Start(text, Len(s) + 1) = IF s = <<>> THEN 0 ELSE s[Len(s)]
  <2>1. CASE s = <<>>
    BY <2>1 DEF Start
  <2>2. CASE s # <<>>
    <3>1. Len(s) \in 1 .. Len(s) /\ Len(s) + 1 # 1 /\ (Len(s) + 1) - 1 = Len(s)
      BY <1>4, <2>2, EmptySeq
    <3> HIDE DEF s
    <3> QED BY <1>3, <2>2, <3>1 DEF Start
  <2> QED BY <2>1, <2>2
<1>8. s # <<>> => s[Len(s)] \in 1 .. o
  <2>1. s # <<>> => Len(s) \in 1 .. Len(s)
    BY <1>4, EmptySeq
  <2> HIDE DEF s
  <2> QED BY <1>2, <2>1 DEF Newlines
<1>9. /\ Len(s) < Len(t) => Stop(text, Len(s) + 1) > o
      /\ Len(s) = Len(t) => Stop(text, Len(s) + 1) = Len(text)
  <2>1. Stop(text, Len(s) + 1) = IF Len(s) + 1 <= Len(t) THEN t[Len(s) + 1] ELSE Len(text)
    BY DEF Stop
  <2> HIDE DEF s, t
  <2>2. ASSUME Len(s) < Len(t) PROVE t[Len(s) + 1] > o
    <3>1. Len(s) + 1 \in Len(s) + 1 .. Len(t)
      BY <1>4, <2>2
    <3> QED BY <1>3, <3>1
  <2> QED BY <1>4, <2>1, <2>2
<1> DEFINE k == pt.row + 1
<1>10. k \in 1 .. NumLines(text)
  <2> HIDE DEF s, t, pt
  <2> QED BY <1>3, <1>4, <1>5, <1>6
<1>11. Stop(text, k) \in Nat /\ Stop(text, k) <= Len(text)
  BY <1>10, LineBounds
<1> HIDE DEF s, t, pt
<1>12. pt.column \in Nat /\ o = Start(text, Len(s) + 1) + pt.column
  BY <1>1, <1>4, <1>5, <1>7, <1>8
<1>13. k = Len(s) + 1
  BY <1>5
<1> HIDE DEF k
<1>14. o <= Stop(text, k) /\ (k < NumLines(text) => o < Stop(text, k))
  BY <1>1, <1>3, <1>4, <1>6, <1>9, <1>11, <1>13
<1>15. pt.row \in Nat /\ k \in 1 .. NumLines(text)
  BY <1>4, <1>5, <1>10
<1> QED BY <1>12, <1>13, <1>14, <1>15 DEF pt, k

\* Different places have different points.
LEMMA OffsetIs ==
  ASSUME NEW text \in Seq(STRING), NEW o \in 0 .. Len(text)
  PROVE  Offset(load_string(text), PointAt(text, o)) = o
<1> DEFINE pt == PointAt(text, o)
           q == CHOOSE q \in 0 .. Len(text) : PointAt(text, q) = pt
<1>1. load_string(text).text = text
  BY DEF load_string
<1>2. Offset(load_string(text), pt) = q
  BY <1>1 DEF Offset
<1>3. q \in 0 .. Len(text) /\ PointAt(text, q) = pt
  OBVIOUS
<1> HIDE DEF q
<1>4. q = Start(text, PointAt(text, q).row + 1) + PointAt(text, q).column
  BY <1>3, PointIs
<1>5. o = Start(text, pt.row + 1) + pt.column
  BY PointIs
<1> QED BY <1>2, <1>3, <1>4, <1>5

-----------------------------------------------------------------------------
(* FlattenSeq *)

\* g has the first sequences of F put together, for each number of them.
Flattens(g, F) ==
  g = [i \in 1 .. Len(F) |-> IF i = 1 THEN F[i] ELSE g[i - 1] \o F[i]]

LEMMA FlattensExists ==
  ASSUME NEW S, NEW F \in Seq(Seq(S))
  PROVE  \E g : Flattens(g, F)
<1> DEFINE N == Len(F)
           R == Seq(S)
           H == [i \in 1 .. N |-> [s \in R |-> s \o F[i]]]
           a == <<>>
<1>1. N \in Nat /\ a \in R /\ \A i \in 1 .. N : F[i] \in R
  BY LenProperties, ElementOfSeq
<1>2. H \in [1 .. N -> [R -> R]]
  <2>1. \A i \in 1 .. N, s \in R : s \o F[i] \in R
    BY <1>1, ConcatProperties
  <2> HIDE DEF R, N
  <2> QED BY <2>1
<1>3. PICK fn : MadeBy(fn, a, H, N, R)
  <2> HIDE DEF N, R, H, a
  <2> QED BY <1>1, <1>2, Steps
<1> DEFINE g == [i \in 1 .. N |-> fn[i]]
<1>4. ASSUME NEW i \in 1 .. N PROVE fn[i - 1] \in R /\ fn[i] = fn[i - 1] \o F[i]
  <2>1. i - 1 \in 0 .. N
    BY <1>1
  <2>2. fn[i - 1] \in R /\ fn[i] = H[i][fn[i - 1]]
    <3> HIDE DEF N, R, H, a
    <3> QED BY <1>3, <2>1 DEF MadeBy
  <2>3. H[i] = [s \in R |-> s \o F[i]]
    OBVIOUS
  <2> HIDE DEF R, H
  <2> QED BY <2>2, <2>3
<1>5. fn[0] = a
  BY <1>3 DEF MadeBy
<1>6. ASSUME NEW i \in 1 .. N PROVE fn[i] = IF i = 1 THEN F[i] ELSE g[i - 1] \o F[i]
  <2>1. CASE i = 1
    <3>1. fn[1] = a \o F[1]
      <4> HIDE DEF N, R, H, a
      <4>1. fn[i] = fn[i - 1] \o F[i]
        BY <1>4
      <4>2. i - 1 = 0
        BY <2>1
      <4> QED BY <1>5, <2>1, <4>1, <4>2
    <3>2. F[1] \in Seq(S)
      BY <1>1, <2>1
    <3> QED BY <2>1, <3>1, <3>2, ConcatEmptySeq
  <2>2. CASE i # 1
    <3>1. i - 1 \in 1 .. N
      BY <1>1, <2>2
    <3>2. g[i - 1] = fn[i - 1]
      BY <3>1
    <3> QED BY <1>4, <2>2, <3>2
  <2> QED BY <2>1, <2>2
<1>7. g = [i \in 1 .. N |-> IF i = 1 THEN F[i] ELSE g[i - 1] \o F[i]]
  BY <1>6
<1> QED BY <1>7 DEF Flattens

LEMMA FlattensIs ==
  ASSUME NEW F, Len(F) # 0, \E g : Flattens(g, F)
  PROVE  \E g : Flattens(g, F) /\ FlattenSeq(F) = g[Len(F)]
<1> DEFINE g == CHOOSE g : Flattens(g, F)
<1>1. Flattens(g, F)
  OBVIOUS
<1>2. FlattenSeq(F) = g[Len(F)]
  BY DEF FlattenSeq, Flattens
<1> QED BY <1>1, <1>2

\* G continues F.
Continues(G, F) ==
  /\ Len(F) \in Nat /\ Len(G) \in Nat /\ Len(F) <= Len(G)
  /\ \A i \in 1 .. Len(F) : G[i] = F[i]

LEMMA FlattensTwo ==
  ASSUME NEW F, NEW G, NEW g, NEW h, Flattens(g, F), Flattens(h, G), Continues(G, F),
         NEW i \in 1 .. Len(F)
  PROVE  h[i] = g[i]
<1> DEFINE T == {n \in Nat : n + 1 <= Len(F) => h[n + 1] = g[n + 1]}
<1> USE DEF Continues
<1>1. /\ \A k \in 1 .. Len(F) : g[k] = IF k = 1 THEN F[k] ELSE g[k - 1] \o F[k]
      /\ \A k \in 1 .. Len(G) : h[k] = IF k = 1 THEN G[k] ELSE h[k - 1] \o G[k]
  BY DEF Flattens
<1>2. 0 \in T
  BY <1>1
<1>3. ASSUME NEW n \in Nat, n \in T
      PROVE  n + 1 \in T
  <2> SUFFICES ASSUME (n + 1) + 1 <= Len(F)
               PROVE  h[(n + 1) + 1] = g[(n + 1) + 1]
    OBVIOUS
  <2> DEFINE k == (n + 1) + 1
  <2>1. k \in 1 .. Len(F) /\ k \in 1 .. Len(G) /\ k # 1 /\ k - 1 = n + 1
    OBVIOUS
  <2>2. h[n + 1] = g[n + 1]
    BY <1>3
  <2> HIDE DEF k
  <2>3. h[k] = g[k]
    BY <1>1, <2>1, <2>2
  <2> QED BY <2>3 DEF k
<1>4. i - 1 \in T /\ (i - 1) + 1 = i
  <2> HIDE DEF T
  <2> QED BY <1>2, <1>3, SetInd
<1> QED BY <1>4

LEMMA FlatEmpty == FlattenSeq(<<>>) = <<>>
BY DEF FlattenSeq

LEMMA FlatAppend ==
  ASSUME NEW S, NEW F \in Seq(Seq(S)), NEW x \in Seq(S)
  PROVE  FlattenSeq(Append(F, x)) = FlattenSeq(F) \o x
<1> DEFINE G == Append(F, x)
           n == Len(F)
           R == Seq(S)
<1>1. /\ G \in Seq(R) /\ Len(G) = n + 1 /\ n \in Nat /\ G[n + 1] = x
      /\ \A i \in 1 .. n : G[i] = F[i]
  <2> HIDE DEF R
  <2> QED BY AppendProperties, LenProperties DEF R
<1>2. PICK h : Flattens(h, G) /\ FlattenSeq(G) = h[n + 1]
  <2>1. Len(G) # 0
    BY <1>1
  <2> HIDE DEF G, n
  <2> QED BY <1>1, <2>1, FlattensExists, FlattensIs
<1> HIDE DEF G, n
<1>3. h[n + 1] = IF n + 1 = 1 THEN G[n + 1] ELSE h[(n + 1) - 1] \o G[n + 1]
  <2>1. h = [i \in 1 .. n + 1 |-> IF i = 1 THEN G[i] ELSE h[i - 1] \o G[i]]
    BY <1>1, <1>2 DEF Flattens
  <2>2. n + 1 \in 1 .. n + 1
    BY <1>1
  <2> QED BY <2>1, <2>2
<1>4. CASE n = 0
  <2>1. F = <<>>
    BY <1>4, EmptySeq DEF n
  <2>2. <<>> \o x = x
    BY ConcatEmptySeq
  <2> QED BY <1>1, <1>2, <1>3, <1>4, <2>1, <2>2, FlatEmpty DEF G
<1>5. CASE n # 0
  <2>1. PICK g : Flattens(g, F) /\ FlattenSeq(F) = g[n]
    BY <1>5, FlattensExists, FlattensIs DEF n
  <2>2. n \in 1 .. n /\ n <= n + 1 /\ (n + 1) - 1 = n /\ n + 1 # 1
    BY <1>1, <1>5
  <2>3. h[n] = g[n]
    <3>1. Continues(G, F) /\ n \in 1 .. Len(F)
      BY <1>1, <2>2 DEF n, Continues
    <3> QED BY <1>2, <2>1, <3>1, FlattensTwo
  <2> QED BY <1>1, <1>2, <1>3, <2>1, <2>2, <2>3 DEF G
<1> QED BY <1>4, <1>5

LEMMA FlatType ==
  ASSUME NEW S, NEW F \in Seq(Seq(S))
  PROVE  FlattenSeq(F) \in Seq(S)
<1> DEFINE R == Seq(S)
           T == {G \in Seq(R) : FlattenSeq(G) \in R}
<1>1. <<>> \in T
  <2>1. <<>> \in R /\ <<>> \in Seq(R)
    OBVIOUS
  <2> HIDE DEF R
  <2> QED BY <2>1, FlatEmpty
<1>2. ASSUME NEW G \in Seq(R), NEW x \in R, G \in T
      PROVE  Append(G, x) \in T
  <2>1. FlattenSeq(Append(G, x)) = FlattenSeq(G) \o x
    BY FlatAppend
  <2>2. FlattenSeq(G) \o x \in R
    BY <1>2, ConcatProperties
  <2>3. Append(G, x) \in Seq(R)
    BY AppendProperties
  <2> QED BY <2>1, <2>2, <2>3
<1>3. Seq(R) \subseteq T
  <2> HIDE DEF R, T
  <2> QED BY <1>1, <1>2, SeqInd
<1> QED BY <1>3

\* FlattenSeq of two lists together.
LEMMA FlatConcat ==
  ASSUME NEW S, NEW F \in Seq(Seq(S)), NEW G \in Seq(Seq(S))
  PROVE  FlattenSeq(F \o G) = FlattenSeq(F) \o FlattenSeq(G)
<1> DEFINE R == Seq(S)
           T == {E \in Seq(R) : FlattenSeq(F \o E) = FlattenSeq(F) \o FlattenSeq(E)}
<1>0. F \in Seq(R) /\ FlattenSeq(F) \in R
  BY FlatType
<1>1. <<>> \in T
  <2>1. F \o <<>> = F
    <3> HIDE DEF R
    <3> QED BY <1>0, ConcatEmptySeq
  <2>2. FlattenSeq(F) \o <<>> = FlattenSeq(F)
    BY <1>0, ConcatEmptySeq
  <2>3. <<>> \in Seq(R)
    OBVIOUS
  <2> HIDE DEF R
  <2> QED BY <2>1, <2>2, <2>3, FlatEmpty
<1>2. ASSUME NEW E \in Seq(R), NEW x \in R, E \in T
      PROVE  Append(E, x) \in T
  <2>1. Append(E, x) \in Seq(R) /\ F \o E \in Seq(R)
    <3> HIDE DEF R
    <3> QED BY <1>0, AppendProperties, ConcatProperties
  <2>2. F \o Append(E, x) = Append(F \o E, x)
    <3> HIDE DEF R
    <3> DEFINE y == <<x>>
    <3>1. y \in Seq(R)
      OBVIOUS
    <3>2. Append(E, x) = E \o y /\ Append(F \o E, x) = (F \o E) \o y
      BY <2>1, AppendIsConcat
    <3>3. (F \o E) \o y = F \o (E \o y)
      <4> HIDE DEF y
      <4> QED BY <1>0, <3>1, ConcatAssociative
    <3> QED BY <3>2, <3>3
  <2>3. FlattenSeq(Append(E, x)) = FlattenSeq(E) \o x /\ FlattenSeq(E) \in Seq(S) /\ x \in Seq(S)
    BY FlatAppend, FlatType
  <2>4. FlattenSeq(Append(F \o E, x)) = FlattenSeq(F \o E) \o x
    BY <2>1, FlatAppend
  <2>5. (FlattenSeq(F) \o FlattenSeq(E)) \o x = FlattenSeq(F) \o (FlattenSeq(E) \o x)
    <3> DEFINE A == FlattenSeq(F)
               B == FlattenSeq(E)
    <3>1. A \in Seq(S) /\ B \in Seq(S) /\ x \in Seq(S)
      BY <1>0, <2>3
    <3> HIDE DEF A, B
    <3>2. (A \o B) \o x = A \o (B \o x)
      BY <3>1, ConcatAssociative
    <3> QED BY <3>2 DEF A, B
  <2> QED BY <1>2, <2>1, <2>2, <2>3, <2>4, <2>5
<1>3. Seq(R) \subseteq T
  <2> HIDE DEF R, T
  <2> QED BY <1>1, <1>2, SeqInd
<1> QED BY <1>3

LEMMA FlatOne ==
  ASSUME NEW S, NEW x \in Seq(S)
  PROVE  FlattenSeq(<<x>>) = x
<1>1. <<>> \in Seq(Seq(S)) /\ Append(<<>>, x) = <<x>> /\ <<>> \o x = x
  BY ConcatEmptySeq
<1> QED BY <1>1, FlatAppend, FlatEmpty

-----------------------------------------------------------------------------
(* The text of a region *)

\* Characters that follow each other.
LEMMA CharsConcat ==
  ASSUME NEW a \in Nat, NEW b \in Nat, NEW c \in Nat, a <= b, b <= c
  PROVE  chars(a, b) \o chars(b, c) = chars(a, c)
<1> DEFINE s == chars(a, b)
           t == chars(b, c)
           u == chars(a, c)
<1>1. /\ s \in Seq(Nat) /\ Len(s) = b - a /\ \A i \in 1 .. b - a : s[i] = a + i
      /\ t \in Seq(Nat) /\ Len(t) = c - b /\ \A i \in 1 .. c - b : t[i] = b + i
      /\ u \in Seq(Nat) /\ Len(u) = c - a /\ \A i \in 1 .. c - a : u[i] = a + i
  <2>1. IsChars(s, a, b) /\ IsChars(t, b, c) /\ IsChars(u, a, c)
    BY CharsAre
  <2> QED BY <2>1 DEF IsChars
<1> HIDE DEF s, t, u
<1> DEFINE v == s \o t
<1>2. /\ v \in Seq(Nat) /\ Len(v) = Len(s) + Len(t)
      /\ \A i \in 1 .. Len(s) + Len(t) : v[i] = IF i <= Len(s) THEN s[i] ELSE t[i - Len(s)]
  BY <1>1, ConcatProperties
<1> HIDE DEF v
<1>3. Len(v) = c - a
  BY <1>1, <1>2
<1>4. ASSUME NEW i \in 1 .. c - a PROVE v[i] = u[i]
  <2>1. CASE i <= b - a
    BY <1>1, <1>2, <2>1
  <2>2. CASE ~(i <= b - a)
    <3>1. i - (b - a) \in 1 .. c - b
      BY <2>2
    <3>2. v[i] = t[i - (b - a)]
      BY <1>1, <1>2, <2>2
    <3> QED BY <1>1, <3>1, <3>2
  <2> QED BY <2>1, <2>2
<1> QED BY <1>1, <1>2, <1>3, <1>4, SeqEqual DEF s, t, u, v

LEMMA CharsPart ==
  ASSUME NEW a \in Nat, NEW b \in Nat, NEW i \in Nat, NEW j \in Nat, i <= j, a + j <= b
  PROVE  SubSeq(chars(a, b), i + 1, j) = chars(a + i, a + j)
<1> DEFINE s == chars(a, b)
           t == SubSeq(s, i + 1, j)
           u == chars(a + i, a + j)
<1>1. s \in Seq(Nat) /\ Len(s) = b - a /\ \A k \in 1 .. b - a : s[k] = a + k
  <2>1. IsChars(s, a, b)
    BY CharsAre
  <2> QED BY <2>1 DEF IsChars
<1>2. u \in Seq(Nat) /\ Len(u) = j - i /\ \A k \in 1 .. j - i : u[k] = a + i + k
  <2>1. a + i \in Nat /\ a + j \in Nat /\ a + i <= a + j
    OBVIOUS
  <2>2. IsChars(u, a + i, a + j)
    BY <2>1, CharsAre
  <2> HIDE DEF u
  <2> QED BY <2>2 DEF IsChars
<1> HIDE DEF s, u
<1>3. \A k \in i + 1 .. j : s[k] \in Nat /\ s[k] = a + k
  BY <1>1
<1>4. /\ t \in Seq(Nat) /\ Len(t) = IF i + 1 <= j THEN j - (i + 1) + 1 ELSE 0
      /\ \A k \in 1 .. j - (i + 1) + 1 : t[k] = s[(i + 1) + k - 1]
  BY <1>3, SubSeqProperties
<1> HIDE DEF t
<1>5. Len(t) = j - i
  BY <1>4
<1>6. ASSUME NEW k \in 1 .. j - i PROVE t[k] = u[k]
  <2>1. t[k] = s[i + k]
    <3>1. k \in 1 .. j - (i + 1) + 1 /\ (i + 1) + k - 1 = i + k
      OBVIOUS
    <3> QED BY <1>4, <3>1
  <2>2. s[i + k] = a + (i + k)
    BY <1>3
  <2> QED BY <1>2, <2>1, <2>2
<1> QED BY <1>2, <1>4, <1>5, <1>6, SeqEqual DEF t, u, s

LEMMA StopsGrow ==
  ASSUME NEW text \in Seq(STRING), NEW s \in 1 .. NumLines(text), NEW n \in Nat, s + n \in 1 .. NumLines(text)
  PROVE  Stop(text, s) <= Stop(text, s + n)
<1> DEFINE T == {k \in Nat : s + k \in 1 .. NumLines(text) => Stop(text, s) <= Stop(text, s + k)}
<1>1. NumLines(text) \in Nat /\ s \in Nat
  BY LineBounds
<1>2. 0 \in T
  <2>1. s + 0 = s /\ Stop(text, s) \in Nat
    BY <1>1, LineBounds
  <2> QED BY <2>1
<1>3. ASSUME NEW k \in Nat, k \in T
      PROVE  k + 1 \in T
  <2> SUFFICES ASSUME s + (k + 1) \in 1 .. NumLines(text)
               PROVE  Stop(text, s) <= Stop(text, s + (k + 1))
    OBVIOUS
  <2>1. s + k \in 1 .. NumLines(text) /\ s + k < NumLines(text) /\ (s + k) + 1 = s + (k + 1)
    BY <1>1
  <2>2. Stop(text, s) <= Stop(text, s + k)
    BY <1>3, <2>1
  <2>3. Stop(text, s + k) = Start(text, s + (k + 1))
    <3>1. Stop(text, s + k) = Start(text, (s + k) + 1)
      BY <2>1, LineBounds
    <3> QED BY <2>1, <3>1
  <2>4. /\ Start(text, s + (k + 1)) <= Stop(text, s + (k + 1))
        /\ Stop(text, s) \in Nat /\ Stop(text, s + k) \in Nat /\ Stop(text, s + (k + 1)) \in Nat
    BY <2>1, LineBounds
  <2> QED BY <2>2, <2>3, <2>4
<1>4. n \in T
  <2> HIDE DEF T
  <2> QED BY <1>2, <1>3, SetInd
<1> QED BY <1>4

\* Whole lines that follow each other.
LEMMA LinesTogether ==
  ASSUME NEW text \in Seq(STRING), NEW s \in 1 .. NumLines(text), NEW m \in Nat, s + m <= NumLines(text)
  PROVE  FlattenSeq([k \in 1 .. m |-> load_string(text).lines[s + k]]) = chars(Stop(text, s), Stop(text, s + m))
<1> DEFINE lines == load_string(text).lines
           M(n) == [k \in 1 .. n |-> lines[s + k]]
           T == {n \in Nat : s + n <= NumLines(text) =>
                               FlattenSeq(M(n)) = chars(Stop(text, s), Stop(text, s + n))}
<1>1. NumLines(text) \in Nat
  BY LineBounds
<1>2. \A k \in 1 .. NumLines(text) : lines[k] \in Seq(Nat) /\ lines[k] = chars(Start(text, k), Stop(text, k))
                                       /\ Start(text, k) \in Nat /\ Stop(text, k) \in Nat /\ Start(text, k) <= Stop(text, k)
  <2> SUFFICES ASSUME NEW k \in 1 .. NumLines(text)
               PROVE  lines[k] \in Seq(Nat) /\ lines[k] = chars(Start(text, k), Stop(text, k))
                        /\ Start(text, k) \in Nat /\ Stop(text, k) \in Nat /\ Start(text, k) <= Stop(text, k)
    OBVIOUS
  <2>1. Start(text, k) \in Nat /\ Stop(text, k) \in Nat /\ Start(text, k) <= Stop(text, k)
    BY LineBounds
  <2>2. lines[k] = chars(Start(text, k), Stop(text, k))
    BY LinesAre
  <2>3. IsChars(chars(Start(text, k), Stop(text, k)), Start(text, k), Stop(text, k))
    BY <2>1, CharsAre
  <2> QED BY <2>1, <2>2, <2>3 DEF IsChars
<1> HIDE DEF lines
<1>3. 0 \in T
  <2>1. M(0) = <<>>
    OBVIOUS
  <2>2. chars(Stop(text, s), Stop(text, s)) = <<>>
    <3> DEFINE c == chars(Stop(text, s), Stop(text, s))
    <3>1. c \in Seq(Nat) /\ Len(c) = 0
      <4>1. Stop(text, s) \in Nat
        BY <1>2
      <4>2. IsChars(c, Stop(text, s), Stop(text, s))
        BY <4>1, CharsAre
      <4> HIDE DEF c
      <4> QED BY <4>1, <4>2 DEF IsChars
    <3> HIDE DEF c
    <3>2. c = <<>>
      BY <3>1, EmptySeq
    <3> QED BY <3>2 DEF c
  <2>3. s + 0 = s
    BY <1>1
  <2> HIDE DEF M
  <2> QED BY <2>1, <2>2, <2>3, FlatEmpty
<1>4. ASSUME NEW n \in Nat, n \in T
      PROVE  n + 1 \in T
  <2> SUFFICES ASSUME s + (n + 1) <= NumLines(text)
               PROVE  FlattenSeq(M(n + 1)) = chars(Stop(text, s), Stop(text, s + (n + 1)))
    OBVIOUS
  <2> DEFINE x == lines[s + (n + 1)]
  <2>1. /\ s + n \in 1 .. NumLines(text) /\ s + (n + 1) \in 1 .. NumLines(text) /\ s + n < NumLines(text)
        /\ (s + n) + 1 = s + (n + 1)
    BY <1>1
  <2>2. FlattenSeq(M(n)) = chars(Stop(text, s), Stop(text, s + n))
    BY <1>1, <1>4
  <2>3. M(n) \in Seq(Seq(Nat)) /\ x \in Seq(Nat)
    <3> DEFINE R == Seq(Nat)
    <3>1. \A k \in 1 .. n : lines[s + k] \in R
      <4>1. \A k \in 1 .. n : s + k \in 1 .. NumLines(text)
        BY <1>1
      <4> QED BY <1>2, <4>1
    <3> HIDE DEF R
    <3>2. M(n) \in Seq(R)
      BY <3>1
    <3> QED BY <1>2, <2>1, <3>2 DEF R
  <2>4. M(n + 1) = Append(M(n), x)
    <3>1. Len(M(n)) = n
      OBVIOUS
    <3> QED BY <3>1
  <2>5. FlattenSeq(M(n + 1)) = FlattenSeq(M(n)) \o x
    <3> HIDE DEF M, x
    <3> QED BY <2>3, <2>4, FlatAppend
  <2>6. x = chars(Stop(text, s + n), Stop(text, s + (n + 1)))
    <3>1. Stop(text, s + n) = Start(text, s + (n + 1))
      <4>1. Stop(text, s + n) = Start(text, (s + n) + 1)
        BY <2>1, LineBounds
      <4> QED BY <2>1, <4>1
    <3> QED BY <1>2, <2>1, <3>1
  <2>7. /\ Stop(text, s) \in Nat /\ Stop(text, s + n) \in Nat /\ Stop(text, s + (n + 1)) \in Nat
        /\ Stop(text, s + n) <= Stop(text, s + (n + 1))
    <3>1. Stop(text, s + n) = Start(text, s + (n + 1))
      <4>1. Stop(text, s + n) = Start(text, (s + n) + 1)
        BY <2>1, LineBounds
      <4> QED BY <2>1, <4>1
    <3> QED BY <1>2, <2>1, <3>1
  <2>8. Stop(text, s) <= Stop(text, s + n)
    BY <2>1, StopsGrow
  <2>9. chars(Stop(text, s), Stop(text, s + n)) \o chars(Stop(text, s + n), Stop(text, s + (n + 1)))
          = chars(Stop(text, s), Stop(text, s + (n + 1)))
    BY <2>7, <2>8, CharsConcat
  <2> HIDE DEF M, x
  <2> QED BY <2>2, <2>5, <2>6, <2>9
<1>5. m \in T
  <2> HIDE DEF T
  <2> QED BY <1>3, <1>4, SetInd
<1> HIDE DEF M
<1>6. FlattenSeq(M(m)) = chars(Stop(text, s), Stop(text, s + m))
  BY <1>5
<1> QED BY <1>6 DEF M, lines

\* What safe_get_row returns of a row that there is.
LEMMA RowIs ==
  ASSUME NEW text \in Seq(STRING), NEW row \in Nat, row < NumLines(text)
  PROVE  /\ row + 1 \in 1 .. NumLines(text)
         /\ safe_get_row(load_string(text), row) = chars(Start(text, row + 1), Stop(text, row + 1))
         /\ IsChars(safe_get_row(load_string(text), row), Start(text, row + 1), Stop(text, row + 1))
<1> DEFINE src == load_string(text)
           k == row + 1
<1>1. k \in 1 .. NumLines(text) /\ row >= 0 /\ NumLines(text) \in Nat
  BY LineBounds
<1>2. Len(src.lines) = NumLines(text) /\ src.lines[k] = chars(Start(text, k), Stop(text, k))
  BY <1>1, LinesAre
<1>3. Start(text, k) \in Nat /\ Stop(text, k) \in Nat /\ Start(text, k) <= Stop(text, k)
  BY <1>1, LineBounds
<1>4. safe_get_row(src, row) = src.lines[k]
  BY <1>1, <1>2 DEF safe_get_row
<1>5. IsChars(chars(Start(text, k), Stop(text, k)), Start(text, k), Stop(text, k))
  BY <1>3, CharsAre
<1> QED BY <1>1, <1>2, <1>4, <1>5

\* A line ends before a later one starts.
LEMMA LinesInOrder ==
  ASSUME NEW text \in Seq(STRING), NEW j \in 1 .. NumLines(text), NEW k \in 1 .. NumLines(text), j < k
  PROVE  Stop(text, j) <= Start(text, k)
<1>1. NumLines(text) \in Nat
  BY LineBounds
<1> DEFINE n == (k - 1) - j
<1>2. n \in Nat /\ j + n = k - 1 /\ k - 1 \in 1 .. NumLines(text) /\ k - 1 < NumLines(text) /\ (k - 1) + 1 = k
  BY <1>1
<1> HIDE DEF n
<1>3. j + n \in 1 .. NumLines(text)
  BY <1>2
<1>4. Stop(text, j) <= Stop(text, j + n)
  BY <1>2, <1>3, StopsGrow
<1>5. Stop(text, k - 1) = Start(text, (k - 1) + 1)
  BY <1>2, LineBounds
<1> QED BY <1>2, <1>4, <1>5

\* A place is on a line of its own or an earlier one than a later place.
LEMMA RowsInOrder ==
  ASSUME NEW text \in Seq(STRING), NEW a \in 0 .. Len(text), NEW b \in 0 .. Len(text), a <= b
  PROVE  PointAt(text, a).row <= PointAt(text, b).row
<1> DEFINE r == PointAt(text, a).row
           q == PointAt(text, b).row
<1>1. /\ r \in Nat /\ r + 1 \in 1 .. NumLines(text) /\ a >= Start(text, r + 1)
      /\ q \in Nat /\ q + 1 \in 1 .. NumLines(text) /\ (q + 1 < NumLines(text) => b < Stop(text, q + 1))
  <2>1. Start(text, r + 1) \in Nat
    BY PointIs, LineBounds
  <2> QED BY <2>1, PointIs
<1> HIDE DEF r, q
<1>2. CASE q < r
  <2>1. q + 1 < NumLines(text) /\ q + 1 < r + 1 /\ NumLines(text) \in Nat
    BY <1>1, <1>2, LineBounds
  <2>2. Stop(text, q + 1) <= Start(text, r + 1) /\ Stop(text, q + 1) \in Nat /\ Start(text, r + 1) \in Nat
    BY <1>1, <2>1, LinesInOrder, LineBounds
  <2>3. a \in Nat /\ b \in Nat
    BY LenProperties
  <2> QED BY <1>1, <2>1, <2>2, <2>3
<1> QED BY <1>1, <1>2 DEF r, q

LEMMA PartIs ==
  ASSUME NEW a \in Nat, NEW b \in Nat, NEW i \in Nat, NEW j \in Nat, i <= j, a + j <= b
  PROVE  safe_substring(chars(a, b), i, j) = chars(a + i, a + j)
<1> DEFINE s == chars(a, b)
<1>1. Len(s) = b - a
  <2>1. IsChars(s, a, b)
    BY CharsAre
  <2> HIDE DEF s
  <2> QED BY <2>1 DEF IsChars
<1>2. Larger(0, i) = i /\ Smaller(Len(s), j) = j
  <2> HIDE DEF s
  <2> QED BY <1>1 DEF Larger, Smaller
<1>3. SubSeq(s, i + 1, j) = chars(a + i, a + j)
  BY CharsPart
<1> HIDE DEF s
<1>4. safe_substring(s, i, j) = chars(a + i, a + j)
  BY <1>2, <1>3 DEF safe_substring
<1> QED BY <1>4 DEF s

\* The text of a region is what lies between its points.
LEMMA RegionIs ==
  ASSUME NEW text \in Seq(STRING), NEW a \in 0 .. Len(text), NEW b \in 0 .. Len(text), a <= b
  PROVE  get_region(load_string(text), PointAt(text, a), PointAt(text, b)) = chars(a, b)
<1> DEFINE src == load_string(text)
           start == PointAt(text, a)
           end == PointAt(text, b)
           i == start.row + 1
           j == end.row + 1
           Si == Start(text, i)
           Ei == Stop(text, i)
           Sj == Start(text, j)
           Ej == Stop(text, j)
<1>1. /\ start.row \in Nat /\ start.column \in Nat /\ i \in 1 .. NumLines(text)
      /\ a = Si + start.column /\ a <= Ei
  BY PointIs
<1>2. /\ end.row \in Nat /\ end.column \in Nat /\ j \in 1 .. NumLines(text)
      /\ b = Sj + end.column /\ b <= Ej
  BY PointIs
<1>3. start.row <= end.row
  BY RowsInOrder
<1>4. NumLines(text) \in Nat /\ a \in Nat /\ b \in Nat
  BY LineBounds, LenProperties
<1>5. Si \in Nat /\ Ei \in Nat /\ Sj \in Nat /\ Ej \in Nat
  BY <1>1, <1>2, LineBounds
<1>6. start.row < NumLines(text) /\ end.row < NumLines(text)
  BY <1>1, <1>2, <1>4
<1>7. safe_get_row(src, start.row) = chars(Si, Ei) /\ safe_get_row(src, end.row) = chars(Sj, Ej)
  BY <1>1, <1>2, <1>6, RowIs
<1> HIDE DEF src, start, end
<1>8. CASE start.row = end.row
  <2>1. i = j
    BY <1>8
  <2>2. start.column <= end.column /\ Si + end.column <= Ei
    BY <1>1, <1>2, <1>4, <1>5, <2>1
  <2>3. safe_substring(chars(Si, Ei), start.column, end.column) = chars(Si + start.column, Si + end.column)
    <3> HIDE DEF Si, Ei
    <3> QED BY <1>1, <1>2, <1>5, <2>2, PartIs
  <2>4. get_region(src, start, end) = safe_substring(safe_get_row(src, start.row), start.column, end.column)
    BY <1>8 DEF get_region
  <2> HIDE DEF i, j
  <2> QED BY <1>1, <1>2, <1>7, <2>1, <2>3, <2>4 DEF src, start, end
<1>9. CASE start.row < end.row
  <2> DEFINE first == safe_get_row(src, start.row)
             m == end.row - start.row - 1
             middle == [k \in 1 .. m |-> safe_get_row(src, start.row + k)]
             x == safe_substring(first, start.column, Len(first))
             y == FlattenSeq(middle)
             z == safe_substring(safe_get_row(src, end.row), 0, end.column)
  <2>1. get_region(src, start, end) = x \o y \o z
    <3>1. start.row # end.row /\ ~(start.row > end.row)
      BY <1>1, <1>2, <1>9
    <3> QED BY <3>1 DEF get_region
  <2>2. x = chars(a, Ei)
    <3>1. Len(first) = Ei - Si
      <4>1. IsChars(first, Si, Ei)
        BY <1>1, <1>6, RowIs DEF src
      <4> HIDE DEF first
      <4> QED BY <4>1 DEF IsChars
    <3>2. Ei - Si \in Nat /\ start.column <= Ei - Si /\ Si + (Ei - Si) = Ei
      BY <1>1, <1>4, <1>5
    <3> HIDE DEF Si, Ei
    <3>3. safe_substring(chars(Si, Ei), start.column, Ei - Si) = chars(Si + start.column, Si + (Ei - Si))
      BY <1>1, <1>5, <3>2, PartIs
    <3> QED BY <1>1, <1>7, <3>1, <3>2, <3>3
  <2>3. m \in Nat /\ i + m \in 1 .. NumLines(text) /\ i + m <= NumLines(text) /\ (i + m) + 1 = j
        /\ i + m < NumLines(text) /\ i < j
    <3> DEFINE r == start.row
               q == end.row
               n == NumLines(text)
    <3>1. r \in Nat /\ q \in Nat /\ n \in Nat /\ r + 1 \in 1 .. n /\ q + 1 \in 1 .. n /\ r < q
      BY <1>1, <1>2, <1>4, <1>9
    <3> HIDE DEF r, q, n
    <3>2. /\ q - r - 1 \in Nat /\ (r + 1) + (q - r - 1) \in 1 .. n /\ (r + 1) + (q - r - 1) <= n
          /\ ((r + 1) + (q - r - 1)) + 1 = q + 1 /\ (r + 1) + (q - r - 1) < n /\ r + 1 < q + 1
      BY <3>1
    <3> QED BY <3>2 DEF r, q, n
  <2>4. y = chars(Ei, Sj)
    <3>1. ASSUME NEW k \in 1 .. m
          PROVE  safe_get_row(src, start.row + k) = src.lines[i + k]
      <4>1. start.row + k \in Nat /\ start.row + k < NumLines(text) /\ (start.row + k) + 1 = i + k
        <5> DEFINE r == start.row
                   q == end.row
                   n == NumLines(text)
        <5>1. r \in Nat /\ q \in Nat /\ n \in Nat /\ r + 1 \in 1 .. n /\ q + 1 \in 1 .. n /\ r < q /\ k \in 1 .. q - r - 1
          BY <1>1, <1>2, <1>4, <1>9
        <5> HIDE DEF r, q, n
        <5>2. r + k \in Nat /\ r + k < n /\ (r + k) + 1 = (r + 1) + k
          BY <5>1
        <5> QED BY <5>2 DEF r, q, n
      <4>2. Len(src.lines) = NumLines(text)
        BY LinesAre DEF src
      <4>3. safe_get_row(src, start.row + k) = src.lines[(start.row + k) + 1]
        BY <4>1, <4>2 DEF safe_get_row
      <4> QED BY <4>1, <4>3
    <3>2. middle = [k \in 1 .. m |-> src.lines[i + k]]
      BY <3>1
    <3> HIDE DEF m, i, j
    <3>3. FlattenSeq([k \in 1 .. m |-> src.lines[i + k]]) = chars(Stop(text, i), Stop(text, i + m))
      BY <1>1, <2>3, LinesTogether DEF src
    <3>4. Stop(text, i + m) = Start(text, (i + m) + 1)
      BY <2>3, LineBounds
    <3> QED BY <2>3, <3>2, <3>3, <3>4
  <2>5. z = chars(Sj, b)
    <3> HIDE DEF Sj, Ej
    <3>1. safe_substring(chars(Sj, Ej), 0, end.column) = chars(Sj + 0, Sj + end.column)
      BY <1>2, <1>5, PartIs
    <3>2. Sj + 0 = Sj
      BY <1>5
    <3> QED BY <1>2, <1>7, <3>1, <3>2
  <2>6. Ei <= Sj
    <3> HIDE DEF i, j
    <3> QED BY <1>1, <1>2, <2>3, LinesInOrder
  <2>7. Sj <= b
    BY <1>2, <1>4, <1>5
  <2> HIDE DEF x, y, z, Si, Ei, Sj, Ej
  <2>8. x \o y = chars(a, Sj)
    BY <1>1, <1>4, <1>5, <2>2, <2>4, <2>6, CharsConcat
  <2>9. a <= Sj
    BY <1>1, <1>4, <1>5, <2>6
  <2>10. chars(a, Sj) \o z = chars(a, b)
    BY <1>4, <1>5, <2>5, <2>7, <2>9, CharsConcat
  <2> QED BY <2>1, <2>8, <2>10 DEF src, start, end
<1> QED BY <1>1, <1>2, <1>3, <1>8, <1>9

\* s and t begin and end with the same, or are both empty.
SameEnds(s, t) ==
  /\ s = <<>> <=> t = <<>>
  /\ s # <<>> => s[1] = t[1] /\ s[Len(s)] = t[Len(t)]

ConcatEnds(s, u) ==
  /\ s \o u = <<>> <=> s = <<>> /\ u = <<>>
  /\ s # <<>> => (s \o u)[1] = s[1]
  /\ u # <<>> => (s \o u)[Len(s \o u)] = u[Len(u)]
  /\ s = <<>> => s \o u = u
  /\ u = <<>> => s \o u = s

LEMMA EndsOfConcat ==
  ASSUME NEW S, NEW s \in Seq(S), NEW u \in Seq(S)
  PROVE  ConcatEnds(s, u)
<1> DEFINE v == s \o u
<1>1. /\ Len(v) = Len(s) + Len(u) /\ Len(s) \in Nat /\ Len(u) \in Nat
      /\ \A i \in 1 .. Len(s) + Len(u) : v[i] = IF i <= Len(s) THEN s[i] ELSE u[i - Len(s)]
  BY ConcatProperties, LenProperties
<1>2. (s = <<>> <=> Len(s) = 0) /\ (u = <<>> <=> Len(u) = 0)
  BY EmptySeq
<1>3. /\ v = <<>> <=> s = <<>> /\ u = <<>>
      /\ s = <<>> => v = u
      /\ u = <<>> => v = s
  BY ConcatEqualIffEmpty, ConcatEmptySeq
<1> HIDE DEF v
<1>4. s # <<>> => v[1] = s[1]
  BY <1>1, <1>2
<1>5. ASSUME u # <<>> PROVE v[Len(v)] = u[Len(u)]
  <2>1. Len(v) \in 1 .. Len(s) + Len(u) /\ ~(Len(v) <= Len(s)) /\ Len(v) - Len(s) = Len(u)
    BY <1>1, <1>2, <1>5
  <2>2. v[Len(v)] = u[Len(v) - Len(s)]
    BY <1>1, <2>1
  <2> QED BY <2>1, <2>2
<1> QED BY <1>3, <1>4, <1>5 DEF v, ConcatEnds

LEMMA SameEndsConcat ==
  ASSUME NEW S, NEW s \in Seq(S), NEW t \in Seq(S), NEW u \in Seq(S), NEW v \in Seq(S),
         SameEnds(s, t), SameEnds(u, v)
  PROVE  SameEnds(s \o u, t \o v)
<1> DEFINE x == s \o u
           y == t \o v
<1>1. /\ x = <<>> <=> s = <<>> /\ u = <<>>
      /\ s # <<>> => x[1] = s[1]
      /\ u # <<>> => x[Len(x)] = u[Len(u)]
      /\ s = <<>> => x = u
      /\ u = <<>> => x = s
  BY EndsOfConcat DEF ConcatEnds
<1>2. /\ y = <<>> <=> t = <<>> /\ v = <<>>
      /\ t # <<>> => y[1] = t[1]
      /\ v # <<>> => y[Len(y)] = v[Len(v)]
      /\ t = <<>> => y = v
      /\ v = <<>> => y = t
  BY EndsOfConcat DEF ConcatEnds
<1> HIDE DEF x, y
<1>3. SameEnds(x, y)
  BY <1>1, <1>2 DEF SameEnds
<1> QED BY <1>3 DEF x, y

-----------------------------------------------------------------------------
(* Fragments *)

Fragment    == [kind : {"Normal", "Highlight"}, s : Seq(Nat)]
AnyFragment == [kind : {"Normal", "Highlight", "Ellipsis"}, s : Seq(Nat)]

Chars(s) == {s[i] : i \in DOMAIN s}
Texts(X) == [k \in DOMAIN X |-> X[k].s]

\* y is what is left of a fragment that was x.
LeftOf(y, x) ==
  /\ y.kind \in {x.kind, "Ellipsis"} /\ Chars(y.s) \subseteq Chars(x.s)
  /\ y.kind = "Ellipsis" => y.s = <<>>
  /\ Len(y.s) <= max_length(y)

LEMMA MaxLength ==
  ASSUME NEW x
  PROVE  max_length(x) \in Nat /\ max_length(x) >= 2
BY ReportAssumption DEF max_length

\* What is left of one fragment: itself, or its ends around an ellipsis.
Shortened(F, x) ==
  /\ F \in Seq(AnyFragment)
  /\ F = <<x>> \/ \E k \in DOMAIN F : F[k].kind = "Ellipsis"
  /\ \A k \in DOMAIN F : LeftOf(F[k], x)
  /\ x.s # <<>> => \E k \in DOMAIN F : F[k].kind = x.kind /\ F[k].s # <<>>
  /\ FlattenSeq(Texts(F)) \in Seq(Nat) /\ SameEnds(FlattenSeq(Texts(F)), x.s)

LEMMA TextsType ==
  ASSUME NEW F \in Seq(AnyFragment)
  PROVE  Texts(F) \in Seq(Seq(Nat)) /\ FlattenSeq(Texts(F)) \in Seq(Nat) /\ Len(Texts(F)) = Len(F)
<1> DEFINE R == Seq(Nat)
<1>1. DOMAIN F = 1 .. Len(F) /\ Len(F) \in Nat
  BY LenProperties
<1>2. \A k \in DOMAIN F : F[k].s \in R
  <2>1. \A k \in DOMAIN F : F[k] \in AnyFragment
    BY ElementOfSeq
  <2> QED BY <2>1 DEF AnyFragment
<1>3. Texts(F) \in Seq(R) /\ Len(Texts(F)) = Len(F)
  <2> HIDE DEF R
  <2> QED BY <1>1, <1>2 DEF Texts
<1> QED BY <1>3, FlatType

\* The texts of two lists of fragments together.
LEMMA TextsConcat ==
  ASSUME NEW F \in Seq(AnyFragment), NEW G \in Seq(AnyFragment)
  PROVE  Texts(F \o G) = Texts(F) \o Texts(G)
<1> DEFINE E == F \o G
           x == Texts(E)
           y == Texts(F) \o Texts(G)
           R == Seq(Nat)
<1>1. /\ E \in Seq(AnyFragment) /\ Len(E) = Len(F) + Len(G) /\ Len(F) \in Nat /\ Len(G) \in Nat
      /\ \A i \in 1 .. Len(F) + Len(G) : E[i] = IF i <= Len(F) THEN F[i] ELSE G[i - Len(F)]
      /\ DOMAIN E = 1 .. Len(E) /\ DOMAIN F = 1 .. Len(F) /\ DOMAIN G = 1 .. Len(G)
  BY ConcatProperties, LenProperties
<1>2. x \in Seq(R) /\ Texts(F) \in Seq(R) /\ Texts(G) \in Seq(R)
      /\ Len(x) = Len(E) /\ Len(Texts(F)) = Len(F) /\ Len(Texts(G)) = Len(G)
  BY <1>1, TextsType
<1> HIDE DEF R
<1>3. /\ y \in Seq(R) /\ Len(y) = Len(F) + Len(G)
      /\ \A i \in 1 .. Len(F) + Len(G) : y[i] = IF i <= Len(F) THEN Texts(F)[i] ELSE Texts(G)[i - Len(F)]
  BY <1>2, ConcatProperties
<1> HIDE DEF E, y
<1>4. ASSUME NEW i \in 1 .. Len(F) + Len(G) PROVE x[i] = y[i]
  <2>1. x[i] = E[i].s
    BY <1>1 DEF Texts
  <2>2. CASE i <= Len(F)
    <3>1. i \in DOMAIN F
      BY <1>1, <2>2
    <3> QED BY <1>1, <1>3, <2>1, <2>2, <3>1 DEF Texts
  <2>3. CASE ~(i <= Len(F))
    <3>1. i - Len(F) \in DOMAIN G
      BY <1>1, <2>3
    <3> QED BY <1>1, <1>3, <2>1, <2>3, <3>1 DEF Texts
  <2> QED BY <2>2, <2>3
<1> HIDE DEF x
<1>5. x = y
  BY <1>1, <1>2, <1>3, <1>4, SeqEqual
<1> QED BY <1>5 DEF x, y, E

-----------------------------------------------------------------------------
(* Shortened lines *)

\* A part of a sequence.
IsPart(t, s, i, j) ==
  /\ t = SubSeq(s, i + 1, j) /\ t \in Seq(Nat) /\ Len(t) = j - i
  /\ \A k \in 1 .. j - i : t[k] = s[i + k]
  /\ Chars(t) = {s[k] : k \in i + 1 .. j}

LEMMA PartOf ==
  ASSUME NEW s \in Seq(Nat), NEW i \in Nat, NEW j \in Nat, i <= j, j <= Len(s)
  PROVE  IsPart(SubSeq(s, i + 1, j), s, i, j)
<1> DEFINE t == SubSeq(s, i + 1, j)
<1>1. Len(s) \in Nat /\ DOMAIN s = 1 .. Len(s) /\ \A k \in 1 .. Len(s) : s[k] \in Nat
  BY LenProperties, ElementOfSeq
<1>2. \A k \in i + 1 .. j : s[k] \in Nat
  BY <1>1
<1>3. /\ t \in Seq(Nat) /\ Len(t) = IF i + 1 <= j THEN j - (i + 1) + 1 ELSE 0
      /\ \A k \in 1 .. j - (i + 1) + 1 : t[k] = s[(i + 1) + k - 1]
  BY <1>2, SubSeqProperties
<1> HIDE DEF t
<1>4. Len(t) = j - i
  BY <1>3
<1>5. ASSUME NEW k \in 1 .. j - i PROVE t[k] = s[i + k]
  <2>1. k \in 1 .. j - (i + 1) + 1 /\ (i + 1) + k - 1 = i + k
    OBVIOUS
  <2> QED BY <1>3, <2>1
<1>6. DOMAIN t = 1 .. j - i
  BY <1>3, <1>4, LenProperties
<1>7. Chars(t) = {s[k] : k \in i + 1 .. j}
  <2>1. ASSUME NEW k \in 1 .. j - i PROVE t[k] \in {s[m] : m \in i + 1 .. j}
    <3>1. i + k \in i + 1 .. j
      OBVIOUS
    <3> QED BY <1>5, <3>1
  <2>2. ASSUME NEW m \in i + 1 .. j PROVE s[m] \in Chars(t)
    <3>1. m - i \in 1 .. j - i /\ i + (m - i) = m
      OBVIOUS
    <3>2. t[m - i] = s[m]
      BY <1>5, <3>1
    <3> QED BY <1>6, <3>1, <3>2 DEF Chars
  <2> QED BY <1>6, <2>1, <2>2 DEF Chars
<1> QED BY <1>3, <1>4, <1>5, <1>7 DEF IsPart, t

LEMMA SafeSubIs ==
  ASSUME NEW s \in Seq(Nat), NEW i \in Nat, NEW m \in Nat, i <= Len(s)
  PROVE  safe_sub(s, i, m) = SubSeq(s, i + 1, Smaller(Len(s), i + m))
<1>1. Len(s) \in Nat
  BY LenProperties
<1>2. Smaller(Len(s), Larger(0, i)) = i /\ Larger(0, i + m) = i + m
  BY <1>1 DEF Smaller, Larger
<1> QED BY <1>2 DEF safe_sub

\* What shorten_fragment leaves.
LEMMA ShortenFragment ==
  ASSUME NEW x \in Fragment
  PROVE  Shortened(shorten_fragment(x), x)
<1> DEFINE s == x.s
           n == Len(s)
           M == max_length(x)
           F == shorten_fragment(x)
<1>1. s \in Seq(Nat) /\ n \in Nat /\ M \in Nat /\ M >= 2 /\ x \in AnyFragment /\ x.kind \in {"Normal", "Highlight"}
      /\ x.kind # "Ellipsis" /\ DOMAIN s = 1 .. n
  BY MaxLength, LenProperties DEF Fragment, AnyFragment
<1> HIDE DEF n, M
<1>2. CASE n <= M
  <2>1. F = <<x>>
    BY <1>2 DEF shorten_fragment, n, M
  <2>2. F \in Seq(AnyFragment) /\ DOMAIN F = {1} /\ F[1] = x
    BY <1>1, <2>1
  <2>3. Texts(F) = <<s>>
    BY <2>1 DEF Texts
  <2>4. FlattenSeq(Texts(F)) = s
    BY <1>1, <2>3, FlatOne
  <2>5. LeftOf(x, x)
    BY <1>1, <1>2 DEF LeftOf, n, M
  <2> HIDE DEF F, s
  <2>6. SameEnds(s, s)
    BY DEF SameEnds
  <2>7. \A k \in DOMAIN F : F[k] = x
    BY <2>2
  <2>8. 1 \in DOMAIN F
    BY <2>2
  <2>9. \A k \in DOMAIN F : LeftOf(F[k], x)
    BY <2>5, <2>7
  <2>10. x.s # <<>> => \E k \in DOMAIN F : F[k].kind = x.kind /\ F[k].s # <<>>
    BY <2>7, <2>8
  <2> QED BY <1>1, <2>1, <2>2, <2>4, <2>6, <2>9, <2>10 DEF Shortened, F, s
<1>3. CASE n > M
  <2> DEFINE half == M \div 2
             b == before(s, half)
             e == safe_sub(s, n - half, half)
             y == [x EXCEPT !.s = b]
             z == [x EXCEPT !.s = e]
  <2>1. F = <<y, Ellipsis, z>>
    <3>1. x.kind # "Ellipsis" /\ ~(Len(x.s) <= max_length(x))
      BY <1>1, <1>3 DEF n, M
    <3>2. F = <<[x EXCEPT !.s = before(x.s, max_length(x) \div 2)], Ellipsis,
                [x EXCEPT !.s = safe_sub(x.s, Len(x.s) - (max_length(x) \div 2), max_length(x) \div 2)]>>
      BY <3>1 DEF shorten_fragment
    <3> QED BY <3>2 DEF n, M
  <2>2. half \in Nat /\ half >= 1 /\ half <= M /\ half < n /\ n - half \in Nat
    BY <1>1, <1>3
  <2> HIDE DEF half
  <2>3. IsPart(b, s, 0, half)
    <3>1. b = SubSeq(s, 0 + 1, Smaller(n, 0 + half))
      <4>1. 0 \in Nat /\ 0 <= Len(s)
        BY <1>1 DEF n
      <4>2. safe_sub(s, 0, half) = SubSeq(s, 0 + 1, Smaller(Len(s), 0 + half))
        <5> HIDE DEF s
        <5> QED BY <1>1, <2>2, <4>1, SafeSubIs
      <4> QED BY <4>2 DEF before, n
    <3>2. Smaller(n, 0 + half) = half
      BY <1>1, <2>2 DEF Smaller
    <3>3. b = SubSeq(s, 0 + 1, half)
      BY <3>1, <3>2
    <3> HIDE DEF b, s
    <3> QED BY <1>1, <2>2, <3>3, PartOf DEF n
  <2>4. IsPart(e, s, n - half, n)
    <3>1. e = SubSeq(s, (n - half) + 1, Smaller(n, (n - half) + half))
      <4>1. n - half <= n
        BY <2>2, <1>1
      <4> QED BY <1>1, <2>2, <4>1, SafeSubIs DEF n
    <3>2. Smaller(n, (n - half) + half) = n
      BY <1>1, <2>2 DEF Smaller
    <3>3. e = SubSeq(s, (n - half) + 1, n)
      BY <3>1, <3>2
    <3>4. n - half <= n /\ n <= Len(s)
      BY <1>1, <2>2 DEF n
    <3> HIDE DEF e, s
    <3> QED BY <1>1, <2>2, <3>3, <3>4, PartOf
  <2> HIDE DEF b, e
  <2>5. /\ b \in Seq(Nat) /\ Len(b) = half /\ b[1] = s[1] /\ Chars(b) \subseteq Chars(s)
        /\ e \in Seq(Nat) /\ Len(e) = half /\ e[half] = s[n] /\ Chars(e) \subseteq Chars(s)
    <3>1. Len(b) = half /\ Len(e) = half
      BY <1>1, <2>2, <2>3, <2>4 DEF IsPart
    <3>2. 1 \in 1 .. half - 0 /\ half \in 1 .. n - (n - half) /\ 0 + 1 = 1 /\ (n - half) + half = n
      BY <1>1, <2>2
    <3>3. b[1] = s[1] /\ e[half] = s[n]
      <4>1. b[1] = s[0 + 1]
        BY <2>3, <3>2 DEF IsPart
      <4>2. e[half] = s[(n - half) + half]
        BY <2>4, <3>2 DEF IsPart
      <4> QED BY <3>2, <4>1, <4>2
    <3>4. Chars(b) = {s[k] : k \in 0 + 1 .. half} /\ Chars(e) = {s[k] : k \in (n - half) + 1 .. n}
      BY <2>3, <2>4 DEF IsPart
    <3>5. (0 + 1 .. half) \subseteq DOMAIN s /\ ((n - half) + 1 .. n) \subseteq DOMAIN s
      BY <1>1, <2>2
    <3>6. Chars(b) \subseteq Chars(s) /\ Chars(e) \subseteq Chars(s)
      BY <3>4, <3>5 DEF Chars
    <3> QED BY <2>3, <2>4, <3>1, <3>3, <3>6 DEF IsPart
  <2>6. /\ y \in AnyFragment /\ y.kind = x.kind /\ y.s = b
        /\ z \in AnyFragment /\ z.kind = x.kind /\ z.s = e
        /\ Ellipsis \in AnyFragment /\ Ellipsis.kind = "Ellipsis" /\ Ellipsis.s = <<>>
    BY <1>1, <2>5 DEF AnyFragment, Fragment, Ellipsis
  <2> HIDE DEF y, z
  <2>7. F \in Seq(AnyFragment) /\ DOMAIN F = 1 .. 3 /\ F[1] = y /\ F[2] = Ellipsis /\ F[3] = z
    BY <2>1, <2>6
  <2> HIDE DEF F
  <2>8. \A k \in DOMAIN F : k = 1 \/ k = 2 \/ k = 3
    BY <2>7
  <2>9. M = max_length(y) /\ M = max_length(z)
    BY <2>6 DEF M, max_length
  <2>10. LeftOf(y, x) /\ LeftOf(z, x)
    BY <1>1, <2>2, <2>5, <2>6, <2>9 DEF LeftOf
  <2>11. LeftOf(Ellipsis, x)
    <3>1. max_length(Ellipsis) \in Nat
      BY MaxLength
    <3>2. Len(<<>>) = 0 /\ Chars(<<>>) = {}
      BY DEF Chars
    <3> QED BY <2>6, <3>1, <3>2 DEF LeftOf
  <2>12. \A k \in DOMAIN F : LeftOf(F[k], x)
    BY <2>7, <2>8, <2>10, <2>11
  <2>13. b # <<>> /\ e # <<>> /\ s # <<>>
    BY <1>1, <1>3, <2>2, <2>5, EmptySeq DEF n
  <2>14. /\ \E k \in DOMAIN F : F[k].kind = "Ellipsis"
         /\ \E k \in DOMAIN F : F[k].kind = x.kind /\ F[k].s # <<>>
    <3>1. 1 \in DOMAIN F /\ 2 \in DOMAIN F
      BY <2>7
    <3> QED BY <2>6, <2>7, <2>13, <3>1
  <2>15. FlattenSeq(Texts(F)) = b \o e
    <3> DEFINE R == Seq(Nat)
               none == <<>>
               G == <<b>>
               H == Append(G, none)
    <3>1. Texts(F) = <<b, none, e>>
      BY <2>6, <2>7 DEF Texts
    <3>2. Texts(F) = Append(H, e)
      BY <3>1
    <3>3. none \in R /\ G \in Seq(R) /\ b \in R /\ e \in R
      BY <2>5
    <3>4. H \in Seq(R)
      <4> HIDE DEF R, G, none
      <4> QED BY <3>3, AppendProperties
    <3>5. FlattenSeq(G) = b
      BY <2>5, FlatOne
    <3>6. FlattenSeq(H) = b \o none /\ b \o none = b
      <4>1. b \o none = b
        BY <2>5, ConcatEmptySeq
      <4> HIDE DEF G, none
      <4> QED BY <3>3, <3>5, <4>1, FlatAppend
    <3> HIDE DEF H, G, none
    <3>7. FlattenSeq(Append(H, e)) = FlattenSeq(H) \o e
      BY <3>3, <3>4, FlatAppend
    <3> QED BY <3>2, <3>6, <3>7
  <2>16. b \o e \in Seq(Nat) /\ SameEnds(b \o e, s)
    <3>1. b \o e \in Seq(Nat)
      BY <2>5, ConcatProperties
    <3>2. ConcatEnds(b, e)
      BY <2>5, EndsOfConcat
    <3> HIDE DEF s
    <3> QED BY <2>5, <2>13, <3>1, <3>2 DEF SameEnds, ConcatEnds, n
  <2> QED BY <2>7, <2>12, <2>14, <2>15, <2>16 DEF Shortened, F
<1> QED BY <1>1, <1>2, <1>3

\* What is left of a line that was X.
ShortLine(Y, X) ==
  /\ Y \in Seq(AnyFragment)
  /\ Complete(Y) => Y = X
  /\ \A k \in DOMAIN Y : \E j \in DOMAIN X : LeftOf(Y[k], X[j])
  /\ \A j \in DOMAIN X : X[j].s # <<>> => \E k \in DOMAIN Y : Y[k].kind = X[j].kind /\ Y[k].s # <<>>
  /\ SameEnds(FlattenSeq(Texts(Y)), FlattenSeq(Texts(X)))

\* The elements of two sequences put together.
Joined(v, s, u) ==
  /\ Len(s) \in Nat /\ Len(u) \in Nat /\ Len(v) = Len(s) + Len(u)
  /\ DOMAIN v = 1 .. Len(v) /\ DOMAIN s = 1 .. Len(s) /\ DOMAIN u = 1 .. Len(u)
  /\ \A i \in DOMAIN s : i \in DOMAIN v /\ v[i] = s[i]
  /\ \A i \in DOMAIN u : Len(s) + i \in DOMAIN v /\ v[Len(s) + i] = u[i]
  /\ \A i \in DOMAIN v : (i \in DOMAIN s /\ v[i] = s[i]) \/ (i - Len(s) \in DOMAIN u /\ v[i] = u[i - Len(s)])

LEMMA ConcatJoins ==
  ASSUME NEW S, NEW s \in Seq(S), NEW u \in Seq(S)
  PROVE  Joined(s \o u, s, u)
<1> DEFINE v == s \o u
<1>1. /\ v \in Seq(S) /\ Len(v) = Len(s) + Len(u) /\ Len(s) \in Nat /\ Len(u) \in Nat
      /\ \A i \in 1 .. Len(s) + Len(u) : v[i] = IF i <= Len(s) THEN s[i] ELSE u[i - Len(s)]
  BY ConcatProperties, LenProperties
<1>2. DOMAIN v = 1 .. Len(v) /\ DOMAIN s = 1 .. Len(s) /\ DOMAIN u = 1 .. Len(u)
  <2> HIDE DEF v
  <2> QED BY <1>1, LenProperties
<1> HIDE DEF v
<1>3. ASSUME NEW i \in DOMAIN s PROVE i \in DOMAIN v /\ v[i] = s[i]
  BY <1>1, <1>2
<1>4. ASSUME NEW i \in DOMAIN u PROVE Len(s) + i \in DOMAIN v /\ v[Len(s) + i] = u[i]
  <2>1. Len(s) + i \in 1 .. Len(s) + Len(u) /\ ~(Len(s) + i <= Len(s)) /\ (Len(s) + i) - Len(s) = i
    BY <1>1, <1>2
  <2> QED BY <1>1, <1>2, <2>1
<1>5. ASSUME NEW i \in DOMAIN v
      PROVE  (i \in DOMAIN s /\ v[i] = s[i]) \/ (i - Len(s) \in DOMAIN u /\ v[i] = u[i - Len(s)])
  BY <1>1, <1>2
<1> QED BY <1>1, <1>2, <1>3, <1>4, <1>5 DEF Joined, v

LEMMA ShortenMore ==
  ASSUME NEW X \in Seq(Fragment), NEW x \in Fragment
  PROVE  shorten_snippet_line(Append(X, x)) = shorten_snippet_line(X) \o shorten_fragment(x)
<1> DEFINE S == AnyFragment
           R == Seq(S)
           Z == Append(X, x)
           F == [k \in DOMAIN X |-> shorten_fragment(X[k])]
           G == [k \in DOMAIN Z |-> shorten_fragment(Z[k])]
           y == shorten_fragment(x)
<1>1. \A z \in Fragment : shorten_fragment(z) \in R
  BY ShortenFragment DEF Shortened
<1>2. /\ DOMAIN X = 1 .. Len(X) /\ Len(X) \in Nat /\ Z \in Seq(Fragment) /\ Len(Z) = Len(X) + 1
      /\ (\A i \in 1 .. Len(X) : Z[i] = X[i]) /\ Z[Len(X) + 1] = x /\ DOMAIN Z = 1 .. Len(X) + 1
      /\ \A i \in 1 .. Len(X) : X[i] \in Fragment
  BY AppendProperties, LenProperties, ElementOfSeq
<1> HIDE DEF R, Z
<1>3. F \in Seq(R) /\ y \in R /\ Len(F) = Len(X)
  BY <1>1, <1>2
<1>4. G = Append(F, y)
  <2>1. Append(F, y) \in Seq(R) /\ Len(Append(F, y)) = Len(X) + 1 /\ Append(F, y)[Len(X) + 1] = y
        /\ \A i \in 1 .. Len(X) : Append(F, y)[i] = F[i]
    <3> HIDE DEF F, y
    <3> QED BY <1>3, AppendProperties
  <2>2. G \in Seq(R) /\ Len(G) = Len(X) + 1
    <3>1. \A i \in DOMAIN Z : Z[i] \in Fragment
      BY <1>2, ElementOfSeq
    <3> QED BY <1>1, <1>2, <3>1
  <2>3. ASSUME NEW i \in 1 .. Len(X) + 1 PROVE G[i] = Append(F, y)[i]
    <3>1. CASE i = Len(X) + 1
      BY <1>2, <2>1, <3>1
    <3>2. CASE i \in 1 .. Len(X)
      BY <1>2, <2>1, <3>2
    <3> QED BY <1>2, <3>1, <3>2
  <2> HIDE DEF F, G, y
  <2> QED BY <2>1, <2>2, <2>3, SeqEqual
<1>5. FlattenSeq(Append(F, y)) = FlattenSeq(F) \o y
  <2> HIDE DEF F, y
  <2> QED BY <1>3, FlatAppend DEF R
<1> QED BY <1>4, <1>5 DEF shorten_snippet_line, Z

\* What shorten_snippet_line leaves of a line.
LEMMA ShortenLine ==
  ASSUME NEW X \in Seq(Fragment)
  PROVE  ShortLine(shorten_snippet_line(X), X)
<1> DEFINE T == {Y \in Seq(Fragment) : ShortLine(shorten_snippet_line(Y), Y)}
<1>1. <<>> \in T
  <2>1. shorten_snippet_line(<<>>) = <<>>
    <3>1. [k \in DOMAIN <<>> |-> shorten_fragment(<<>>[k])] = <<>>
      OBVIOUS
    <3> QED BY <3>1, FlatEmpty DEF shorten_snippet_line
  <2>2. Texts(<<>>) = <<>>
    BY DEF Texts
  <2>3. SameEnds(<<>>, <<>>)
    BY DEF SameEnds
  <2>4. ShortLine(<<>>, <<>>)
    BY <2>2, <2>3, FlatEmpty DEF ShortLine
  <2> QED BY <2>1, <2>4
<1>2. ASSUME NEW Y \in Seq(Fragment), NEW y \in Fragment, Y \in T
      PROVE  Append(Y, y) \in T
  <2> DEFINE Z == Append(Y, y)
             A == shorten_snippet_line(Y)
             F == shorten_fragment(y)
             B == A \o F
  <2>1. Z \in Seq(Fragment) /\ Z = Y \o <<y>> /\ shorten_snippet_line(Z) = B
    BY ShortenMore, AppendProperties, AppendIsConcat
  <2>2. ShortLine(A, Y) /\ Shortened(F, y)
    BY <1>2, ShortenFragment
  <2> DEFINE one == <<y>>
  <2>3. /\ A \in Seq(AnyFragment) /\ F \in Seq(AnyFragment)
        /\ Y \in Seq(AnyFragment) /\ one \in Seq(AnyFragment)
    <3>1. Fragment \subseteq AnyFragment
      BY DEF Fragment, AnyFragment
    <3>2. Y \in Seq(AnyFragment)
      <4>1. DOMAIN Y = 1 .. Len(Y) /\ Len(Y) \in Nat /\ \A i \in DOMAIN Y : Y[i] \in AnyFragment
        BY <3>1, LenProperties, ElementOfSeq
      <4>2. Y = [i \in 1 .. Len(Y) |-> Y[i]]
        <5>1. Y \in [1 .. Len(Y) -> Fragment]
          BY LenProperties
        <5> QED BY <5>1
      <4> QED BY <4>1, <4>2
    <3>3. y \in AnyFragment
      BY <3>1
    <3>4. one \in Seq(AnyFragment)
      <4> DEFINE S == AnyFragment
      <4> HIDE DEF S
      <4>1. y \in S
        BY <3>3 DEF S
      <4>2. one \in Seq(S)
        BY <4>1
      <4> QED BY <4>2 DEF S
    <3> QED BY <2>2, <3>2, <3>4 DEF ShortLine, Shortened
  <2>4. one[1] = y /\ DOMAIN one = {1}
    OBVIOUS
  <2>5. Texts(one) = <<y.s>> /\ y.s \in Seq(Nat)
    BY DEF Texts, Fragment
  <2> HIDE DEF A, F, one
  <2>6. Joined(B, A, F) /\ B \in Seq(AnyFragment)
    BY <2>3, ConcatJoins, ConcatProperties
  <2>7. Z = Y \o one /\ Joined(Z, Y, one)
    <3>1. Z = Y \o one
      BY <2>1 DEF one
    <3> HIDE DEF Z
    <3> QED BY <2>3, <3>1, ConcatJoins
  <2>8. SameEnds(FlattenSeq(Texts(B)), FlattenSeq(Texts(Z)))
    <3>1. Texts(B) = Texts(A) \o Texts(F) /\ Texts(Z) = Texts(Y) \o Texts(one)
      BY <2>3, <2>7, TextsConcat
    <3>2. /\ FlattenSeq(Texts(B)) = FlattenSeq(Texts(A)) \o FlattenSeq(Texts(F))
          /\ FlattenSeq(Texts(Z)) = FlattenSeq(Texts(Y)) \o FlattenSeq(Texts(one))
      BY <2>3, <3>1, TextsType, FlatConcat
    <3>3. FlattenSeq(Texts(one)) = y.s
      BY <2>5, FlatOne
    <3>4. /\ SameEnds(FlattenSeq(Texts(A)), FlattenSeq(Texts(Y)))
          /\ SameEnds(FlattenSeq(Texts(F)), y.s)
      BY <2>2 DEF ShortLine, Shortened
    <3>5. /\ FlattenSeq(Texts(A)) \in Seq(Nat) /\ FlattenSeq(Texts(Y)) \in Seq(Nat)
          /\ FlattenSeq(Texts(F)) \in Seq(Nat)
      BY <2>3, TextsType
    <3> QED BY <2>5, <3>2, <3>3, <3>4, <3>5, SameEndsConcat
  <2> HIDE DEF B, Z
  <2>9. ASSUME Complete(B) PROVE B = Z
    <3>1. (\A k \in DOMAIN A : A[k].kind # "Ellipsis") /\ (\A k \in DOMAIN F : F[k].kind # "Ellipsis")
      BY <2>6, <2>9 DEF Complete, Joined
    <3>2. A = Y
      BY <2>2, <3>1 DEF ShortLine, Complete
    <3>3. F = one
      BY <2>2, <3>1 DEF Shortened, one
    <3> QED BY <2>7, <3>2, <3>3 DEF B
  <2>10. ASSUME NEW k \in DOMAIN B PROVE \E j \in DOMAIN Z : LeftOf(B[k], Z[j])
    <3>1. CASE k \in DOMAIN A /\ B[k] = A[k]
      <4>1. PICK j \in DOMAIN Y : LeftOf(A[k], Y[j])
        BY <2>2, <3>1 DEF ShortLine
      <4>2. j \in DOMAIN Z /\ Z[j] = Y[j]
        BY <2>7 DEF Joined
      <4> QED BY <3>1, <4>1, <4>2
    <3>2. CASE k - Len(A) \in DOMAIN F /\ B[k] = F[k - Len(A)]
      <4>1. LeftOf(B[k], y)
        BY <2>2, <3>2 DEF Shortened
      <4>2. Len(Y) + 1 \in DOMAIN Z /\ Z[Len(Y) + 1] = y
        BY <2>4, <2>7 DEF Joined
      <4> QED BY <4>1, <4>2
    <3> QED BY <2>6, <3>1, <3>2 DEF Joined
  <2>11. ASSUME NEW j \in DOMAIN Z, Z[j].s # <<>>
         PROVE  \E k \in DOMAIN B : B[k].kind = Z[j].kind /\ B[k].s # <<>>
    <3>1. CASE j \in DOMAIN Y /\ Z[j] = Y[j]
      <4>1. PICK k \in DOMAIN A : A[k].kind = Y[j].kind /\ A[k].s # <<>>
        BY <2>2, <2>11, <3>1 DEF ShortLine
      <4>2. k \in DOMAIN B /\ B[k] = A[k]
        BY <2>6 DEF Joined
      <4> QED BY <3>1, <4>1, <4>2
    <3>2. CASE j - Len(Y) \in DOMAIN one /\ Z[j] = one[j - Len(Y)]
      <4>1. Z[j] = y
        BY <2>4, <3>2
      <4>2. PICK k \in DOMAIN F : F[k].kind = y.kind /\ F[k].s # <<>>
        BY <2>2, <2>11, <4>1 DEF Shortened
      <4>3. Len(A) + k \in DOMAIN B /\ B[Len(A) + k] = F[k]
        BY <2>6 DEF Joined
      <4> QED BY <4>1, <4>2, <4>3
    <3> QED BY <2>7, <3>1, <3>2 DEF Joined
  <2>12. ShortLine(B, Z)
    BY <2>6, <2>8, <2>9, <2>10, <2>11 DEF ShortLine
  <2> QED BY <2>1, <2>12 DEF Z
<1>3. Seq(Fragment) \subseteq T
  <2> HIDE DEF T
  <2> QED BY <1>1, <1>2, SeqInd
<1> QED BY <1>3

-----------------------------------------------------------------------------
(* The underline is as long as the line *)

\* s and t have the same length, and their elements are pairs of R.
Aligned(s, t, R) ==
  /\ Len(s) = Len(t) /\ DOMAIN s = 1 .. Len(s) /\ DOMAIN t = 1 .. Len(t)
  /\ \A i \in DOMAIN s : <<s[i], t[i]>> \in R

\* Both extended side by side.
LEMMA AlignedConcat ==
  ASSUME NEW A, NEW B, NEW R, NEW s \in Seq(A), NEW u \in Seq(A), NEW t \in Seq(B), NEW v \in Seq(B),
         Aligned(s, t, R), Aligned(u, v, R)
  PROVE  Aligned(s \o u, t \o v, R)
<1> DEFINE x == s \o u
           y == t \o v
<1>1. Joined(x, s, u) /\ Joined(y, t, v)
  BY ConcatJoins
<1> HIDE DEF x, y
<1>2. Len(x) = Len(y) /\ DOMAIN x = 1 .. Len(x) /\ DOMAIN y = 1 .. Len(y)
  BY <1>1 DEF Joined, Aligned
<1>3. ASSUME NEW i \in DOMAIN x PROVE <<x[i], y[i]>> \in R
  <2>1. CASE i \in DOMAIN s /\ x[i] = s[i]
    <3>1. i \in DOMAIN t /\ y[i] = t[i]
      BY <1>1, <2>1 DEF Joined, Aligned
    <3> QED BY <2>1, <3>1 DEF Aligned
  <2>2. CASE i - Len(s) \in DOMAIN u /\ x[i] = u[i - Len(s)]
    <3> DEFINE j == i - Len(s)
    <3>1. j \in DOMAIN v /\ Len(t) + j = i
      BY <1>1, <2>2 DEF Joined, Aligned
    <3> HIDE DEF j
    <3>2. y[i] = v[j]
      BY <1>1, <3>1 DEF Joined
    <3>3. x[i] = u[j] /\ j \in DOMAIN u
      BY <2>2 DEF j
    <3> QED BY <3>2, <3>3 DEF Aligned
  <2> QED BY <1>1, <2>1, <2>2 DEF Joined
<1>4. Aligned(x, y, R)
  BY <1>2, <1>3 DEF Aligned
<1> QED BY <1>4 DEF x, y

AllAligned(F, G, R) ==
  /\ Len(F) = Len(G)
  /\ \A k \in 1 .. Len(F) : Aligned(F[k], G[k], R)

\* The same of lists of sequences, element by element.
LEMMA FlatAligned ==
  ASSUME NEW A, NEW B, NEW R, NEW F \in Seq(Seq(A)), NEW G \in Seq(Seq(B)), AllAligned(F, G, R)
  PROVE  Aligned(FlattenSeq(F), FlattenSeq(G), R)
<1> DEFINE P == Seq(A)
           Q == Seq(B)
           T == {fn \in Seq(P) : \A g \in Seq(Q) :
                   AllAligned(fn, g, R) => Aligned(FlattenSeq(fn), FlattenSeq(g), R)}
<1>1. <<>> \in T
  <2> SUFFICES ASSUME NEW g \in Seq(Q), AllAligned(<<>>, g, R)
               PROVE  Aligned(FlattenSeq(<<>>), FlattenSeq(g), R)
    OBVIOUS
  <2>1. g = <<>>
    <3> HIDE DEF Q
    <3> QED BY EmptySeq DEF AllAligned
  <2>2. Aligned(<<>>, <<>>, R)
    BY DEF Aligned
  <2> QED BY <2>1, <2>2, FlatEmpty
<1>2. ASSUME NEW fn \in Seq(P), NEW x \in P, fn \in T
      PROVE  Append(fn, x) \in T
  <2> DEFINE h == Append(fn, x)
  <2>1. h \in Seq(P) /\ Len(h) = Len(fn) + 1 /\ h[Len(fn) + 1] = x /\ Len(fn) \in Nat
        /\ \A i \in 1 .. Len(fn) : h[i] = fn[i]
    <3> HIDE DEF P
    <3> QED BY AppendProperties, LenProperties
  <2> SUFFICES ASSUME NEW g \in Seq(Q), AllAligned(h, g, R)
               PROVE  Aligned(FlattenSeq(h), FlattenSeq(g), R)
    BY <2>1
  <2>2. g # <<>>
    <3> HIDE DEF Q, h
    <3>1. Len(g) # 0
      BY <2>1 DEF AllAligned
    <3> QED BY <3>1, EmptySeq
  <2>3. PICK e \in Seq(Q), y \in Q : g = Append(e, y)
    <3> HIDE DEF Q
    <3> QED BY <2>2, SequenceEmptyOrAppend
  <2>4. Len(g) = Len(e) + 1 /\ g[Len(e) + 1] = y /\ Len(e) \in Nat
        /\ \A i \in 1 .. Len(e) : g[i] = e[i]
    <3> HIDE DEF Q
    <3> QED BY <2>3, AppendProperties, LenProperties
  <2> HIDE DEF h
  <2>5. Len(fn) = Len(e)
    <3>1. Len(h) = Len(g)
      BY DEF AllAligned
    <3> QED BY <2>1, <2>4, <3>1
  <2>6. AllAligned(fn, e, R)
    <3>1. ASSUME NEW k \in 1 .. Len(fn) PROVE Aligned(fn[k], e[k], R)
      <4>1. k \in 1 .. Len(h) /\ h[k] = fn[k] /\ g[k] = e[k]
        BY <2>1, <2>4, <2>5
      <4>2. Aligned(h[k], g[k], R)
        BY <4>1 DEF AllAligned
      <4> QED BY <4>1, <4>2
    <3> QED BY <2>5, <3>1 DEF AllAligned
  <2>7. Aligned(x, y, R)
    <3>1. Len(fn) + 1 \in 1 .. Len(h)
      BY <2>1
    <3>2. Aligned(h[Len(fn) + 1], g[Len(fn) + 1], R)
      BY <3>1 DEF AllAligned
    <3> QED BY <2>1, <2>4, <2>5, <3>2
  <2>8. Aligned(FlattenSeq(fn), FlattenSeq(e), R)
    BY <1>2, <2>3, <2>6
  <2>9. FlattenSeq(h) = FlattenSeq(fn) \o x /\ FlattenSeq(g) = FlattenSeq(e) \o y
    BY <2>3, FlatAppend DEF h
  <2>10. FlattenSeq(fn) \in Seq(A) /\ FlattenSeq(e) \in Seq(B) /\ x \in Seq(A) /\ y \in Seq(B)
    BY <2>3, FlatType
  <2> QED BY <2>7, <2>8, <2>9, <2>10, AlignedConcat
<1>3. Seq(P) \subseteq T
  <2> HIDE DEF P, T
  <2> QED BY <1>1, <1>2, SeqInd
<1> QED BY <1>3

-----------------------------------------------------------------------------
(* The underline *)

Shown(src, x) ==
  CASE x.kind = "Ellipsis" -> <<Dots>>
    [] lone_LF(src, x)     -> <<Blank>> \o x.s
    [] OTHER               -> x.s

Marked(src, x) ==
  CASE x.kind = "Ellipsis" -> <<" ">>
    [] lone_LF(src, x)     -> <<"^", LF>>
    [] x.kind = "Normal"   -> replace(src, x.s, " ")
    [] OTHER               -> replace(src, x.s, "^")

Marks == {" ", "^", LF}

\* What is above and below one another.
Under(src, hl) ==
  {pair \in Int \X Marks :
     /\ (pair[2] = "^") <=> (~is_LF(src, pair[1]) /\ pair[1] \in hl \cup {Blank})
     /\ (pair[2] = LF) <=> is_LF(src, pair[1])}

MarkRight(src, hl, x) ==
  /\ Shown(src, x) \in Seq(Int) /\ Marked(src, x) \in Seq(Marks)
  /\ Aligned(Shown(src, x), Marked(src, x), Under(src, hl))

LEMMA One ==
  ASSUME NEW S, NEW a \in S
  PROVE  <<a>> \in Seq(S) /\ Len(<<a>>) = 1 /\ DOMAIN <<a>> = 1 .. 1 /\ <<a>>[1] = a
OBVIOUS

LEMMA Two ==
  ASSUME NEW S, NEW a \in S, NEW b \in S
  PROVE  /\ <<a, b>> \in Seq(S) /\ Len(<<a, b>>) = 2 /\ DOMAIN <<a, b>> = 1 .. 2
         /\ <<a, b>>[1] = a /\ <<a, b>>[2] = b
         /\ <<a>> \o <<b>> = <<a, b>>
<1>1. <<a>> \o <<b>> = <<a, b>>
  <2> DEFINE s == <<a>>
             t == <<b>>
             u == <<a, b>>
  <2>1. /\ s \in Seq(S) /\ t \in Seq(S) /\ u \in Seq(S) /\ Len(s) = 1 /\ Len(t) = 1 /\ Len(u) = 2
        /\ s[1] = a /\ t[1] = b /\ u[1] = a /\ u[2] = b
    OBVIOUS
  <2> HIDE DEF s, t, u
  <2>2. s \o t \in Seq(S) /\ Len(s \o t) = Len(s) + Len(t)
        /\ \A i \in 1 .. Len(s) + Len(t) : (s \o t)[i] = IF i <= Len(s) THEN s[i] ELSE t[i - Len(s)]
    BY <2>1, ConcatProperties
  <2>3. (s \o t)[1] = a /\ (s \o t)[2] = b
    BY <2>1, <2>2
  <2>4. \A i \in 1 .. 2 : (s \o t)[i] = u[i]
    <3>1. \A i \in 1 .. 2 : i = 1 \/ i = 2
      OBVIOUS
    <3> QED BY <2>1, <2>3, <3>1
  <2>5. s \o t = u
    BY <2>1, <2>2, <2>4, SeqEqual
  <2> QED BY <2>5 DEF s, t, u
<1> QED BY <1>1

LEMMA TwoConcat ==
  ASSUME NEW a, NEW b
  PROVE  <<a>> \o <<b>> = <<a, b>>
BY Two, a \in {a, b}, b \in {a, b}

\* One fragment has the right marks under it.
LEMMA FragmentMarked ==
  ASSUME NEW src, NEW hl \in SUBSET Nat, NEW x \in AnyFragment,
         x.kind = "Normal" => Chars(x.s) \cap hl = {},
         x.kind = "Highlight" => Chars(x.s) \subseteq hl
  PROVE  MarkRight(src, hl, x)
<1>1. /\ x.s \in Seq(Nat) /\ DOMAIN x.s = 1 .. Len(x.s) /\ Len(x.s) \in Nat
      /\ \A i \in DOMAIN x.s : x.s[i] \in Nat
      /\ x.kind \in {"Normal", "Highlight", "Ellipsis"}
  <2>1. x.s \in Seq(Nat) /\ x.kind \in {"Normal", "Highlight", "Ellipsis"}
    BY DEF AnyFragment
  <2> QED BY <2>1, LenProperties, ElementOfSeq
<1>2. ~is_LF(src, Blank) /\ ~is_LF(src, Dots) /\ Dots # Blank /\ Blank \notin Nat /\ Dots \notin Nat
      /\ Blank \in Int /\ Dots \in Int
  BY DEF is_LF, Blank, Dots, AddedLF
<1>3. LF # "^" /\ LF # " " /\ " " \in Marks /\ "^" \in Marks /\ LF \in Marks
  BY DEF LF, Marks
<1>4. CASE x.kind = "Ellipsis"
  <2>1. Shown(src, x) = <<Dots>> /\ Marked(src, x) = <<" ">>
    BY <1>4 DEF Shown, Marked, lone_LF
  <2>2. <<Dots, " ">> \in Under(src, hl)
    BY <1>2, <1>3 DEF Under
  <2> DEFINE d == Dots
             m == " "
  <2>3. d \in Int /\ m \in Marks
    BY <1>2, <1>3
  <2> HIDE DEF d, m
  <2>4. /\ <<d>> \in Seq(Int) /\ Len(<<d>>) = 1 /\ DOMAIN <<d>> = 1 .. 1 /\ <<d>>[1] = d
        /\ <<m>> \in Seq(Marks) /\ Len(<<m>>) = 1 /\ DOMAIN <<m>> = 1 .. 1 /\ <<m>>[1] = m
    BY <2>3, One
  <2>5. <<d, m>> \in Under(src, hl)
    BY <2>2 DEF d, m
  <2>6. Aligned(<<d>>, <<m>>, Under(src, hl))
    <3> DEFINE x1 == <<d>>
               x2 == <<m>>
    <3> HIDE DEF x1, x2
    <3>1. Len(x1) = 1 /\ Len(x2) = 1 /\ DOMAIN x1 = 1 .. 1 /\ DOMAIN x2 = 1 .. 1 /\ x1[1] = d /\ x2[1] = m
      BY <2>4 DEF x1, x2
    <3>2. Aligned(x1, x2, Under(src, hl))
      BY <2>5, <3>1 DEF Aligned
    <3> QED BY <3>2 DEF x1, x2
  <2> QED BY <2>1, <2>4, <2>6 DEF MarkRight, d, m
<1>5. CASE lone_LF(src, x)
  <2> DEFINE c == x.s[1]
  <2>1. Len(x.s) = 1 /\ c \in Nat /\ is_LF(src, c) /\ x.kind = "Highlight"
    BY <1>1, <1>5 DEF lone_LF
  <2>9. c \in Int
    BY <2>1
  <2>2. x.s = <<c>>
    <3>1. <<c>> \in Seq(Nat) /\ Len(<<c>>) = 1 /\ <<c>>[1] = c
      BY <2>1
    <3> QED BY <1>1, <2>1, <3>1, SeqEqual
  <2>3. Shown(src, x) = <<Blank>> \o x.s /\ Marked(src, x) = <<"^", LF>>
    BY <1>5, <2>1 DEF Shown, Marked
  <2> HIDE DEF c
  <2>4. Shown(src, x) = <<Blank, c>>
    <3>1. Blank \in Int /\ c \in Int
      BY <1>2, <2>9
    <3>2. <<Blank>> \o <<c>> = <<Blank, c>>
      BY TwoConcat
    <3> QED BY <2>2, <2>3, <3>2
  <2>5. <<Blank, "^">> \in Under(src, hl) /\ <<c, LF>> \in Under(src, hl)
    <3>1. <<Blank, "^">> \in Under(src, hl)
      BY <1>2, <1>3 DEF Under
    <3>2. <<c, LF>> \in Int \X Marks
      BY <2>9, <1>3
    <3>3. is_LF(src, c)
      BY <2>1
    <3>4. <<c, LF>> \in Under(src, hl)
      BY <3>2, <3>3, <1>3 DEF Under
    <3> QED BY <3>1, <3>4
  <2>6. Aligned(<<Blank, c>>, <<"^", LF>>, Under(src, hl))
    BY <2>5 DEF Aligned
  <2>7. <<Blank, c>> \in Seq(Int) /\ <<"^", LF>> \in Seq(Marks)
    <3>1. Blank \in Int /\ LF \in Marks /\ "^" \in Marks
      BY <1>2, <1>3
    <3> QED BY <2>9, <3>1, Two
  <2> QED BY <2>3, <2>4, <2>6, <2>7 DEF MarkRight
<1>6. CASE x.kind \in {"Normal", "Highlight"} /\ ~lone_LF(src, x)
  <2> DEFINE mark == IF x.kind = "Normal" THEN " " ELSE "^"
             s == x.s
             t == replace(src, s, mark)
  <2>1. Shown(src, x) = s /\ Marked(src, x) = t
    BY <1>6 DEF Shown, Marked
  <2>2. t = [i \in 1 .. Len(s) |-> IF is_LF(src, s[i]) THEN LF ELSE mark]
    BY <1>1 DEF replace
  <2>3. mark \in Marks
    BY DEF Marks
  <2>4. \A i \in DOMAIN s : mark = "^" <=> s[i] \in hl
    BY <1>6 DEF Chars
  <2> HIDE DEF mark, s
  <2>5. t \in Seq(Marks) /\ Len(t) = Len(s) /\ DOMAIN t = DOMAIN s
    <3>1. DOMAIN s = 1 .. Len(s) /\ Len(s) \in Nat
      BY <1>1 DEF s
    <3>2. \A i \in 1 .. Len(s) : (IF is_LF(src, s[i]) THEN LF ELSE mark) \in Marks
      BY <1>3, <2>3
    <3> HIDE DEF t
    <3>3. t \in [1 .. Len(s) -> Marks]
      BY <2>2, <3>2
    <3>4. t \in Seq(Marks) /\ Len(t) = Len(s)
      BY <3>1, <3>3
    <3> QED BY <3>1, <3>3, <3>4
  <2>6. ASSUME NEW i \in DOMAIN s PROVE <<s[i], t[i]>> \in Under(src, hl)
    <3>1. s[i] \in Nat /\ t[i] = IF is_LF(src, s[i]) THEN LF ELSE mark
      BY <1>1, <2>2, <2>6 DEF s
    <3>2. mark = " " \/ mark = "^"
      BY DEF mark
    <3>3. s[i] \in Int
      BY <3>1
    <3>5. s[i] # Blank
      BY <1>2, <3>1
    <3>6. t[i] \in Marks
      BY <1>3, <2>3, <3>1
    <3> HIDE DEF t
    <3> QED BY <1>3, <2>4, <3>1, <3>2, <3>3, <3>5, <3>6 DEF Under
  <2>7. s \in Seq(Int)
    <3>1. s \in Seq(Nat)
      BY <1>1 DEF s
    <3> QED BY <3>1
  <2>8. Aligned(s, t, Under(src, hl))
    <3> HIDE DEF t
    <3> QED BY <1>1, <2>5, <2>6 DEF Aligned, s
  <2> QED BY <2>1, <2>5, <2>7, <2>8 DEF MarkRight
<1> QED BY <1>1, <1>4, <1>5, <1>6 DEF lone_LF

\* So has a line of such fragments.
LEMMA LineMarked ==
  ASSUME NEW src, NEW hl \in SUBSET Nat, NEW Y \in Seq(AnyFragment),
         \A k \in DOMAIN Y : MarkRight(src, hl, Y[k]),
         format_underline(src, Y) # <<>>
  PROVE  Aligned(format_line(src, Y), format_underline(src, Y), Under(src, hl))
<1> DEFINE F == [k \in DOMAIN Y |-> Shown(src, Y[k])]
           G == [k \in DOMAIN Y |-> Marked(src, Y[k])]
           A == Seq(Int)
           B == Seq(Marks)
<1>1. format_line(src, Y) = FlattenSeq(F) /\ format_underline(src, Y) = FlattenSeq(G)
  BY DEF format_line, format_underline, Shown, Marked
<1>2. DOMAIN Y = 1 .. Len(Y) /\ Len(Y) \in Nat
  BY LenProperties
<1>3. \A k \in DOMAIN Y : Shown(src, Y[k]) \in A /\ Marked(src, Y[k]) \in B
  BY DEF MarkRight
<1>4. F \in Seq(A) /\ G \in Seq(B) /\ Len(F) = Len(Y) /\ Len(G) = Len(Y)
  <2> HIDE DEF A, B
  <2> QED BY <1>2, <1>3
<1>5. AllAligned(F, G, Under(src, hl))
  <2>1. \A k \in 1 .. Len(Y) : Aligned(F[k], G[k], Under(src, hl))
    BY <1>2 DEF MarkRight
  <2> HIDE DEF F, G
  <2> QED BY <1>4, <2>1 DEF AllAligned
<1> HIDE DEF F, G
<1> QED BY <1>1, <1>4, <1>5, FlatAligned

-----------------------------------------------------------------------------
(* A line of a snippet *)

\* X is a line that shows w and highlights what it has of H.
Pieces(X, w, H) ==
  /\ X \in Seq(Fragment)
  /\ FlattenSeq(Texts(X)) = w
  /\ \A k \in DOMAIN X : X[k].kind = "Highlight" => Chars(X[k].s) \subseteq H
  /\ \A k \in DOMAIN X : X[k].kind = "Normal" => Chars(X[k].s) \cap H = {}
  /\ H \cap Chars(w) # {} => \E k \in DOMAIN X : X[k].kind = "Highlight" /\ X[k].s # <<>>

\* What the property says of a line, for what is to be highlighted of it.
Highlights(Y, w, H) ==
  LET hl   == Characters(Y, "Highlight")
      text == FlattenSeq(Texts(Y))
  IN  /\ Complete(Y) => text = w
      /\ text[1] = w[1] /\ text[Len(text)] = w[Len(w)]
      /\ hl = H \cap (hl \cup Characters(Y, "Normal"))
      /\ (H \cap Chars(w) # {}) => hl # {}
      /\ \A k \in DOMAIN Y : Len(Y[k].s) <= max_length(Y[k])

\* Shortened, such a line still highlights exactly what it shows of H.
LEMMA PiecesHighlighted ==
  ASSUME NEW X, NEW w \in Seq(Nat), w # <<>>, NEW H, Pieces(X, w, H)
  PROVE  Highlights(shorten_snippet_line(X), w, H)
<1> DEFINE Y  == shorten_snippet_line(X)
           hl == Characters(Y, "Highlight")
           nl == Characters(Y, "Normal")
           text == FlattenSeq(Texts(Y))
<1>1. ShortLine(Y, X)
  BY ShortenLine DEF Pieces
<1> HIDE DEF Y
<1>2. ASSUME NEW k \in DOMAIN Y
      PROVE  \E j \in DOMAIN X : LeftOf(Y[k], X[j])
  BY <1>1 DEF ShortLine
<1>3. \A j \in DOMAIN X : X[j].kind \in {"Normal", "Highlight"}
  <2>1. X \in Seq(Fragment)
    BY DEF Pieces
  <2>2. \A j \in DOMAIN X : X[j] \in Fragment
    BY <2>1, ElementOfSeq
  <2> QED BY <2>2 DEF Fragment
<1>4. ASSUME NEW k \in DOMAIN Y
      PROVE  /\ Y[k].kind = "Highlight" => Chars(Y[k].s) \subseteq H
             /\ Y[k].kind = "Normal" => Chars(Y[k].s) \cap H = {}
             /\ Len(Y[k].s) <= max_length(Y[k])
  <2>1. PICK j \in DOMAIN X : LeftOf(Y[k], X[j])
    BY <1>2
  <2>2. Chars(Y[k].s) \subseteq Chars(X[j].s) /\ Len(Y[k].s) <= max_length(Y[k])
        /\ Y[k].kind \in {X[j].kind, "Ellipsis"}
    BY <2>1 DEF LeftOf
  <2>3. Y[k].kind = "Highlight" => X[j].kind = "Highlight"
    BY <2>2
  <2>4. Y[k].kind = "Normal" => X[j].kind = "Normal"
    BY <2>2
  <2> QED BY <2>2, <2>3, <2>4 DEF Pieces
<1>5. ASSUME NEW c, NEW kind
      PROVE  c \in Characters(Y, kind) <=> \E k \in DOMAIN Y : Y[k].kind = kind /\ c \in Chars(Y[k].s)
  BY DEF Characters, Chars
<1> HIDE DEF hl, nl
<1>6. hl = H \cap (hl \cup nl)
  <2>1. \A c \in hl : c \in H
    BY <1>4, <1>5 DEF hl
  <2>2. \A c \in nl : c \notin H
    BY <1>4, <1>5 DEF nl
  <2> QED BY <2>1, <2>2
<1>7. ASSUME H \cap Chars(w) # {} PROVE hl # {}
  <2>1. PICK j \in DOMAIN X : X[j].kind = "Highlight" /\ X[j].s # <<>>
    BY <1>7 DEF Pieces
  <2>2. PICK k \in DOMAIN Y : Y[k].kind = "Highlight" /\ Y[k].s # <<>>
    BY <1>1, <2>1 DEF ShortLine
  <2>3. Y[k].s \in Seq(Nat)
    <3>1. Y \in Seq(AnyFragment)
      BY <1>1 DEF ShortLine
    <3>2. Y[k] \in AnyFragment
      BY <3>1, ElementOfSeq
    <3> QED BY <3>2 DEF AnyFragment
  <2>4. 1 \in DOMAIN Y[k].s
    BY <2>2, <2>3, EmptySeq, LenProperties
  <2>5. Y[k].s[1] \in Chars(Y[k].s)
    BY <2>4 DEF Chars
  <2> QED BY <1>5, <2>2, <2>5 DEF hl
<1>8. SameEnds(text, w)
  BY <1>1 DEF ShortLine, Pieces
<1>9. text # <<>> /\ text[1] = w[1] /\ text[Len(text)] = w[Len(w)]
  BY <1>8 DEF SameEnds
<1>10. Complete(Y) => text = w
  BY <1>1 DEF ShortLine, Pieces
<1> HIDE DEF text
<1> QED BY <1>4, <1>6, <1>7, <1>9, <1>10 DEF Highlights, hl, nl, text, Y

\* The same with the underline.
LEMMA PiecesShown ==
  ASSUME NEW src, NEW err, NEW row, NEW X,
         NEW w \in Seq(Nat), w = add_missing_newline(src, safe_get_row(src, row)), w # <<>>,
         NEW H, H = Target(src, err), Pieces(X, w, H)
  PROVE  LineRight(src, err, row, shorten_snippet_line(X))
<1> DEFINE Y     == shorten_snippet_line(X)
           hl    == Characters(Y, "Highlight")
           above == format_line(src, Y)
           under == format_underline(src, Y)
<1>1. Highlights(Y, w, H)
  BY PiecesHighlighted
<1>2. Y \in Seq(AnyFragment)
  BY ShortenLine DEF Pieces, ShortLine
<1> HIDE DEF Y
<1>3. ASSUME NEW k \in DOMAIN Y
      PROVE  /\ Y[k] \in AnyFragment
             /\ Y[k].kind = "Highlight" => Chars(Y[k].s) \subseteq hl
             /\ Y[k].kind = "Normal" => Chars(Y[k].s) \cap hl = {}
  <2>1. Y[k] \in AnyFragment
    BY <1>2, ElementOfSeq
  <2>2. Y[k].kind = "Highlight" => Chars(Y[k].s) \subseteq hl
    BY DEF Characters, Chars
  <2>3. hl = H \cap (hl \cup Characters(Y, "Normal"))
    BY <1>1 DEF Highlights
  <2>4. Y[k].kind = "Normal" => Chars(Y[k].s) \cap hl = {}
    <3> SUFFICES ASSUME Y[k].kind = "Normal", NEW c \in Chars(Y[k].s), c \in hl PROVE FALSE
      OBVIOUS
    <3>1. c \in H
      BY <2>3
    <3>2. PICK j \in DOMAIN X : LeftOf(Y[k], X[j])
      BY ShortenLine DEF Pieces, ShortLine, Y
    <3>3. X[j].kind = "Normal" /\ c \in Chars(X[j].s)
      <4>1. Y[k].kind \in {X[j].kind, "Ellipsis"} /\ Chars(Y[k].s) \subseteq Chars(X[j].s)
        BY <3>2 DEF LeftOf
      <4> QED BY <4>1
    <3> QED BY <3>1, <3>3 DEF Pieces
  <2> QED BY <2>1, <2>2, <2>4
<1>4. hl \subseteq Nat
  <2> SUFFICES ASSUME NEW c \in hl PROVE c \in Nat
    OBVIOUS
  <2>1. PICK k \in DOMAIN Y : c \in Chars(Y[k].s)
    BY DEF Characters, Chars
  <2>2. Y[k].s \in Seq(Nat)
    BY <1>3 DEF AnyFragment
  <2> QED BY <2>1, <2>2, ElementOfSeq DEF Chars
<1> HIDE DEF hl
<1>5. \A k \in DOMAIN Y : MarkRight(src, hl, Y[k])
  BY <1>3, <1>4, FragmentMarked
<1>6. under # <<>> => Aligned(above, under, Under(src, hl))
  BY <1>2, <1>4, <1>5, LineMarked
<1>7. ASSUME under # <<>>
      PROVE  /\ Len(under) = Len(above)
             /\ \A i \in DOMAIN under :
                  /\ (under[i] = "^") <=> (~is_LF(src, above[i]) /\ above[i] \in hl \cup {Blank})
                  /\ (under[i] = LF) <=> is_LF(src, above[i])
  <2> HIDE DEF under, above
  <2>1. Len(under) = Len(above)
    BY <1>6, <1>7 DEF Aligned
  <2>2. ASSUME NEW i \in DOMAIN under
        PROVE  /\ (under[i] = "^") <=> (~is_LF(src, above[i]) /\ above[i] \in hl \cup {Blank})
               /\ (under[i] = LF) <=> is_LF(src, above[i])
    <3>1. i \in DOMAIN above
      BY <1>6, <1>7 DEF Aligned
    <3>2. <<above[i], under[i]>> \in Under(src, hl)
      BY <1>6, <1>7, <3>1 DEF Aligned
    <3> QED BY <3>2 DEF Under
  <2> QED BY <2>1, <2>2
<1>8. Texts(Y) = [k \in DOMAIN Y |-> Y[k].s] /\ Chars(w) = {w[i] : i \in DOMAIN w}
  BY DEF Texts, Chars
<1> HIDE DEF above, under
<1> QED BY <1>1, <1>7, <1>8 DEF Highlights, LineRight, Y, hl, above, under

-----------------------------------------------------------------------------
(* A line cut into fragments *)

\* A fragment by itself.
LEMMA PiecesOne ==
  ASSUME NEW t \in Seq(Nat), NEW H
  PROVE  /\ Chars(t) \cap H = {} => Pieces(<<Normal(t)>>, t, H)
         /\ Chars(t) \subseteq H => Pieces(<<Highlight(t)>>, t, H)
<1>1. ASSUME NEW x \in Fragment, x.s = t
      PROVE  <<x>> \in Seq(Fragment) /\ FlattenSeq(Texts(<<x>>)) = t /\ DOMAIN <<x>> = {1} /\ <<x>>[1] = x
  <2>1. Texts(<<x>>) = <<t>>
    BY <1>1 DEF Texts
  <2>2. <<x>> \in Seq(Fragment)
    BY One
  <2>3. FlattenSeq(<<t>>) = t
    BY FlatOne
  <2> QED BY <2>1, <2>2, <2>3
<1>2. ASSUME Chars(t) \cap H = {}
      PROVE  Pieces(<<Normal(t)>>, t, H)
  <2> DEFINE x == Normal(t)
             X == <<x>>
  <2>1. x \in Fragment /\ x.s = t /\ x.kind = "Normal"
    BY DEF Normal, Fragment
  <2> HIDE DEF x
  <2>2. X \in Seq(Fragment) /\ FlattenSeq(Texts(X)) = t /\ DOMAIN X = {1} /\ X[1] = x
    BY <1>1, <2>1
  <2> HIDE DEF X
  <2>3. Pieces(X, t, H)
    BY <1>2, <2>1, <2>2 DEF Pieces
  <2> QED BY <2>3 DEF X, x
<1>3. ASSUME Chars(t) \subseteq H
      PROVE  Pieces(<<Highlight(t)>>, t, H)
  <2> DEFINE x == Highlight(t)
             X == <<x>>
  <2>1. x \in Fragment /\ x.s = t /\ x.kind = "Highlight"
    BY DEF Highlight, Fragment
  <2> HIDE DEF x
  <2>2. X \in Seq(Fragment) /\ FlattenSeq(Texts(X)) = t /\ DOMAIN X = {1} /\ X[1] = x
    BY <1>1, <2>1
  <2> HIDE DEF X
  <2>3. Chars(t) # {} => t # <<>>
    BY DEF Chars
  <2>4. Pieces(X, t, H)
    BY <1>3, <2>1, <2>2, <2>3 DEF Pieces
  <2> QED BY <2>4 DEF X, x
<1> QED BY <1>2, <1>3

\* Two parts of a line.
LEMMA PiecesConcat ==
  ASSUME NEW H, NEW X, NEW Y, NEW u \in Seq(Nat), NEW v \in Seq(Nat), Pieces(X, u, H), Pieces(Y, v, H)
  PROVE  Pieces(X \o Y, u \o v, H)
<1> DEFINE Z == X \o Y
           w == u \o v
<1>1. X \in Seq(Fragment) /\ Y \in Seq(Fragment)
  BY DEF Pieces
<1>2. Z \in Seq(Fragment) /\ Joined(Z, X, Y) /\ Joined(w, u, v)
  BY <1>1, ConcatJoins, ConcatProperties
<1>3. FlattenSeq(Texts(Z)) = w
  <2>1. X \in Seq(AnyFragment) /\ Y \in Seq(AnyFragment)
    <3>1. \A W \in Seq(Fragment) : W \in Seq(AnyFragment)
      <4> SUFFICES ASSUME NEW W \in Seq(Fragment) PROVE W \in Seq(AnyFragment)
        OBVIOUS
      <4>1. Fragment \subseteq AnyFragment
        BY DEF Fragment, AnyFragment
      <4>2. Len(W) \in Nat /\ \A i \in 1 .. Len(W) : W[i] \in AnyFragment
        BY <4>1, LenProperties, ElementOfSeq
      <4>3. W = [i \in 1 .. Len(W) |-> W[i]]
        <5>1. W \in [1 .. Len(W) -> Fragment]
          BY LenProperties
        <5> QED BY <5>1
      <4> QED BY <4>2, <4>3
    <3> QED BY <1>1, <3>1
  <2>2. Texts(Z) = Texts(X) \o Texts(Y)
    BY <2>1, TextsConcat
  <2>3. FlattenSeq(Texts(X) \o Texts(Y)) = FlattenSeq(Texts(X)) \o FlattenSeq(Texts(Y))
    BY <2>1, TextsType, FlatConcat
  <2> QED BY <2>2, <2>3 DEF Pieces
<1> HIDE DEF Z, w
<1>4. ASSUME NEW k \in DOMAIN Z
      PROVE  /\ Z[k].kind = "Highlight" => Chars(Z[k].s) \subseteq H
             /\ Z[k].kind = "Normal" => Chars(Z[k].s) \cap H = {}
  <2>1. CASE k \in DOMAIN X /\ Z[k] = X[k]
    BY <2>1 DEF Pieces
  <2>2. CASE k - Len(X) \in DOMAIN Y /\ Z[k] = Y[k - Len(X)]
    BY <2>2 DEF Pieces
  <2> QED BY <1>2, <2>1, <2>2 DEF Joined
<1>5. ASSUME H \cap Chars(w) # {}
      PROVE  \E k \in DOMAIN Z : Z[k].kind = "Highlight" /\ Z[k].s # <<>>
  <2>1. PICK i \in DOMAIN w : w[i] \in H
    BY <1>5 DEF Chars
  <2>2. CASE i \in DOMAIN u /\ w[i] = u[i]
    <3>1. H \cap Chars(u) # {}
      BY <2>1, <2>2 DEF Chars
    <3>2. PICK k \in DOMAIN X : X[k].kind = "Highlight" /\ X[k].s # <<>>
      BY <3>1 DEF Pieces
    <3>3. k \in DOMAIN Z /\ Z[k] = X[k]
      BY <1>2 DEF Joined
    <3> QED BY <3>2, <3>3
  <2>3. CASE i - Len(u) \in DOMAIN v /\ w[i] = v[i - Len(u)]
    <3>1. H \cap Chars(v) # {}
      BY <2>1, <2>3 DEF Chars
    <3>2. PICK k \in DOMAIN Y : Y[k].kind = "Highlight" /\ Y[k].s # <<>>
      BY <3>1 DEF Pieces
    <3>3. Len(X) + k \in DOMAIN Z /\ Z[Len(X) + k] = Y[k]
      BY <1>2 DEF Joined
    <3> QED BY <3>2, <3>3
  <2> QED BY <1>2, <2>1, <2>2, <2>3 DEF Joined
<1>6. Pieces(Z, w, H)
  BY <1>2, <1>3, <1>4, <1>5 DEF Pieces
<1> QED BY <1>6 DEF Z, w

LEMMA SplitAt ==
  ASSUME NEW s \in Seq(Nat), NEW j \in Nat, j <= Len(s)
  PROVE  SubSeq(s, 1, j) \o SubSeq(s, j + 1, Len(s)) = s
<1>1. Len(s) \in Nat
  BY LenProperties
<1>2. SubSeq(s, 1, j) \o SubSeq(s, j + 1, Len(s)) = SubSeq(s, 1, Len(s))
  <2>1. 1 \in 1 .. Len(s) + 1 /\ j \in 1 - 1 .. Len(s) /\ Len(s) \in j .. Len(s)
    BY <1>1
  <2> QED BY <2>1, ConcatAdjacentSubSeq
<1> QED BY <1>2, SubSeqFull

LEMMA BeforeIs ==
  ASSUME NEW s \in Seq(Nat), NEW lo \in Nat, lo <= Len(s)
  PROVE  before(s, lo) = SubSeq(s, 1, lo) /\ IsPart(before(s, lo), s, 0, lo)
<1>1. Len(s) \in Nat /\ Smaller(Len(s), 0 + lo) = lo
  BY LenProperties DEF Smaller
<1>2. before(s, lo) = SubSeq(s, 0 + 1, Smaller(Len(s), 0 + lo))
  <2>1. 0 \in Nat /\ 0 <= Len(s)
    BY <1>1
  <2>2. safe_sub(s, 0, lo) = SubSeq(s, 0 + 1, Smaller(Len(s), 0 + lo))
    BY <2>1, SafeSubIs
  <2> QED BY <2>2 DEF before
<1>3. IsPart(SubSeq(s, 0 + 1, lo), s, 0, lo)
  BY PartOf
<1> QED BY <1>1, <1>2, <1>3

LEMMA AfterIs ==
  ASSUME NEW s \in Seq(Nat), NEW q \in Nat, q <= Len(s)
  PROVE  after(s, q) = SubSeq(s, q + 1, Len(s)) /\ IsPart(after(s, q), s, q, Len(s))
<1> DEFINE n == Len(s)
<1>1. n \in Nat /\ n - q \in Nat /\ q + (n - q) = n /\ Smaller(n, q + (n - q)) = n
  BY LenProperties DEF Smaller
<1>2. after(s, q) = SubSeq(s, q + 1, Smaller(n, q + (n - q)))
  BY <1>1, SafeSubIs DEF after
<1>3. IsPart(SubSeq(s, q + 1, n), s, q, n)
  BY <1>1, PartOf
<1> QED BY <1>1, <1>2, <1>3

\* A line cut at two places.
LEMMA Cut ==
  ASSUME NEW w \in Seq(Nat), NEW lo \in Nat, NEW q \in Nat, lo <= q, q <= Len(w)
  PROVE  LET x == before(w, lo)
             y == after(before(w, q), lo)
             z == after(w, q)
         IN  /\ IsPart(x, w, 0, lo) /\ IsPart(z, w, q, Len(w))
             /\ y \in Seq(Nat) /\ Chars(y) \subseteq {w[k] : k \in lo + 1 .. q}
             /\ x \o y = before(w, q) /\ before(w, q) \o z = w
<1> DEFINE n == Len(w)
           u == before(w, q)
           x == before(w, lo)
           y == after(u, lo)
           z == after(w, q)
<1>1. n \in Nat /\ lo <= n
  BY LenProperties
<1>2. /\ IsPart(x, w, 0, lo) /\ IsPart(u, w, 0, q) /\ IsPart(z, w, q, n)
      /\ x = SubSeq(w, 1, lo) /\ u = SubSeq(w, 1, q) /\ z = SubSeq(w, q + 1, n)
  BY <1>1, BeforeIs, AfterIs
<1>3. u \o z = w
  BY <1>2, SplitAt
<1> HIDE DEF u
<1>4. u \in Seq(Nat) /\ Len(u) = q /\ \A k \in 1 .. q : u[k] = w[k]
  BY <1>2 DEF IsPart
<1>5. y = SubSeq(u, lo + 1, q) /\ IsPart(y, u, lo, q)
  BY <1>4, AfterIs
<1>6. SubSeq(u, 1, lo) \o SubSeq(u, lo + 1, q) = u
  BY <1>4, SplitAt
<1>7. before(u, lo) = SubSeq(u, 1, lo) /\ IsPart(before(u, lo), u, 0, lo)
  BY <1>4, BeforeIs
<1>8. before(u, lo) = x
  <2> DEFINE v == before(u, lo)
  <2> HIDE DEF v, x
  <2>5. lo - 0 = lo /\ \A k \in 1 .. lo : 0 + k = k /\ k \in 1 .. q
    OBVIOUS
  <2>1. v \in Seq(Nat) /\ Len(v) = lo /\ \A k \in 1 .. lo : v[k] = u[k]
    BY <1>7, <2>5 DEF IsPart, v
  <2>2. x \in Seq(Nat) /\ Len(x) = lo /\ \A k \in 1 .. lo : x[k] = w[k]
    BY <1>2, <2>5 DEF IsPart
  <2>3. \A k \in 1 .. lo : v[k] = x[k]
    BY <1>4, <2>1, <2>2, <2>5
  <2>4. v = x
    BY <2>1, <2>2, <2>3, SeqEqual
  <2> QED BY <2>4 DEF v
<1>9. x \o y = u
  BY <1>5, <1>6, <1>7, <1>8
<1>10. y \in Seq(Nat) /\ Chars(y) \subseteq {w[k] : k \in lo + 1 .. q}
  <2>1. Chars(y) = {u[k] : k \in lo + 1 .. q} /\ y \in Seq(Nat)
    BY <1>5 DEF IsPart
  <2>2. \A k \in lo + 1 .. q : u[k] = w[k]
    BY <1>4
  <2> QED BY <2>1, <2>2
<1> QED BY <1>2, <1>3, <1>9, <1>10 DEF u

LEMMA ThreeConcat ==
  ASSUME NEW a, NEW b, NEW c
  PROVE  (<<a>> \o <<b>>) \o <<c>> = <<a, b, c>>
<1> DEFINE S == {a, b, c}
           s == <<a, b>>
           t == <<c>>
           u == <<a, b, c>>
<1>1. /\ s \in Seq(S) /\ t \in Seq(S) /\ u \in Seq(S) /\ Len(s) = 2 /\ Len(t) = 1 /\ Len(u) = 3
      /\ s[1] = a /\ s[2] = b /\ t[1] = c /\ u[1] = a /\ u[2] = b /\ u[3] = c
  OBVIOUS
<1>2. <<a>> \o <<b>> = s
  BY TwoConcat
<1> HIDE DEF S, s, t, u
<1>3. s \o t \in Seq(S) /\ Len(s \o t) = Len(s) + Len(t)
      /\ \A i \in 1 .. Len(s) + Len(t) : (s \o t)[i] = IF i <= Len(s) THEN s[i] ELSE t[i - Len(s)]
  BY <1>1, ConcatProperties
<1>4. (s \o t)[1] = a /\ (s \o t)[2] = b /\ (s \o t)[3] = c
  BY <1>1, <1>3
<1>5. \A i \in 1 .. 3 : (s \o t)[i] = u[i]
  <2>1. \A i \in 1 .. 3 : i = 1 \/ i = 2 \/ i = 3
    OBVIOUS
  <2> QED BY <1>1, <1>4, <2>1
<1>6. s \o t = u
  BY <1>1, <1>3, <1>5, SeqEqual
<1> QED BY <1>2, <1>6 DEF t, u

\* What of w is in H are its characters from lo up to q.
Between(w, H, lo, q) ==
  /\ lo \in Nat /\ q \in Nat /\ lo <= q /\ q <= Len(w)
  /\ \A i \in 1 .. Len(w) : w[i] \in H <=> lo < i /\ i <= q

\* The ways in which extract_line cuts a line.
LEMMA PiecesThree ==
  ASSUME NEW w \in Seq(Nat), NEW H, NEW lo, NEW q, Between(w, H, lo, q)
  PROVE  /\ Pieces(<<Normal(before(w, lo)), Highlight(after(before(w, q), lo)), Normal(after(w, q))>>, w, H)
         /\ lo = 0 => Pieces(<<Highlight(before(w, q)), Normal(after(w, q))>>, w, H)
         /\ q = Len(w) => Pieces(<<Normal(before(w, lo)), Highlight(after(w, lo))>>, w, H)
         /\ lo = 0 /\ q = Len(w) => Pieces(<<Highlight(w)>>, w, H)
         /\ lo = q => Pieces(<<Normal(w)>>, w, H)
<1> DEFINE n == Len(w)
           u == before(w, q)
           x == before(w, lo)
           y == after(u, lo)
           z == after(w, q)
<1>1. lo \in Nat /\ q \in Nat /\ lo <= q /\ q <= n /\ n \in Nat /\ lo <= n /\ DOMAIN w = 1 .. n
      /\ \A i \in 1 .. n : w[i] \in H <=> lo < i /\ i <= q
  BY LenProperties DEF Between
<1>2. /\ IsPart(x, w, 0, lo) /\ IsPart(z, w, q, n) /\ IsPart(u, w, 0, q)
      /\ y \in Seq(Nat) /\ Chars(y) \subseteq {w[k] : k \in lo + 1 .. q}
      /\ x \o y = u /\ u \o z = w
  BY <1>1, Cut, BeforeIs
<1> HIDE DEF n, u, x, y, z
<1>3. /\ x \in Seq(Nat) /\ z \in Seq(Nat) /\ u \in Seq(Nat)
      /\ Chars(x) = {w[k] : k \in 0 + 1 .. lo} /\ Chars(z) = {w[k] : k \in q + 1 .. n}
      /\ Chars(u) = {w[k] : k \in 0 + 1 .. q}
  BY <1>2 DEF IsPart
<1>4. Chars(x) \cap H = {}
  <2>1. \A k \in 0 + 1 .. lo : k \in 1 .. n /\ ~(lo < k)
    BY <1>1
  <2> QED BY <1>1, <1>3, <2>1
<1>5. Chars(z) \cap H = {}
  <2>1. \A k \in q + 1 .. n : k \in 1 .. n /\ ~(k <= q)
    BY <1>1
  <2> QED BY <1>1, <1>3, <2>1
<1>6. Chars(y) \subseteq H
  <2>1. \A k \in lo + 1 .. q : k \in 1 .. n /\ lo < k /\ k <= q
    BY <1>1
  <2> QED BY <1>1, <1>2, <2>1
<1> DEFINE a == Normal(x)
           b == Highlight(y)
           c == Normal(z)
<1>7. Pieces(<<a>>, x, H) /\ Pieces(<<b>>, y, H) /\ Pieces(<<c>>, z, H)
  BY <1>2, <1>3, <1>4, <1>5, <1>6, PiecesOne
<1> HIDE DEF a, b, c
<1>8. Pieces(<<a, b, c>>, w, H)
  <2>1. Pieces(<<a>> \o <<b>>, u, H)
    BY <1>2, <1>3, <1>7, PiecesConcat
  <2>2. Pieces((<<a>> \o <<b>>) \o <<c>>, w, H)
    BY <1>2, <1>3, <1>7, <2>1, PiecesConcat
  <2> QED BY <2>2, ThreeConcat
<1>9. ASSUME lo = 0
      PROVE  Pieces(<<Highlight(u), c>>, w, H)
  <2>1. Chars(u) \subseteq H
    <3>1. \A k \in 0 + 1 .. q : k \in 1 .. n /\ lo < k /\ k <= q
      BY <1>1, <1>9
    <3> QED BY <1>1, <1>3, <3>1
  <2>2. Pieces(<<Highlight(u)>>, u, H)
    BY <1>3, <2>1, PiecesOne
  <2>3. Pieces(<<Highlight(u)>> \o <<c>>, w, H)
    BY <1>2, <1>3, <1>7, <2>2, PiecesConcat
  <2> QED BY <2>3, TwoConcat
<1>10. ASSUME q = n
       PROVE  Pieces(<<a, Highlight(after(w, lo))>>, w, H)
  <2> DEFINE v == after(w, lo)
  <2>1. IsPart(v, w, lo, n) /\ v = SubSeq(w, lo + 1, n) /\ x = SubSeq(w, 1, lo)
    BY <1>1, AfterIs, BeforeIs DEF x, n
  <2>2. x \o v = w
    BY <1>1, <2>1, SplitAt DEF n
  <2> HIDE DEF v
  <2>3. v \in Seq(Nat) /\ Chars(v) = {w[k] : k \in lo + 1 .. n}
    BY <2>1 DEF IsPart
  <2>4. Chars(v) \subseteq H
    <3>1. \A k \in lo + 1 .. n : k \in 1 .. n /\ lo < k /\ k <= q
      BY <1>1, <1>10
    <3> QED BY <1>1, <2>3, <3>1
  <2>5. Pieces(<<Highlight(v)>>, v, H)
    BY <2>3, <2>4, PiecesOne
  <2>6. Pieces(<<a>> \o <<Highlight(v)>>, w, H)
    BY <1>3, <1>7, <2>2, <2>3, <2>5, PiecesConcat
  <2> QED BY <2>6, TwoConcat DEF v
<1>11. lo = 0 /\ q = n => Pieces(<<Highlight(w)>>, w, H)
  <2>1. lo = 0 /\ q = n => Chars(w) \subseteq H
    BY <1>1 DEF Chars
  <2> QED BY <2>1, PiecesOne
<1>12. lo = q => Pieces(<<Normal(w)>>, w, H)
  <2>1. lo = q => Chars(w) \cap H = {}
    BY <1>1 DEF Chars
  <2> QED BY <2>1, PiecesOne
<1> QED BY <1>8, <1>9, <1>10, <1>11, <1>12 DEF n, u, x, y, z, a, b, c

-----------------------------------------------------------------------------
(* What a line has to highlight *)

\* w is the k-th line with a newline at its end.
Whole(w, text, k) ==
  LET n == Stop(text, k) - Start(text, k)
  IN  /\ w \in Seq(Nat) /\ Len(w) \in Nat \ {0}
      /\ Len(w) = IF k = NumLines(text) THEN n + 1 ELSE n
      /\ \A i \in 1 .. Len(w) : w[i] = IF i <= n THEN Start(text, k) + i ELSE AddedLF

\* What add_missing_newline makes of a row.
LEMMA WholeIs ==
  ASSUME NEW text \in Seq(STRING), NEW row \in Nat, row < NumLines(text)
  PROVE  Whole(add_missing_newline(load_string(text), safe_get_row(load_string(text), row)), text, row + 1)
<1> DEFINE k == row + 1
           S == Start(text, k)
           E == Stop(text, k)
           src == load_string(text)
           line == safe_get_row(src, row)
           w == add_missing_newline(src, line)
           last == k = NumLines(text)
<1>1. k \in 1 .. NumLines(text) /\ IsChars(line, S, E)
  BY RowIs
<1>2. /\ S \in Nat /\ E \in Nat /\ S <= E
      /\ ~last => S < E /\ text[E] = LF
      /\ last => \A i \in S + 1 .. E : text[i] # LF
  <2>1. NumLines(text) \in Nat /\ k <= NumLines(text)
    BY <1>1, LineBounds
  <2>2. ~last => k < NumLines(text)
    BY <1>1, <2>1
  <2>3. /\ S \in Nat /\ E \in Nat /\ S <= E
        /\ k < NumLines(text) => S < E /\ text[E] = LF
        /\ \A i \in S + 1 .. E : text[i] = LF => i = E /\ k < NumLines(text)
    BY <1>1, LineBounds
  <2>4. last => ~(k < NumLines(text))
    BY <2>1
  <2> QED BY <2>2, <2>3, <2>4
<1>3. src.text = text
  BY DEF load_string
<1> HIDE DEF S, E, src, line, last
<1>4. line \in Seq(Nat) /\ Len(line) = E - S /\ \A i \in 1 .. E - S : line[i] = S + i
  BY <1>1 DEF IsChars
<1>5. (line = <<>>) <=> (E - S = 0)
  BY <1>4, EmptySeq
<1>6. line # <<>> => /\ line[Len(line)] = E /\ E \in S + 1 .. E
                     /\ is_LF(src, line[Len(line)]) <=> text[E] = LF
  <2> SUFFICES ASSUME line # <<>>
               PROVE  /\ line[Len(line)] = E /\ E \in S + 1 .. E
                      /\ is_LF(src, line[Len(line)]) <=> text[E] = LF
    OBVIOUS
  <2>1. E - S \in 1 .. E - S /\ S + (E - S) = E
    BY <1>2, <1>5
  <2>2. line[Len(line)] = E /\ E \in S + 1 .. E
    BY <1>2, <1>4, <2>1
  <2>3. E > 0 /\ E # AddedLF
    BY <1>2, <2>2 DEF AddedLF
  <2>4. is_LF(src, E) <=> text[E] = LF
    BY <1>3, <2>3 DEF is_LF
  <2> QED BY <2>2, <2>4
<1>7. CASE ~last
  <2>1. line # <<>>
    BY <1>2, <1>5, <1>7
  <2>2. w = line
    BY <1>2, <1>6, <1>7, <2>1 DEF add_missing_newline
  <2>3. Len(w) = E - S /\ E - S \in Nat \ {0}
    BY <1>2, <1>4, <1>7, <2>2
  <2>4. \A i \in 1 .. Len(w) : w[i] = IF i <= E - S THEN S + i ELSE AddedLF
    BY <1>4, <2>2, <2>3
  <2> HIDE DEF w
  <2>5. w \in Seq(Nat) /\ k # NumLines(text)
    BY <1>4, <1>7, <2>2 DEF last
  <2>6. Whole(w, text, k)
    BY <2>3, <2>4, <2>5 DEF Whole, S, E
  <2> QED BY <2>6 DEF w, src, line
<1>8. CASE last
  <2>1. line # <<>> => ~is_LF(src, line[Len(line)])
    BY <1>2, <1>6, <1>8
  <2>2. w = Append(line, AddedLF)
    BY <2>1 DEF add_missing_newline
  <2>3. AddedLF \in Nat
    BY DEF AddedLF
  <2>4. /\ w \in Seq(Nat) /\ Len(w) = Len(line) + 1 /\ w[Len(line) + 1] = AddedLF
        /\ \A i \in 1 .. Len(line) : w[i] = line[i]
    BY <1>4, <2>2, <2>3, AppendProperties
  <2> HIDE DEF w
  <2>5. Len(w) = E - S + 1 /\ Len(w) \in Nat \ {0}
    BY <1>2, <1>4, <2>4
  <2>6. ASSUME NEW i \in 1 .. Len(w) PROVE w[i] = IF i <= E - S THEN S + i ELSE AddedLF
    <3>1. CASE i <= E - S
      BY <1>2, <1>4, <2>4, <3>1
    <3>2. CASE ~(i <= E - S)
      <4>1. i = Len(line) + 1
        BY <1>2, <1>4, <2>5, <3>2
      <4> QED BY <2>4, <3>2, <4>1
    <3> QED BY <3>1, <3>2
  <2>7. k = NumLines(text)
    BY <1>8 DEF last
  <2>8. Whole(w, text, k)
    BY <2>4, <2>5, <2>6, <2>7 DEF Whole, S, E
  <2> QED BY <2>8 DEF w, src, line
<1> QED BY <1>7, <1>8

\* Where a character is, the added newline being after the text.
Place(text, c) == IF c = AddedLF THEN Len(text) + 1 ELSE c

\* The characters of a line are in their places.
LEMMA PlaceIs ==
  ASSUME NEW text \in Seq(STRING), NEW k \in 1 .. NumLines(text), NEW w, Whole(w, text, k)
  PROVE  \A i \in 1 .. Len(w) : w[i] \in 0 .. Len(text) /\ Place(text, w[i]) = Start(text, k) + i
<1> DEFINE S == Start(text, k)
           E == Stop(text, k)
           N == Len(text)
<1>1. S \in Nat /\ E \in Nat /\ N \in Nat /\ S <= E /\ E <= N /\ (k = NumLines(text) => E = N)
  BY LineBounds
<1>2. /\ Len(w) = IF k = NumLines(text) THEN (E - S) + 1 ELSE E - S
      /\ \A i \in 1 .. Len(w) : w[i] = IF i <= E - S THEN S + i ELSE AddedLF
  BY DEF Whole
<1> HIDE DEF S, E, N
<1> TAKE i \in 1 .. Len(w)
<1>3. CASE i <= E - S
  <2>1. w[i] = S + i /\ w[i] \in 0 .. N /\ w[i] # AddedLF
    BY <1>1, <1>2, <1>3 DEF AddedLF
  <2> QED BY <2>1 DEF Place, S, N
<1>4. CASE ~(i <= E - S)
  <2>1. w[i] = AddedLF /\ k = NumLines(text) /\ i = (E - S) + 1
    BY <1>1, <1>2, <1>4
  <2>2. N + 1 = S + i /\ AddedLF \in 0 .. N
    BY <1>1, <2>1 DEF AddedLF
  <2> QED BY <2>1, <2>2 DEF Place, S, N
<1> QED BY <1>3, <1>4

\* What has to be highlighted are the characters of the region, or the one that
\* follows an empty region.
LEMMA TargetIs ==
  ASSUME NEW text \in Seq(STRING), NEW a \in 0 .. Len(text), NEW b \in 0 .. Len(text), a <= b,
         NEW err, err.start_pos = PointAt(text, a), err.end_pos = PointAt(text, b),
         NEW c \in 0 .. Len(text)
  PROVE  c \in Target(load_string(text), err) <=> a < Place(text, c) /\ Place(text, c) <= Larger(a + 1, b)
<1> DEFINE src == load_string(text)
           N   == Len(text)
           R   == Region(src, err)
<1>1. Offset(src, err.start_pos) = a /\ Offset(src, err.end_pos) = b
  BY OffsetIs
<1>2. src.text = text /\ N \in Nat
  BY LenProperties DEF load_string
<1> HIDE DEF src, N
<1>3. R = a + 1 .. b
  BY <1>1 DEF Region
<1> HIDE DEF R
<1>4. Place(text, c) = (IF c = 0 THEN N + 1 ELSE c) /\ AddedLF = 0 /\ a \in Nat /\ b \in Nat /\ c \in Nat
      /\ a <= N /\ b <= N /\ c <= N
  BY <1>2 DEF Place, AddedLF, N
<1>5. Larger(a + 1, b) = IF a < b THEN b ELSE a + 1
  BY <1>4 DEF Larger
<1>6. CASE a < b
  <2>1. R # {}
    <3>1. b \in R
      BY <1>3, <1>4, <1>6
    <3> QED BY <3>1
  <2>2. Target(src, err) = R
    BY <2>1 DEF Target, R
  <2>3. c \in R <=> a < Place(text, c) /\ Place(text, c) <= b
    <3>1. c \in R <=> a + 1 <= c /\ c <= b
      BY <1>3, <1>4
    <3>2. CASE c = 0
      BY <1>2, <1>4, <3>1, <3>2
    <3>3. CASE c # 0
      BY <1>4, <3>1, <3>3
    <3> QED BY <3>2, <3>3
  <2> QED BY <1>5, <1>6, <2>2, <2>3 DEF src
<1>7. CASE ~(a < b)
  <2>1. R = {}
    BY <1>3, <1>4, <1>7
  <2>2. Target(src, err) = IF a + 1 <= N THEN {a + 1} ELSE {AddedLF}
    BY <1>1, <1>2, <2>1 DEF Target, R, N
  <2>3. c \in Target(src, err) <=> (IF a + 1 <= N THEN c = a + 1 ELSE c = 0)
    BY <1>4, <2>2
  <2>4. (IF a + 1 <= N THEN c = a + 1 ELSE c = 0) <=> a < Place(text, c) /\ Place(text, c) <= a + 1
    BY <1>2, <1>4
  <2> QED BY <1>5, <1>7, <2>3, <2>4 DEF src
<1> QED BY <1>6, <1>7

\* What a line of a snippet has to highlight.
LEMMA RowBetween ==
  ASSUME NEW text \in Seq(STRING), NEW a \in 0 .. Len(text), NEW b \in 0 .. Len(text), a <= b,
         NEW err, err.start_pos = PointAt(text, a), err.end_pos = PointAt(text, b),
         NEW row \in Nat, row < NumLines(text), NEW w, Whole(w, text, row + 1)
  PROVE  LET H  == Target(load_string(text), err)
             pa == PointAt(text, a)
             pb == PointAt(text, b)
         IN  /\ pa.row \in Nat /\ pb.row \in Nat /\ pa.row <= pb.row
             /\ row < pa.row \/ row > pb.row => Between(w, H, 0, 0)
             /\ row = pa.row /\ pa.row = pb.row => Between(w, H, pa.column, Larger(pa.column + 1, pb.column))
             /\ row = pa.row /\ pa.row < pb.row => Between(w, H, pa.column, Len(w))
             /\ row = pb.row /\ pa.row < pb.row => Between(w, H, 0, pb.column)
             /\ pa.row < row /\ row < pb.row => Between(w, H, 0, Len(w))
<1> DEFINE H  == Target(load_string(text), err)
           pa == PointAt(text, a)
           pb == PointAt(text, b)
           k  == row + 1
           S  == Start(text, k)
           E  == Stop(text, k)
           n  == Len(w)
           M  == NumLines(text)
           i1 == pa.row + 1
           i2 == pb.row + 1
           S1 == Start(text, i1)
           E1 == Stop(text, i1)
           S2 == Start(text, i2)
           E2 == Stop(text, i2)
           c  == pa.column
           d  == pb.column
           B  == Larger(a + 1, b)
<1>1. M \in Nat /\ k \in 1 .. M
  BY LineBounds
<1>2. /\ pa.row \in Nat /\ c \in Nat /\ i1 \in 1 .. M /\ a = S1 + c /\ a <= E1 /\ (i1 < M => a < E1)
      /\ pb.row \in Nat /\ d \in Nat /\ i2 \in 1 .. M /\ b = S2 + d /\ b <= E2 /\ (i2 < M => b < E2)
  BY PointIs
<1>3. pa.row <= pb.row
  BY RowsInOrder
<1>4. /\ S \in Nat /\ E \in Nat /\ S <= E /\ S1 \in Nat /\ E1 \in Nat /\ S2 \in Nat /\ E2 \in Nat
      /\ a \in Nat /\ b \in Nat
  <2>1. \A j \in 1 .. M : Start(text, j) \in Nat /\ Stop(text, j) \in Nat /\ Start(text, j) <= Stop(text, j)
    BY LineBounds
  <2>2. a \in Nat /\ b \in Nat
    BY LenProperties
  <2> HIDE DEF M, i1, i2, k
  <2> QED BY <1>1, <1>2, <2>1, <2>2
<1>5. /\ k < i1 => E <= S1
      /\ i1 < k => E1 <= S
      /\ k < i2 => E <= S2
      /\ i2 < k => E2 <= S
      /\ i1 < i2 => E1 <= S2
  BY <1>1, <1>2, LinesInOrder
<1>6. n \in Nat \ {0} /\ n = IF k = M THEN (E - S) + 1 ELSE E - S
  BY DEF Whole
<1>7. \A i \in 1 .. n : w[i] \in H <=> a < S + i /\ S + i <= B
  <2>1. \A i \in 1 .. n : w[i] \in 0 .. Len(text) /\ Place(text, w[i]) = S + i
    BY <1>1, PlaceIs
  <2> TAKE i \in 1 .. n
  <2>2. w[i] \in H <=> a < Place(text, w[i]) /\ Place(text, w[i]) <= B
    BY <2>1, TargetIs
  <2> QED BY <2>1, <2>2
<1>8. B = IF a + 1 > b THEN a + 1 ELSE b
  BY DEF Larger
<1>9. pa.row = row <=> i1 = k
  BY <1>2
<1>10. i1 = k => S1 = S /\ E1 = E
  BY <1>2
<1>11. i2 = k => S2 = S /\ E2 = E
  BY <1>2
<1>12. i1 = i2 => S1 = S2 /\ E1 = E2
  BY <1>2
<1>13. a <= b
  OBVIOUS
<1> DEFINE ra == pa.row
           rb == pb.row
<1>14. i1 = ra + 1 /\ i2 = rb + 1 /\ k = row + 1 /\ ra \in Nat /\ rb \in Nat /\ ra <= rb
  BY <1>2, <1>3
<1>15. Larger(c + 1, d) = IF c + 1 > d THEN c + 1 ELSE d
  BY DEF Larger
<1> HIDE DEF H, k, S, E, n, M, i1, i2, S1, E1, S2, E2, c, d, B, ra, rb
<1>16. row < ra \/ row > rb => Between(w, H, 0, 0)
  <2> SUFFICES ASSUME row < ra \/ row > rb PROVE Between(w, H, 0, 0)
    OBVIOUS
  <2>1. \A i \in 1 .. n : ~(a < S + i /\ S + i <= B)
    <3>1. CASE row < ra
      <4>1. k < i1 /\ k < M
        BY <1>1, <1>2, <1>14, <3>1
      <4>2. n = E - S /\ E <= S1 /\ S1 <= a
        BY <1>2, <1>4, <1>5, <1>6, <1>1, <4>1
      <4> QED BY <1>4, <4>2
    <3>2. CASE row > rb
      <4>1. i2 < k /\ i2 < M
        BY <1>1, <1>2, <1>14, <3>2
      <4>2. E2 <= S /\ b < E2
        BY <1>2, <1>5, <4>1
      <4>3. B <= S
        BY <1>4, <1>8, <1>13, <4>2
      <4> QED BY <1>4, <1>8, <4>3
    <3> QED BY <3>1, <3>2
  <2>2. \A i \in 1 .. n : ~(0 < i /\ i <= 0)
    BY <1>6
  <2> QED BY <1>6, <1>7, <2>1, <2>2 DEF Between, n
<1>17. row = ra /\ ra = rb => Between(w, H, c, Larger(c + 1, d))
  <2> SUFFICES ASSUME row = ra, ra = rb PROVE Between(w, H, c, Larger(c + 1, d))
    OBVIOUS
  <2> DEFINE q == Larger(c + 1, d)
  <2>1. i1 = k /\ i2 = k
    BY <1>14
  <2>2. a = S + c /\ b = S + d /\ a <= E /\ b <= E /\ (k < M => a < E)
    BY <1>2, <1>10, <1>11, <2>1
  <2>3. q \in Nat /\ c <= q /\ q <= n /\ B = S + q
    <3>1. q = IF c + 1 > d THEN c + 1 ELSE d
      BY <1>15
    <3>2. c + 1 <= n /\ d <= n
      <4>1. CASE k = M
        BY <1>2, <1>4, <1>6, <2>2, <4>1
      <4>2. CASE k # M
        <5>1. k < M
          BY <1>1, <4>2
        <5>2. n = E - S /\ S + c < E
          BY <1>6, <2>2, <4>2, <5>1
        <5> QED BY <1>2, <1>4, <2>2, <5>2
      <4> QED BY <4>1, <4>2
    <3>3. B = IF (S + c) + 1 > S + d THEN (S + c) + 1 ELSE S + d
      BY <1>8, <2>2
    <3> HIDE DEF q
    <3> QED BY <1>2, <1>4, <1>6, <3>1, <3>2, <3>3
  <2> HIDE DEF q
  <2>4. \A i \in 1 .. n : w[i] \in H <=> c < i /\ i <= q
    <3> TAKE i \in 1 .. n
    <3>1. i \in Nat
      BY <1>6
    <3>2. w[i] \in H <=> S + c < S + i /\ S + i <= S + q
      BY <1>7, <2>2, <2>3
    <3> QED BY <1>2, <1>4, <2>3, <3>1, <3>2
  <2>5. Between(w, H, c, q)
    BY <1>2, <2>3, <2>4 DEF Between, n
  <2> QED BY <2>5 DEF q
<1>18. row = ra /\ ra < rb => Between(w, H, c, n)
  <2> SUFFICES ASSUME row = ra, ra < rb PROVE Between(w, H, c, n)
    OBVIOUS
  <2>1. i1 = k /\ k < i2 /\ k < M /\ i1 < i2
    BY <1>1, <1>2, <1>14
  <2>2. a = S + c /\ a <= E /\ E <= S2 /\ S2 <= b /\ n = E - S
    BY <1>1, <1>2, <1>4, <1>5, <1>6, <1>10, <2>1
  <2>3. c <= n /\ a < E
    BY <1>2, <1>4, <1>10, <2>1, <2>2
  <2>4. B = b
    BY <1>4, <1>8, <2>2, <2>3
  <2>5. \A i \in 1 .. n : w[i] \in H <=> c < i /\ i <= n
    BY <1>2, <1>4, <1>6, <1>7, <2>2, <2>4
  <2> QED BY <1>2, <1>6, <2>3, <2>5 DEF Between, n
<1>19. row = rb /\ ra < rb => Between(w, H, 0, d)
  <2> SUFFICES ASSUME row = rb, ra < rb PROVE Between(w, H, 0, d)
    OBVIOUS
  <2>1. i2 = k /\ i1 < k /\ i1 < M
    BY <1>1, <1>2, <1>14
  <2>2. b = S + d /\ b <= E /\ E1 <= S /\ a < E1
    BY <1>1, <1>2, <1>5, <1>11, <2>1
  <2>3. d <= n
    BY <1>1, <1>2, <1>4, <1>6, <2>2
  <2>4. B = b
    BY <1>2, <1>4, <1>8, <2>2
  <2>5. \A i \in 1 .. n : w[i] \in H <=> 0 < i /\ i <= d
    BY <1>2, <1>4, <1>6, <1>7, <2>2, <2>4
  <2> QED BY <1>2, <1>6, <2>3, <2>5 DEF Between, n
<1>20. ra < row /\ row < rb => Between(w, H, 0, n)
  <2> SUFFICES ASSUME ra < row, row < rb PROVE Between(w, H, 0, n)
    OBVIOUS
  <2>1. i1 < k /\ k < i2 /\ k < M
    BY <1>1, <1>2, <1>14
  <2>2. E1 <= S /\ a <= E1 /\ E <= S2 /\ S2 <= b /\ n = E - S
    BY <1>1, <1>2, <1>4, <1>5, <1>6, <2>1
  <2>3. B = b
    BY <1>4, <1>6, <1>8, <2>2
  <2>4. \A i \in 1 .. n : w[i] \in H <=> 0 < i /\ i <= n
    BY <1>2, <1>4, <1>6, <1>7, <2>2, <2>3
  <2> QED BY <1>6, <2>4 DEF Between, n
<1> QED BY <1>2, <1>3, <1>16, <1>17, <1>18, <1>19, <1>20 DEF H, c, d, n, ra, rb

-----------------------------------------------------------------------------
(* A whole report *)

\* Every line that extract takes is cut as it has to be.
LEMMA ExtractPieces ==
  ASSUME NEW text \in Seq(STRING), NEW a \in 0 .. Len(text), NEW b \in 0 .. Len(text), a <= b,
         NEW err, err.start_pos = PointAt(text, a), err.end_pos = PointAt(text, b),
         NEW row \in Nat, row < NumLines(text), NEW w, Whole(w, text, row + 1)
  PROVE  Pieces(extract_line(w, row, err.start_pos, err.end_pos), w, Target(load_string(text), err))
<1> DEFINE H  == Target(load_string(text), err)
           pa == PointAt(text, a)
           pb == PointAt(text, b)
           X  == extract_line(w, row, pa, pb)
           ec == Larger(pa.column + 1, pb.column)
<1>1. w \in Seq(Nat)
  BY DEF Whole
<1>2. /\ pa.row \in Nat /\ pb.row \in Nat /\ pa.row <= pb.row
      /\ row < pa.row \/ row > pb.row => Between(w, H, 0, 0)
      /\ row = pa.row /\ pa.row = pb.row => Between(w, H, pa.column, ec)
      /\ row = pa.row /\ pa.row < pb.row => Between(w, H, pa.column, Len(w))
      /\ row = pb.row /\ pa.row < pb.row => Between(w, H, 0, pb.column)
      /\ pa.row < row /\ row < pb.row => Between(w, H, 0, Len(w))
  BY RowBetween
<1> HIDE DEF H, pa, pb
<1>3. X = IF row < pa.row \/ row > pb.row THEN <<Normal(w)>>
          ELSE IF pa.row = pb.row
          THEN <<Normal(before(w, pa.column)), Highlight(after(before(w, ec), pa.column)), Normal(after(w, ec))>>
          ELSE IF row = pa.row THEN <<Normal(before(w, pa.column)), Highlight(after(w, pa.column))>>
          ELSE IF row = pb.row THEN <<Highlight(before(w, pb.column)), Normal(after(w, pb.column))>>
          ELSE <<Highlight(w)>>
  BY DEF extract_line
<1> HIDE DEF X, ec
<1>4. CASE row < pa.row \/ row > pb.row
  BY <1>1, <1>2, <1>3, <1>4, PiecesThree DEF X, H, pa, pb
<1>5. CASE row = pa.row /\ pa.row = pb.row
  <2>1. X = <<Normal(before(w, pa.column)), Highlight(after(before(w, ec), pa.column)), Normal(after(w, ec))>>
    BY <1>2, <1>3, <1>5
  <2>2. Between(w, H, pa.column, ec)
    BY <1>2, <1>5
  <2>3. Pieces(X, w, H)
    BY <1>1, <2>1, <2>2, PiecesThree
  <2> QED BY <2>3 DEF X, H, pa, pb
<1>6. CASE row = pa.row /\ pa.row < pb.row
  <2>1. X = <<Normal(before(w, pa.column)), Highlight(after(w, pa.column))>>
    BY <1>2, <1>3, <1>6
  <2>2. Between(w, H, pa.column, Len(w))
    BY <1>2, <1>6
  <2>3. Pieces(X, w, H)
    BY <1>1, <2>1, <2>2, PiecesThree
  <2> QED BY <2>3 DEF X, H, pa, pb
<1>7. CASE row = pb.row /\ pa.row < pb.row
  <2>1. X = <<Highlight(before(w, pb.column)), Normal(after(w, pb.column))>>
    BY <1>2, <1>3, <1>7
  <2>2. Between(w, H, 0, pb.column)
    BY <1>2, <1>7
  <2>3. Pieces(X, w, H)
    BY <1>1, <2>1, <2>2, PiecesThree
  <2> QED BY <2>3 DEF X, H, pa, pb
<1>8. CASE pa.row < row /\ row < pb.row
  <2>1. X = <<Highlight(w)>>
    BY <1>2, <1>3, <1>8
  <2>2. Between(w, H, 0, Len(w))
    BY <1>2, <1>8
  <2>3. Pieces(X, w, H)
    BY <1>1, <2>1, <2>2, PiecesThree
  <2> QED BY <2>3 DEF X, H, pa, pb
<1> QED BY <1>2, <1>4, <1>5, <1>6, <1>7, <1>8

\* One error is located as the property says.
Located(src, err) ==
  LET top == first_row(err.start_pos)
  IN  /\ err.substring = chars(Offset(src, err.start_pos), Offset(src, err.end_pos))
      /\ top + Len(err.snippet) - 1 \in
           err.end_pos.row .. Smaller(err.end_pos.row + lines_after, LastRow(src))
      /\ \A j \in DOMAIN err.snippet : LineRight(src, err, top + j - 1, err.snippet[j])

LEMMA ErrorLocated ==
  ASSUME NEW text \in Seq(STRING), NEW node, NEW a \in 0 .. Len(text), NEW b \in 0 .. Len(text), a <= b,
         node.start_pos = PointAt(text, a), node.end_pos = PointAt(text, b)
  PROVE  Located(load_string(text), create_error(load_string(text), node))
<1> DEFINE src == load_string(text)
           err == create_error(src, node)
           pa  == PointAt(text, a)
           pb  == PointAt(text, b)
           top == first_row(pa)
           M   == NumLines(text)
           m   == last_row(src, pb) - top + 1
           sn  == extract(src, pa, pb)
<1>1. /\ err.start_pos = pa /\ err.end_pos = pb
      /\ err.substring = get_region(src, pa, pb) /\ err.snippet = sn
  BY DEF create_error
<1>2. Offset(src, pa) = a /\ Offset(src, pb) = b
  BY OffsetIs
<1>3. get_region(src, pa, pb) = chars(a, b)
  BY RegionIs
<1>4. pa.row \in Nat /\ pb.row \in Nat /\ pa.row <= pb.row /\ pb.row < M /\ M \in Nat
  <2>1. pa.row \in Nat /\ pb.row \in Nat /\ pb.row + 1 \in 1 .. M
    BY PointIs
  <2>2. pa.row <= pb.row
    BY RowsInOrder
  <2>3. M \in Nat
    BY LineBounds
  <2> HIDE DEF M, pa, pb
  <2> QED BY <2>1, <2>2, <2>3
<1>5. Len(src.lines) = M
  BY LinesAre
<1> HIDE DEF src, err, pa, pb, M
<1>6. lines_before \in Nat /\ lines_after \in Nat
  BY ReportAssumption
<1>7. /\ top = IF pa.row - lines_before > 0 THEN pa.row - lines_before ELSE 0
      /\ last_row(src, pb) = (IF pb.row + 1 + lines_after < M THEN pb.row + 1 + lines_after ELSE M) - 1
      /\ Smaller(pb.row + lines_after, LastRow(src)) =
           IF pb.row + lines_after < M - 1 THEN pb.row + lines_after ELSE M - 1
  BY <1>5 DEF first_row, last_row, Larger, Smaller, LastRow
<1> DEFINE L == last_row(src, pb)
<1>8. /\ top \in Nat /\ top <= pa.row /\ L \in Nat /\ L < M /\ pb.row <= L
      /\ L = Smaller(pb.row + lines_after, LastRow(src))
  <2> DEFINE x == pa.row
             y == pb.row
             Sm == Smaller(pb.row + lines_after, LastRow(src))
  <2>1. x \in Nat /\ y \in Nat /\ x <= y /\ y < M /\ M \in Nat
    BY <1>4
  <2>2. top = IF x - lines_before > 0 THEN x - lines_before ELSE 0
    BY <1>7
  <2>3. L = (IF y + 1 + lines_after < M THEN y + 1 + lines_after ELSE M) - 1
    BY <1>7
  <2>4. Sm = IF y + lines_after < M - 1 THEN y + lines_after ELSE M - 1
    BY <1>7
  <2> HIDE DEF top, L, x, y, Sm
  <2>5. top \in Nat /\ top <= x
    BY <1>6, <2>1, <2>2
  <2>6. L \in Nat /\ L < M /\ y <= L
    BY <1>6, <2>1, <2>3
  <2>7. L = Sm
    BY <1>6, <2>1, <2>3, <2>4
  <2> QED BY <2>5, <2>6, <2>7 DEF x, y, Sm
<1>9. /\ m \in Nat /\ Len(sn) = m /\ DOMAIN sn = 1 .. m
      /\ \A j \in 1 .. m : sn[j] =
           LET row == top + j - 1
           IN  shorten_snippet_line(extract_line(add_missing_newline(src, safe_get_row(src, row)), row, pa, pb))
  <2>1. m \in Nat
    <3> HIDE DEF top, L
    <3> QED BY <1>4, <1>8 DEF L
  <2>2. sn = [j \in 1 .. m |->
               LET row == top + j - 1
               IN  shorten_snippet_line(extract_line(add_missing_newline(src, safe_get_row(src, row)), row, pa, pb))]
    BY DEF extract
  <2> HIDE DEF sn, m, top
  <2> QED BY <2>1, <2>2
<1>10. m = L - top + 1
  OBVIOUS
<1> HIDE DEF top, L, m, sn
<1>11. top + Len(sn) - 1 \in pb.row .. Smaller(pb.row + lines_after, LastRow(src))
  BY <1>4, <1>8, <1>9, <1>10
<1>12. ASSUME NEW j \in DOMAIN sn
       PROVE  LineRight(src, err, top + j - 1, sn[j])
  <2> DEFINE row == top + j - 1
             w   == add_missing_newline(src, safe_get_row(src, row))
             X   == extract_line(w, row, pa, pb)
  <2>1. row \in Nat /\ row < M
    <3>1. j \in 1 .. m
      BY <1>9
    <3> QED BY <1>4, <1>8, <1>10, <3>1
  <2>2. sn[j] = shorten_snippet_line(X)
    BY <1>9
  <2> HIDE DEF row
  <2>3. Whole(w, text, row + 1)
    BY <2>1, WholeIs DEF src, M
  <2> HIDE DEF w
  <2>4. Pieces(X, w, Target(src, err))
    BY <1>1, <2>1, <2>3, ExtractPieces DEF src, M, pa, pb
  <2>5. w \in Seq(Nat) /\ w # <<>>
    BY <2>3, EmptySeq DEF Whole
  <2> HIDE DEF X
  <2>6. LineRight(src, err, row, shorten_snippet_line(X))
    BY <2>4, <2>5, PiecesShown DEF w
  <2> QED BY <2>2, <2>6 DEF row
<1>13. Located(src, err)
  BY <1>1, <1>2, <1>3, <1>11, <1>12 DEF Located, top
<1> QED BY <1>13 DEF src, err

-----------------------------------------------------------------------------
(* The inductive invariant *)

CountType == [errors : Nat, lines : Nat, error_lines : Nat, ext : Nat, int : Nat, other : Nat]
StatTyped(s) == s.error_count \in Nat /\ s.error_line_count \in Nat

\* What the parser writes of a file.
StatOf(file) == create_stat(parse_input_tree(file).src, parse_input_tree(file).errors)

Midway == pc \in {"next", "parser", "log", "exit"}

\* The files of the current project whose outcome has been counted.
Counted == IF pc = "next" THEN f ELSE f - 1

TypeInv ==
  /\ projects \in ProjectLists
  /\ p \in Nat /\ f \in Nat
  /\ pc \in {"project", "next", "parser", "log", "exit", "summary", "done"}
  /\ DOMAIN stat_txt = DOMAIN projects /\ \A k \in DOMAIN projects : StatTyped(stat_txt[k])
  /\ count \in CountType

\* Where the command is in its lists.
Progress ==
  /\ Len(csv) = p - 1 /\ csv \in Seq([files : Nat, count : CountType])
  /\ p >= 1 /\ p <= Len(projects) + 1
  /\ pc \in {"project", "next", "parser", "log", "exit"} => p <= Len(projects)
  /\ Midway => inputs \in {<<>>, projects[p]} /\ Counted \in 0 .. Len(inputs)
  /\ pc \in {"parser", "log", "exit"} => f \in 1 .. Len(inputs)

\* Nothing is recorded of files that are still to come.
Recorded ==
  /\ \A x \in failed_inputs :
       /\ x \in Nat \X Nat
       /\ (x[1] < p \/ (Midway /\ x[1] = p /\ x[2] \in 1 .. Counted))
  /\ \A x \in died :
       /\ x \in Nat \X Nat
       /\ (x[1] < p \/ (Midway /\ x[1] = p /\ x[2] <= f))
       /\ pc \in {"parser", "log"} => x # <<p, f>>

\* What is known of the current file: of what the parser found and, unless it
\* died, of what it wrote.
CurrentFile ==
  LET file == projects[p][f]
  IN  /\ pc \in {"parser", "log"} => res = parse_input_tree(file)
      /\ pc = "log" => stat_txt[p] = StatOf(file)
      /\ pc = "exit" =>
           /\ status \in {0, AnyError, ExternalError, InternalError, Killed}
           /\ Bad(file) => status # 0
           /\ <<p, f>> \notin died => stat_txt[p] = StatOf(file)

\* The counts c are those of the first n files of project k in the list ps, of
\* which the parser failed on failed and ended early on dead.
BadFiles(ps, k, n)        == {j \in 1 .. n : Bad(ps[k][j])}
FailedFiles(failed, k, n) == {j \in 1 .. n : <<k, j>> \in failed}

ErrorsOf(ps, k)     == [j \in DOMAIN ps[k] |-> Len(ps[k][j].errors)]
ErrorLinesOf(ps, k) == [j \in DOMAIN ps[k] |-> Cardinality(BadLines(ps[k][j]))]

Tally(ps, failed, dead, k, n, c) ==
  /\ c.ext + c.int + c.other = Cardinality(FailedFiles(failed, k, n))
  /\ BadFiles(ps, k, n) \subseteq FailedFiles(failed, k, n)
  /\ (\A j \in 1 .. n : <<k, j>> \notin dead) =>
       /\ c.errors = SumFunctionOnSet(ErrorsOf(ps, k), BadFiles(ps, k, n))
       /\ c.error_lines = SumFunctionOnSet(ErrorLinesOf(ps, k), BadFiles(ps, k, n))

RowsTally ==
  /\ \A k \in DOMAIN csv :
       /\ csv[k].files \in 0 .. Len(projects[k])
       /\ Tally(projects, failed_inputs, died, k, csv[k].files, csv[k].count)
       /\ \A x \in failed_inputs : x[1] = k => x[2] \in 1 .. csv[k].files
  /\ Midway => Tally(projects, failed_inputs, died, p, Counted, count)

Inv == TypeInv /\ Progress /\ Recorded /\ CurrentFile /\ RowsTally

-----------------------------------------------------------------------------
(* What the parser writes of a file *)

LEMMA FileFacts ==
  ASSUME NEW ps \in ProjectLists, NEW k \in DOMAIN ps, NEW j \in DOMAIN ps[k]
  PROVE  /\ ps[k][j] \in File
         /\ \A n \in DOMAIN ps[k][j].errors :
              /\ ps[k][j].errors[n].start_pos.row \in Nat /\ ps[k][j].errors[n].end_pos.row \in Nat
              /\ ps[k][j].errors[n].end_pos.row <= Len(ps[k][j].text)
<1>1. ps \in Seq(Seq(File))
  BY ProjectsAssumption
<1>2. ps[k] \in Seq(File)
  BY <1>1, ElementOfSeq
<1>3. ps[k][j] \in File
  BY <1>2, ElementOfSeq
<1> DEFINE e == ps[k][j].errors
<1>4. e \in Seq([start_pos : Point, end_pos : Point, class : STRING])
  BY <1>3 DEF File
<1>5. \A n \in DOMAIN e : e[n] \in [start_pos : Point, end_pos : Point, class : STRING]
  <2> DEFINE N == [start_pos : Point, end_pos : Point, class : STRING]
  <2>1. e \in Seq(N)
    BY <1>4
  <2> HIDE DEF N, e
  <2>2. \A n \in DOMAIN e : e[n] \in N
    BY <2>1, ElementOfSeq
  <2> QED BY <2>2 DEF N
<1>6. \A n \in DOMAIN e : e[n].start_pos.row \in Nat /\ e[n].end_pos.row \in Nat
  <2> HIDE DEF e
  <2> QED BY <1>5 DEF Point
<1>7. \A n \in DOMAIN e : e[n].end_pos.row <= Len(ps[k][j].text)
  <2> SUFFICES ASSUME NEW n \in DOMAIN e PROVE e[n].end_pos.row <= Len(ps[k][j].text)
    OBVIOUS
  <2> DEFINE text == ps[k][j].text
  <2>1. PICK b \in 0 .. Len(text) : e[n].end_pos = PointAt(text, b)
    BY ProjectsAssumption
  <2>2. text \in Seq(STRING)
    BY <1>3 DEF File
  <2>3. Len(text) \in Nat
    BY <2>2, LenProperties
  <2> HIDE DEF text
  <2>4. Newlines(line_ends(text)[b], text, b)
    BY <2>2, EndsAreNewlines
  <2>5. Len(line_ends(text)[b]) <= b /\ Len(line_ends(text)[b]) \in Nat
    BY <2>4, LenProperties DEF Newlines
  <2>6. e[n].end_pos.row = Len(line_ends(text)[b])
    BY <2>1 DEF PointAt
  <2>7. e[n].end_pos.row <= Len(text)
    BY <2>3, <2>5, <2>6
  <2> QED BY <2>7 DEF text
<1> QED BY <1>3, <1>6, <1>7

\* The number of errors of a file and of the lines they are on.
LEMMA StatFacts ==
  ASSUME NEW ps \in ProjectLists, NEW k \in DOMAIN ps, NEW j \in DOMAIN ps[k]
  PROVE  LET s == StatOf(ps[k][j])
         IN  /\ StatTyped(s)
             /\ s.error_count = ErrorsOf(ps, k)[j]
             /\ s.error_line_count = ErrorLinesOf(ps, k)[j]
             /\ ~Bad(ps[k][j]) => s.error_count = 0 /\ s.error_line_count = 0
<1> DEFINE file == ps[k][j]
           e    == file.errors
           es   == parse_input_tree(file).errors
           s    == StatOf(file)
           rows == UNION {Rows(es[n]) : n \in DOMAIN es}
<1>1. file \in File /\ e \in Seq([start_pos : Point, end_pos : Point, class : STRING])
  BY FileFacts DEF File
<1>2. Len(e) \in Nat /\ DOMAIN e = 1 .. Len(e) /\ Len(file.text) \in Nat
  BY <1>1, LenProperties DEF File
<1>3. /\ es = [n \in DOMAIN e |-> create_error(load_string(file.text), e[n])]
      /\ \A n \in DOMAIN e : es[n].start_pos = e[n].start_pos /\ es[n].end_pos = e[n].end_pos
  BY DEF parse_input_tree, create_error
<1>4. Len(es) = Len(e) /\ DOMAIN es = DOMAIN e
  <2> HIDE DEF e, file
  <2> QED BY <1>2, <1>3
<1>5. s.error_count = Len(e) /\ s.error_line_count = Cardinality(rows)
  BY <1>4 DEF StatOf, create_stat, count_error_lines
<1>6. rows = BadLines(file)
  <2>1. \A n \in DOMAIN e : /\ e[n].start_pos.row \in Nat /\ e[n].end_pos.row \in Nat
                          /\ e[n].end_pos.row <= Len(file.text)
    BY FileFacts
  <2> HIDE DEF e, es, file
  <2>2. \A n \in DOMAIN e : Rows(es[n]) = e[n].start_pos.row .. e[n].end_pos.row
    BY <1>3 DEF Rows
  <2>3. \A n \in DOMAIN e : Rows(es[n]) \subseteq 0 .. Len(file.text)
    BY <1>2, <2>1, <2>2
  <2>4. BadLines(file) = {r \in 0 .. Len(file.text) : \E n \in DOMAIN e : r \in Rows(es[n])}
    BY <2>2 DEF BadLines, e
  <2>5. rows = {r \in 0 .. Len(file.text) : \E n \in DOMAIN e : r \in Rows(es[n])}
    BY <1>4, <2>3
  <2> QED BY <2>4, <2>5
<1>7. IsFiniteSet(rows) /\ Cardinality(rows) \in Nat
  <2>1. BadLines(file) \subseteq 0 .. Len(file.text)
    BY DEF BadLines
  <2>2. IsFiniteSet(0 .. Len(file.text))
    BY <1>2, FS_Interval
  <2> HIDE DEF rows, file
  <2> QED BY <1>6, <2>1, <2>2, FS_Subset, FS_CardinalityType
<1>8. ~Bad(file) => s.error_count = 0 /\ s.error_line_count = 0
  <2> SUFFICES ASSUME ~Bad(file) PROVE s.error_count = 0 /\ s.error_line_count = 0
    OBVIOUS
  <2>1. e = <<>>
    BY DEF Bad
  <2>2. rows = {}
    BY <1>4, <2>1
  <2> QED BY <1>5, <2>1, <2>2, FS_EmptySet
<1>9. ErrorsOf(ps, k)[j] = Len(e) /\ ErrorLinesOf(ps, k)[j] = Cardinality(BadLines(file))
  BY DEF ErrorsOf, ErrorLinesOf
<1> QED BY <1>2, <1>5, <1>6, <1>7, <1>8, <1>9 DEF StatTyped

-----------------------------------------------------------------------------
(* The counts of one more file *)

\* What happened to other files does not matter.
LEMMA TallySame ==
  ASSUME NEW ps, NEW failed, NEW dead, NEW failed2, NEW dead2, NEW k, NEW n, NEW c, NEW d,
         \A j \in 1 .. n : <<k, j>> \in failed => <<k, j>> \in failed2,
         \A j \in 1 .. n : <<k, j>> \in failed2 => <<k, j>> \in failed,
         \A j \in 1 .. n : <<k, j>> \in dead => <<k, j>> \in dead2,
         d.ext + d.int + d.other = c.ext + c.int + c.other,
         d.errors = c.errors, d.error_lines = c.error_lines,
         Tally(ps, failed, dead, k, n, c)
  PROVE  Tally(ps, failed2, dead2, k, n, d)
<1>1. FailedFiles(failed2, k, n) = FailedFiles(failed, k, n)
  BY DEF FailedFiles
<1>2. (\A j \in 1 .. n : <<k, j>> \notin dead2) => (\A j \in 1 .. n : <<k, j>> \notin dead)
  OBVIOUS
<1> QED BY <1>1, <1>2 DEF Tally

\* Of no files there is nothing to count.
LEMMA TallyNone ==
  ASSUME NEW ps, NEW failed, NEW dead, NEW k
  PROVE  Tally(ps, failed, dead, k, 0, NoCount)
<1>1. BadFiles(ps, k, 0) = {} /\ FailedFiles(failed, k, 0) = {}
  BY DEF BadFiles, FailedFiles
<1> QED BY <1>1, SumEmpty, FS_EmptySet DEF Tally, NoCount

LEMMA TallyMore ==
  ASSUME NEW ps \in ProjectLists, NEW k \in DOMAIN ps, NEW n \in Nat, NEW j \in DOMAIN ps[k], j = n + 1,
         NEW failed, NEW dead, NEW c \in CountType, NEW d \in CountType,
         NEW stat, NEW failed2, NEW failing \in BOOLEAN,
         Tally(ps, failed, dead, k, n, c), <<k, j>> \notin failed,
         failed2 = IF failing THEN failed \cup {<<k, j>>} ELSE failed,
         Bad(ps[k][j]) => failing,
         <<k, j>> \notin dead => stat = StatOf(ps[k][j]),
         d.ext + d.int + d.other = c.ext + c.int + c.other + (IF failing THEN 1 ELSE 0),
         d.errors = (IF failing THEN c.errors + stat.error_count ELSE c.errors),
         d.error_lines = (IF failing THEN c.error_lines + stat.error_line_count ELSE c.error_lines)
  PROVE  Tally(ps, failed2, dead, k, j, d)
<1> DEFINE B  == BadFiles(ps, k, n)
           B2 == BadFiles(ps, k, j)
           F  == FailedFiles(failed, k, n)
           F2 == FailedFiles(failed2, k, j)
<1>1. \A m : m \in 1 .. j <=> m \in 1 .. n \/ m = j
  OBVIOUS
<1>2. j \notin 1 .. n /\ ps \in Seq(Seq(File))
  BY ProjectsAssumption
<1>3. B2 = (IF Bad(ps[k][j]) THEN B \cup {j} ELSE B) /\ j \notin B
  BY <1>1, <1>2 DEF BadFiles
<1>4. F2 = (IF failing THEN F \cup {j} ELSE F) /\ j \notin F
  BY <1>1, <1>2 DEF FailedFiles
<1>5. IsFiniteSet(B) /\ IsFiniteSet(F) /\ Cardinality(F) \in Nat
  <2>1. B \subseteq 1 .. n /\ F \subseteq 1 .. n
    BY DEF BadFiles, FailedFiles
  <2>2. IsFiniteSet(1 .. n)
    BY FS_Interval
  <2> QED BY <2>1, <2>2, FS_Subset, FS_CardinalityType
<1>6. d.ext + d.int + d.other = Cardinality(F2)
  <2>1. c.ext + c.int + c.other = Cardinality(F)
    BY DEF Tally
  <2>2. Cardinality(F \cup {j}) = Cardinality(F) + 1
    BY <1>4, <1>5, FS_AddElement
  <2> HIDE DEF F, F2
  <2> QED BY <1>4, <1>5, <2>1, <2>2
<1>7. B2 \subseteq F2
  BY <1>3, <1>4 DEF Tally
<1>8. \A m \in B2 : ErrorsOf(ps, k)[m] \in Nat /\ ErrorLinesOf(ps, k)[m] \in Nat
  <2>1. DOMAIN ps[k] = 1 .. Len(ps[k]) /\ Len(ps[k]) \in Nat
    <3>1. ps[k] \in Seq(File)
      BY <1>2, ElementOfSeq
    <3> QED BY <3>1, LenProperties
  <2>2. \A m \in B2 : m \in DOMAIN ps[k]
    BY <2>1 DEF BadFiles
  <2> HIDE DEF B2
  <2> QED BY <2>2, StatFacts DEF StatTyped
<1>9. ASSUME \A m \in 1 .. j : <<k, m>> \notin dead
      PROVE  /\ d.errors = SumFunctionOnSet(ErrorsOf(ps, k), B2)
             /\ d.error_lines = SumFunctionOnSet(ErrorLinesOf(ps, k), B2)
  <2> DEFINE E  == ErrorsOf(ps, k)
             L  == ErrorLinesOf(ps, k)
  <2>1. c.errors = SumFunctionOnSet(E, B) /\ c.error_lines = SumFunctionOnSet(L, B)
    BY <1>1, <1>9 DEF Tally
  <2>2. stat = StatOf(ps[k][j])
    BY <1>1, <1>9
  <2>3. /\ stat.error_count = E[j] /\ stat.error_line_count = L[j]
        /\ ~Bad(ps[k][j]) => stat.error_count = 0 /\ stat.error_line_count = 0
    BY <2>2, StatFacts
  <2>4. c.errors \in Nat /\ c.error_lines \in Nat
    BY DEF CountType
  <2> HIDE DEF B, B2, E, L
  <2>5. CASE Bad(ps[k][j])
    <3>1. \A m \in B \cup {j} : E[m] \in Nat /\ L[m] \in Nat
      BY <1>3, <1>8, <2>5 DEF E, L
    <3>2. SumFunctionOnSet(E, B \cup {j}) = SumFunctionOnSet(E, B) + E[j]
      BY <1>3, <1>5, <3>1, SumAdd
    <3>3. SumFunctionOnSet(L, B \cup {j}) = SumFunctionOnSet(L, B) + L[j]
      BY <1>3, <1>5, <3>1, SumAdd
    <3>4. B2 = B \cup {j} /\ failing
      BY <1>3, <2>5
    <3> QED BY <2>1, <2>3, <3>2, <3>3, <3>4 DEF E, L
  <2>6. CASE ~Bad(ps[k][j])
    BY <1>3, <2>1, <2>3, <2>4, <2>6 DEF E, L
  <2> QED BY <2>5, <2>6
<1> QED BY <1>6, <1>7, <1>9 DEF Tally

-----------------------------------------------------------------------------
(* The invariant holds, and the rows add up *)

LEMMA InitInv == Init => Inv
<1> SUFFICES ASSUME Init PROVE Inv
  OBVIOUS
<1>1. projects \in Seq(Seq(File)) /\ Leftovers \subseteq [total_line_count : Nat, error_line_count : Nat, error_count : Nat]
  BY ProjectsAssumption DEF Init
<1>2. Len(projects) \in Nat /\ (projects # <<>> => Len(projects) >= 1)
  BY <1>1, LenProperties, EmptySeq
<1>3. TypeInv
  <2>1. PICK left \in Leftovers \cup {NoStat} : stat_txt = [k \in DOMAIN projects |-> left]
    BY DEF Init
  <2>2. StatTyped(left)
    BY <1>1 DEF StatTyped, NoStat
  <2>3. DOMAIN stat_txt = DOMAIN projects /\ \A k \in DOMAIN projects : StatTyped(stat_txt[k])
    BY <2>1, <2>2
  <2> QED BY <2>3 DEF Init, TypeInv, CountType, NoCount
<1>4. Progress
  BY <1>2 DEF Init, Progress, Midway
<1>5. Recorded /\ CurrentFile /\ RowsTally
  BY DEF Init, Recorded, CurrentFile, RowsTally, Midway
<1> QED BY <1>3, <1>4, <1>5 DEF Inv

\* What a step on the current project leaves of the rows before.
LEMMA RowsStay ==
  ASSUME Inv, csv' = csv, projects' = projects, p' = p, p <= Len(projects),
         \A x \in failed_inputs' : x \in failed_inputs \/ x = <<p, f>>,
         \A x \in failed_inputs : x \in failed_inputs',
         \A x \in died : x \in died'
  PROVE  (\A k \in DOMAIN csv :
           /\ csv[k].files \in 0 .. Len(projects[k])
           /\ Tally(projects, failed_inputs, died, k, csv[k].files, csv[k].count)
           /\ \A x \in failed_inputs : x[1] = k => x[2] \in 1 .. csv[k].files)'
<1> SUFFICES ASSUME NEW k \in DOMAIN csv
             PROVE  /\ csv[k].files \in 0 .. Len(projects[k])
                    /\ Tally(projects, failed_inputs', died', k, csv[k].files, csv[k].count)
                    /\ \A x \in failed_inputs' : x[1] = k => x[2] \in 1 .. csv[k].files
  OBVIOUS
<1>1. k < p
  BY LenProperties DEF Inv, Progress, TypeInv
<1>2. /\ csv[k].files \in 0 .. Len(projects[k])
      /\ Tally(projects, failed_inputs, died, k, csv[k].files, csv[k].count)
      /\ \A x \in failed_inputs : x[1] = k => x[2] \in 1 .. csv[k].files
  BY DEF Inv, RowsTally
<1>3. <<p, f>>[1] = p /\ p \in Nat
  BY DEF Inv, TypeInv
<1>4. \A x \in failed_inputs' : x[1] = k => x \in failed_inputs
  BY <1>1, <1>3
<1>5. \A j : <<k, j>> \in failed_inputs' => <<k, j>> \in failed_inputs
  BY <1>4
<1>6. Tally(projects, failed_inputs', died', k, csv[k].files, csv[k].count)
  BY <1>2, <1>5, TallySame
<1> QED BY <1>2, <1>4, <1>6

\* What is known of the lists wherever the command is.
LEMMA Listed ==
  ASSUME Inv
  PROVE  /\ projects \in Seq(Seq(File)) /\ Len(projects) \in Nat /\ DOMAIN projects = 1 .. Len(projects)
         /\ \A k \in DOMAIN projects : /\ projects[k] \in Seq(File) /\ Len(projects[k]) \in Nat
                                      /\ DOMAIN projects[k] = 1 .. Len(projects[k])
         /\ Len(csv) \in Nat /\ DOMAIN csv = 1 .. Len(csv)
<1>1. projects \in Seq(Seq(File))
  BY ProjectsAssumption DEF Inv, TypeInv
<1>2. \A k \in DOMAIN projects : projects[k] \in Seq(File)
  BY <1>1, ElementOfSeq
<1> QED BY <1>1, <1>2, LenProperties DEF Inv, Progress

\* The current file is one of the current project.
LEMMA Current ==
  ASSUME Inv, pc \in {"next", "parser", "log", "exit"}
  PROVE  /\ p \in DOMAIN projects /\ p \in Nat /\ f \in Nat /\ Len(inputs) \in Nat
         /\ Len(inputs) <= Len(projects[p])
         /\ f < Len(inputs) => f + 1 \in DOMAIN projects[p] /\ inputs[f + 1] = projects[p][f + 1]
         /\ f <= Len(inputs)
         /\ pc # "next" => f \in DOMAIN projects[p] /\ f >= 1
<1>1. p \in DOMAIN projects /\ p \in Nat /\ f \in Nat
  BY Listed DEF Inv, TypeInv, Progress
<1>2. inputs = <<>> \/ inputs = projects[p]
  BY DEF Inv, Progress, Midway
<1>3. Len(projects[p]) \in Nat /\ DOMAIN projects[p] = 1 .. Len(projects[p])
  BY <1>1, Listed
<1>4. Len(inputs) \in Nat /\ Len(inputs) <= Len(projects[p]) /\ (Len(inputs) > 0 => inputs = projects[p])
  BY <1>2, <1>3
<1>5. f <= Len(inputs) /\ (pc # "next" => f >= 1)
  BY <1>1, <1>4 DEF Inv, Progress, Midway, Counted
<1> QED BY <1>1, <1>3, <1>4, <1>5

LEMMA HandleProject ==
  ASSUME Inv, NEW cloned \in BOOLEAN, handle_project(cloned)
  PROVE  Inv'
<1> USE DEF handle_project
<1>1. TypeInv'
  BY DEF Inv, TypeInv, CountType, NoCount
<1>2. p <= Len(projects) /\ ~Midway /\ Midway' /\ Counted' = 0
  BY DEF Inv, Progress, Midway, Counted
<1>3. Progress'
  <2>1. p \in DOMAIN projects
    BY <1>2, Listed DEF Inv, TypeInv, Progress
  <2>2. Len(inputs') \in Nat /\ inputs' \in {<<>>, projects[p]}
    BY <2>1, Listed
  <2> QED BY <1>2, <2>2 DEF Inv, Progress
<1>4. Recorded'
  BY <1>2 DEF Inv, Recorded
<1>5. CurrentFile'
  BY DEF CurrentFile
<1>6. RowsTally'
  BY <1>2, RowsStay, TallyNone DEF RowsTally
<1> QED BY <1>1, <1>3, <1>4, <1>5, <1>6 DEF Inv

LEMMA StartParse ==
  ASSUME Inv, start_parse
  PROVE  Inv'
<1> USE DEF start_parse
<1>1. /\ f + 1 \in DOMAIN projects[p] /\ inputs[f + 1] = projects[p][f + 1] /\ p \in DOMAIN projects
      /\ Len(inputs) \in Nat /\ f \in Nat /\ p <= Len(projects)
  BY Current, Listed DEF Inv, Progress
<1>2. wc_l(inputs[f + 1].text) \in Nat
  <2> DEFINE text == projects[p][f + 1].text
  <2>1. projects[p][f + 1] \in File
    BY <1>1, FileFacts DEF Inv, TypeInv
  <2>2. text \in Seq(STRING)
    BY <2>1 DEF File
  <2>3. DOMAIN text = 1 .. Len(text) /\ Len(text) \in Nat
    BY <2>2, LenProperties
  <2> HIDE DEF text
  <2>4. IsFiniteSet(1 .. Len(text)) /\ {i \in DOMAIN text : text[i] = LF} \in SUBSET (1 .. Len(text))
    BY <2>3, FS_Interval
  <2>5. wc_l(text) \in Nat
    BY <2>4, FS_Subset, FS_CardinalityType DEF wc_l
  <2> QED BY <1>1, <2>5 DEF text
<1>3. TypeInv'
  <2> DEFINE w == wc_l(inputs[f + 1].text)
  <2>1. count' = [count EXCEPT !.lines = @ + w] /\ w \in Nat /\ count \in CountType
    BY <1>2 DEF Inv, TypeInv
  <2> HIDE DEF w
  <2>2. count' \in CountType
    BY <2>1 DEF CountType
  <2> QED BY <1>1, <2>2 DEF Inv, TypeInv
<1>4. Midway /\ Midway' /\ Counted = f /\ Counted' = f
  BY <1>1 DEF Midway, Counted
<1>5. Progress'
  BY <1>1, <1>4 DEF Inv, Progress
<1>6. Recorded'
  <2>1. ASSUME NEW x \in died
        PROVE  /\ x \in Nat \X Nat
               /\ (x[1] < p \/ (x[1] = p /\ x[2] <= f + 1))
               /\ x # <<p, f + 1>>
    <3>1. x \in Nat \X Nat /\ (x[1] < p \/ (x[1] = p /\ x[2] <= f))
      BY DEF Inv, Recorded
    <3>2. p \in Nat /\ <<p, f + 1>>[1] = p /\ <<p, f + 1>>[2] = f + 1
      BY DEF Inv, TypeInv
    <3> QED BY <1>1, <3>1, <3>2
  <2> QED BY <1>4, <2>1 DEF Inv, Recorded
<1>7. CurrentFile'
  BY <1>1 DEF CurrentFile
<1>8. RowsTally'
  <2>1. Tally(projects, failed_inputs, died, p, f, count)
    BY <1>4 DEF Inv, RowsTally
  <2>2. /\ count'.ext = count.ext /\ count'.int = count.int /\ count'.other = count.other
        /\ count'.errors = count.errors /\ count'.error_lines = count.error_lines
    BY DEF Inv, TypeInv, CountType
  <2>3. Tally(projects, failed_inputs, died, p, f, count')
    BY <2>1, <2>2 DEF Tally
  <2> QED BY <1>1, <1>4, <2>3, RowsStay DEF RowsTally
<1> QED BY <1>3, <1>5, <1>6, <1>7, <1>8 DEF Inv

LEMMA ExportStat ==
  ASSUME Inv, export_stat
  PROVE  Inv'
<1> USE DEF export_stat
<1> DEFINE file == projects[p][f]
<1>1. /\ f \in DOMAIN projects[p] /\ p \in DOMAIN projects /\ p <= Len(projects)
      /\ res = parse_input_tree(file)
  BY Current, Listed DEF Inv, CurrentFile, Progress
<1>2. /\ DOMAIN stat_txt = DOMAIN projects
      /\ stat_txt' = [stat_txt EXCEPT ![p] = StatOf(file)]
      /\ \A k \in DOMAIN projects : StatTyped(stat_txt[k])
  BY <1>1 DEF StatOf, Inv, TypeInv
<1>3. StatTyped(StatOf(file))
  BY <1>1, StatFacts DEF Inv, TypeInv
<1> HIDE DEF file
<1>4. stat_txt'[p] = StatOf(file) /\ \A k \in DOMAIN projects : StatTyped(stat_txt'[k])
  BY <1>1, <1>2, <1>3
<1>5. TypeInv'
  BY <1>2, <1>4 DEF Inv, TypeInv
<1>6. Midway /\ Midway' /\ Counted' = Counted
  BY DEF Midway, Counted
<1>7. Progress' /\ Recorded'
  BY <1>6 DEF Inv, Progress, Recorded
<1>8. CurrentFile'
  BY <1>1, <1>4 DEF CurrentFile, file
<1>9. RowsTally'
  BY <1>1, <1>6, RowsStay DEF Inv, RowsTally
<1> QED BY <1>5, <1>7, <1>8, <1>9 DEF Inv

\* The status is zero for no file that is bad.
LEMMA ExitCode ==
  ASSUME NEW ps \in ProjectLists, NEW k \in DOMAIN ps, NEW j \in DOMAIN ps[k]
  PROVE  LET s == exit_code(parse_input_tree(ps[k][j]))
         IN  s \in {0, ExternalError} /\ (Bad(ps[k][j]) => s # 0)
<1> DEFINE file == ps[k][j]
           e == file.errors
           r == parse_input_tree(file)
<1>1. e \in Seq([start_pos : Point, end_pos : Point, class : STRING]) /\ file.program \in BOOLEAN
  BY FileFacts DEF File
<1>2. r.program = file.program /\ r.errors = [n \in DOMAIN e |-> create_error(load_string(file.text), e[n])]
  BY DEF parse_input_tree
<1>3. r.errors = <<>> => e = <<>>
  <2> HIDE DEF e, r, file
  <2>1. DOMAIN e = 1 .. Len(e) /\ Len(e) \in Nat /\ (Len(e) = 0 => e = <<>>)
    BY <1>1, LenProperties, EmptySeq
  <2>2. DOMAIN r.errors = DOMAIN e
    BY <1>2
  <2>3. r.errors = <<>> => DOMAIN r.errors = {}
    OBVIOUS
  <2> QED BY <2>1, <2>2, <2>3
<1> HIDE DEF r
<1> QED BY <1>1, <1>2, <1>3 DEF exit_code, Bad, ExternalError, r

LEMMA LogJsonErrors ==
  ASSUME Inv, log_json_errors
  PROVE  Inv'
<1> USE DEF log_json_errors
<1> DEFINE file == projects[p][f]
<1>1. /\ f \in DOMAIN projects[p] /\ p \in DOMAIN projects /\ p <= Len(projects)
      /\ res = parse_input_tree(file) /\ stat_txt[p] = StatOf(file)
  BY Current, Listed DEF Inv, CurrentFile, Progress
<1>2. status' \in {0, ExternalError} /\ (Bad(file) => status' # 0)
  BY <1>1, ExitCode DEF Inv, TypeInv
<1>3. TypeInv'
  BY DEF Inv, TypeInv
<1>4. Midway /\ Midway' /\ Counted' = Counted
  BY DEF Midway, Counted
<1>5. Progress' /\ Recorded'
  BY <1>4 DEF Inv, Progress, Recorded
<1>6. CurrentFile'
  BY <1>1, <1>2 DEF CurrentFile
<1>7. RowsTally'
  BY <1>1, <1>4, RowsStay DEF Inv, RowsTally
<1> QED BY <1>3, <1>5, <1>6, <1>7 DEF Inv

LEMMA SafeRun ==
  ASSUME Inv, NEW s \in {AnyError, InternalError, Killed}, safe_run(s)
  PROVE  Inv'
<1> USE DEF safe_run
<1> DEFINE file == projects[p][f]
<1>1. /\ f \in DOMAIN projects[p] /\ p \in DOMAIN projects /\ p <= Len(projects) /\ p \in Nat /\ f \in Nat
      /\ (pc = "log" => stat_txt[p] = StatOf(file))
  BY Current, Listed DEF Inv, CurrentFile, Progress
<1>2. status' # 0 /\ status' \in {AnyError, InternalError, Killed}
  BY DEF AnyError, InternalError, Killed
<1>3. TypeInv'
  BY DEF Inv, TypeInv
<1>4. Midway /\ Midway' /\ Counted' = Counted /\ Counted = f - 1
  BY DEF Midway, Counted
<1>5. Progress'
  BY <1>4 DEF Inv, Progress
<1>6. (\A x \in died' : x \in died \/ x = <<p, f>>) /\ (\A x \in died : x \in died')
  OBVIOUS
<1>7. Recorded'
  <2>1. <<p, f>> \in Nat \X Nat /\ <<p, f>>[1] = p /\ <<p, f>>[2] <= f
    BY <1>1
  <2>2. \A x \in died' : x \in Nat \X Nat /\ (x[1] < p \/ (x[1] = p /\ x[2] <= f))
    BY <1>6, <2>1 DEF Inv, Recorded
  <2> QED BY <1>4, <2>2 DEF Inv, Recorded
<1>8. CurrentFile'
  <2>1. pc = "log" \/ <<p, f>> \in died'
    OBVIOUS
  <2> QED BY <1>1, <1>2, <2>1 DEF CurrentFile
<1>9. RowsTally'
  <2>1. Tally(projects, failed_inputs, died, p, f - 1, count)
    BY <1>4 DEF Inv, RowsTally
  <2>2. Tally(projects, failed_inputs, died', p, f - 1, count)
    BY <1>6, <2>1 DEF Tally
  <2> QED BY <1>1, <1>4, <1>6, <2>2, RowsStay DEF RowsTally
<1> QED BY <1>3, <1>5, <1>7, <1>8, <1>9 DEF Inv

\* Every status but zero is counted in one of the three columns.
LEMMA Classified ==
  ASSUME NEW c \in CountType, status \in {0, AnyError, ExternalError, InternalError, Killed}
  PROVE  /\ classify(c) \in CountType
         /\ classify(c).ext + classify(c).int + classify(c).other
              = c.ext + c.int + c.other + (IF status = 0 THEN 0 ELSE 1)
         /\ classify(c).errors = c.errors /\ classify(c).error_lines = c.error_lines
<1> DEFINE ext   == IF status = ExternalError THEN 1 ELSE 0
           int   == IF status = InternalError THEN 1 ELSE 0
           other == IF status \notin {0, ExternalError, InternalError} THEN 1 ELSE 0
<1>1. ext + int + other = (IF status = 0 THEN 0 ELSE 1) /\ {ext, int, other} \subseteq {0, 1}
  BY DEF AnyError, ExternalError, InternalError, Killed
<1>2. c.ext \in Nat /\ c.int \in Nat /\ c.other \in Nat
  BY DEF CountType
<1>3. classify(c) = [c EXCEPT !.ext = @ + ext, !.int = @ + int, !.other = @ + other]
  <2>1. /\ (IF status = ExternalError THEN c.ext + 1 ELSE c.ext) = c.ext + ext
        /\ (IF status = InternalError THEN c.int + 1 ELSE c.int) = c.int + int
        /\ (IF status \notin {0, ExternalError, InternalError} THEN c.other + 1 ELSE c.other) = c.other + other
    BY <1>2
  <2> HIDE DEF ext, int, other
  <2> QED BY <2>1 DEF classify, CountType
<1> HIDE DEF ext, int, other
<1>4. /\ classify(c).ext = c.ext + ext /\ classify(c).int = c.int + int /\ classify(c).other = c.other + other
      /\ classify(c).errors = c.errors /\ classify(c).error_lines = c.error_lines
      /\ classify(c) \in CountType
  <2> DEFINE x == c.ext + ext
             y == c.int + int
             z == c.other + other
  <2>1. classify(c) = [c EXCEPT !.ext = x, !.int = y, !.other = z]
    BY <1>3
  <2>2. x \in Nat /\ y \in Nat /\ z \in Nat
    BY <1>1, <1>2
  <2> HIDE DEF x, y, z
  <2>3. /\ classify(c).ext = x /\ classify(c).int = y /\ classify(c).other = z
        /\ classify(c).errors = c.errors /\ classify(c).error_lines = c.error_lines
        /\ classify(c) \in CountType
    BY <2>1, <2>2 DEF CountType
  <2> QED BY <2>3 DEF x, y, z
<1> QED BY <1>1, <1>2, <1>4

LEMMA Parse ==
  ASSUME Inv, parse
  PROVE  Inv'
<1> USE DEF parse
<1> DEFINE file    == projects[p][f]
           failing == status # 0
           d       == classify(count)
           stat    == stat_txt[p]
<1>1. /\ f \in DOMAIN projects[p] /\ p \in DOMAIN projects /\ p <= Len(projects) /\ p \in Nat /\ f \in Nat
      /\ f >= 1 /\ f <= Len(inputs) /\ Len(inputs) \in Nat
  BY Current, Listed DEF Inv, Progress
<1>2. /\ status \in {0, AnyError, ExternalError, InternalError, Killed}
      /\ Bad(file) => failing
      /\ <<p, f>> \notin died => stat = StatOf(file)
  BY DEF Inv, CurrentFile
<1>3. StatTyped(stat)
  BY <1>1 DEF Inv, TypeInv
<1>4. /\ d \in CountType /\ d.errors = count.errors /\ d.error_lines = count.error_lines
      /\ d.ext + d.int + d.other = count.ext + count.int + count.other + (IF failing THEN 1 ELSE 0)
  BY <1>2, Classified DEF Inv, TypeInv
<1>5. count' = [d EXCEPT !.errors      = IF failing THEN @ + stat.error_count ELSE @,
                         !.error_lines = IF failing THEN @ + stat.error_line_count ELSE @]
  OBVIOUS
<1>6. failed_inputs' = IF failing THEN failed_inputs \cup {<<p, f>>} ELSE failed_inputs
  OBVIOUS
<1> HIDE DEF d, stat, failing
<1>7. /\ count' \in CountType
      /\ count'.ext + count'.int + count'.other = count.ext + count.int + count.other + (IF failing THEN 1 ELSE 0)
      /\ count'.errors = (IF failing THEN count.errors + stat.error_count ELSE count.errors)
      /\ count'.error_lines = (IF failing THEN count.error_lines + stat.error_line_count ELSE count.error_lines)
  <2>1. /\ count' \in CountType
        /\ count'.ext = d.ext /\ count'.int = d.int /\ count'.other = d.other
        /\ count'.errors = (IF failing THEN d.errors + stat.error_count ELSE d.errors)
        /\ count'.error_lines = (IF failing THEN d.error_lines + stat.error_line_count ELSE d.error_lines)
    <3>1. d \in CountType /\ stat.error_count \in Nat /\ stat.error_line_count \in Nat
      BY <1>3, <1>4 DEF StatTyped
    <3>2. CASE failing
      <4> DEFINE x == d.errors + stat.error_count
                 y == d.error_lines + stat.error_line_count
      <4>1. count' = [d EXCEPT !.errors = x, !.error_lines = y]
        BY <1>5, <3>2
      <4>2. x \in Nat /\ y \in Nat
        BY <3>1 DEF CountType
      <4> HIDE DEF x, y, parse
      <4>3. /\ count' \in CountType /\ count'.errors = x /\ count'.error_lines = y
            /\ count'.ext = d.ext /\ count'.int = d.int /\ count'.other = d.other
        BY <3>1, <4>1, <4>2 DEF CountType
      <4> QED BY <3>2, <4>3 DEF x, y
    <3>3. CASE ~failing
      <4>1. count' = d
        <5>1. count' = [d EXCEPT !.errors = @, !.error_lines = @]
          BY <1>5, <3>3
        <5> HIDE DEF parse
        <5> QED BY <3>1, <5>1 DEF CountType
      <4> QED BY <3>1, <3>3, <4>1
    <3> HIDE DEF parse
    <3> QED BY <3>2, <3>3
  <2> HIDE DEF parse
  <2> QED BY <1>4, <2>1
<1>8. TypeInv'
  BY <1>7 DEF Inv, TypeInv
<1>9. Midway /\ Midway' /\ Counted' = f /\ Counted = f - 1
  BY DEF Midway, Counted
<1>10. Progress'
  BY <1>1, <1>9 DEF Inv, Progress
<1>11. (\A x \in failed_inputs' : x \in failed_inputs \/ x = <<p, f>>) /\ (\A x \in failed_inputs : x \in failed_inputs')
  BY <1>6
<1>12. <<p, f>>[1] = p /\ <<p, f>>[2] = f /\ <<p, f>> \in Nat \X Nat
  BY <1>1
<1>13. Recorded'
  <2>1. ASSUME NEW x \in failed_inputs'
        PROVE  x \in Nat \X Nat /\ (x[1] < p \/ (x[1] = p /\ x[2] \in 1 .. f))
    <3>1. CASE x = <<p, f>>
      BY <1>1, <1>12, <3>1
    <3>2. CASE x \in failed_inputs
      <4>1. x \in Nat \X Nat /\ (x[1] < p \/ (x[1] = p /\ x[2] \in 1 .. f - 1))
        BY <1>9, <3>2 DEF Inv, Recorded
      <4>2. \A m : m \in 1 .. f - 1 => m \in 1 .. f
        BY <1>1
      <4> QED BY <4>1, <4>2
    <3> QED BY <1>11, <3>1, <3>2
  <2>2. \A x \in died : x \in Nat \X Nat /\ (x[1] < p \/ (x[1] = p /\ x[2] <= f))
    BY DEF Inv, Recorded
  <2> QED BY <1>9, <2>1, <2>2 DEF Recorded
<1>14. CurrentFile'
  BY DEF CurrentFile
<1>15. <<p, f>> \notin failed_inputs
  <2> SUFFICES ASSUME <<p, f>> \in failed_inputs PROVE FALSE
    OBVIOUS
  <2>1. p < p \/ f \in 1 .. f - 1
    BY <1>9, <1>12 DEF Inv, Recorded
  <2> QED BY <1>1, <2>1
<1>16. Tally(projects, failed_inputs', died, p, f, count')
  <2>1. Tally(projects, failed_inputs, died, p, f - 1, count)
    BY <1>9 DEF Inv, RowsTally
  <2>2. projects \in ProjectLists /\ count \in CountType /\ f - 1 \in Nat /\ f = (f - 1) + 1
    BY <1>1 DEF Inv, TypeInv
  <2>3. failing \in BOOLEAN
    BY DEF failing
  <2>4. (Bad(projects[p][f]) => failing) /\ (<<p, f>> \notin died => stat = StatOf(projects[p][f]))
    BY <1>2
  <2> HIDE DEF parse, file
  <2> DEFINE n == f - 1
             c2 == count'
  <2>5. /\ n \in Nat /\ f = n + 1 /\ Tally(projects, failed_inputs, died, p, n, count)
        /\ c2 \in CountType
        /\ c2.ext + c2.int + c2.other = count.ext + count.int + count.other + (IF failing THEN 1 ELSE 0)
        /\ c2.errors = (IF failing THEN count.errors + stat.error_count ELSE count.errors)
        /\ c2.error_lines = (IF failing THEN count.error_lines + stat.error_line_count ELSE count.error_lines)
    BY <1>7, <2>1, <2>2
  <2> HIDE DEF n, c2
  <2>6. Tally(projects, failed_inputs', died, p, f, c2)
    BY <1>1, <1>6, <1>15, <2>2, <2>3, <2>4, <2>5, TallyMore
  <2> QED BY <2>6 DEF c2
<1>17. RowsTally'
  BY <1>1, <1>9, <1>11, <1>16, RowsStay DEF RowsTally
<1> QED BY <1>8, <1>10, <1>13, <1>14, <1>17 DEF Inv

LEMMA EndProject ==
  ASSUME Inv, end_project
  PROVE  Inv'
<1> USE DEF end_project
<1>1. /\ p \in DOMAIN projects /\ p <= Len(projects) /\ p \in Nat /\ p >= 1 /\ f \in Nat /\ Len(projects) \in Nat
      /\ f \in 0 .. Len(projects[p])
  BY Current, Listed DEF Inv, Progress
<1>2. TypeInv'
  BY <1>1 DEF Inv, TypeInv
<1>3. Midway /\ ~Midway' /\ Counted = f
  BY DEF Midway, Counted
<1> DEFINE row == [files |-> f, count |-> count]
           R   == [files : Nat, count : CountType]
<1>4. row \in R /\ csv \in Seq(R) /\ csv' = Append(csv, row) /\ Len(csv) = p - 1
  BY <1>1 DEF Inv, TypeInv, Progress
<1>5. row.files = f /\ row.count = count
  OBVIOUS
<1> HIDE DEF row, R
<1>6. /\ csv' \in Seq(R) /\ Len(csv') = p /\ DOMAIN csv' = 1 .. p /\ DOMAIN csv = 1 .. p - 1
      /\ csv'[p] = row /\ \A k \in DOMAIN csv : csv'[k] = csv[k]
  <2>1. Len(csv') = Len(csv) + 1 /\ Len(csv) \in Nat
    BY <1>4, AppendProperties, LenProperties
  <2> QED BY <1>1, <1>4, <2>1, AppendProperties, LenProperties
<1>7. Progress'
  <2>1. p' = p + 1 /\ (pc' = "project" => p # Len(projects)) /\ pc' \in {"summary", "project"}
    OBVIOUS
  <2> QED BY <1>1, <1>3, <1>6, <2>1 DEF Progress, R
<1>8. Recorded'
  <2>1. \A x \in failed_inputs \cup died : x \in Nat \X Nat /\ (x[1] < p \/ x[1] = p)
    BY DEF Inv, Recorded
  <2>2. \A x \in failed_inputs \cup died : x[1] < p + 1
    BY <1>1, <2>1
  <2> QED BY <1>3, <2>1, <2>2 DEF Recorded
<1>9. CurrentFile'
  BY DEF CurrentFile
<1>10. RowsTally'
  <2> SUFFICES ASSUME NEW k \in DOMAIN csv'
               PROVE  /\ csv'[k].files \in 0 .. Len(projects[k])
                      /\ Tally(projects, failed_inputs, died, k, csv'[k].files, csv'[k].count)
                      /\ \A x \in failed_inputs : x[1] = k => x[2] \in 1 .. csv'[k].files
    BY <1>3 DEF RowsTally
  <2>1. CASE k = p
    <3>1. Tally(projects, failed_inputs, died, p, f, count)
      BY <1>3 DEF Inv, RowsTally
    <3>2. \A x \in failed_inputs : x[1] = p => x[2] \in 1 .. f
      BY <1>1, <1>3 DEF Inv, Recorded
    <3> QED BY <1>1, <1>5, <1>6, <2>1, <3>1, <3>2
  <2>2. CASE k # p
    <3>1. k \in DOMAIN csv
      BY <1>1, <1>6, <2>2
    <3> QED BY <1>6, <3>1 DEF Inv, RowsTally
  <2> QED BY <2>1, <2>2
<1> QED BY <1>2, <1>7, <1>8, <1>9, <1>10 DEF Inv

LEMMA AggregateErrors ==
  ASSUME Inv, aggregate_errors
  PROVE  Inv'
<1> USE DEF aggregate_errors
<1>1. ~Midway /\ ~Midway'
  BY DEF Midway
<1> QED BY <1>1 DEF Inv, TypeInv, Progress, Recorded, CurrentFile, RowsTally

LEMMA StepInv == Inv /\ [Next]_vars => Inv'
<1> SUFFICES ASSUME Inv, [Next]_vars PROVE Inv'
  OBVIOUS
<1>1. CASE \E cloned \in BOOLEAN : handle_project(cloned)
  BY <1>1, HandleProject
<1>2. CASE start_parse
  BY <1>2, StartParse
<1>3. CASE export_stat
  BY <1>3, ExportStat
<1>4. CASE log_json_errors
  BY <1>4, LogJsonErrors
<1>5. CASE \E s \in {AnyError, InternalError, Killed} : safe_run(s)
  BY <1>5, SafeRun
<1>6. CASE parse
  BY <1>6, Parse
<1>7. CASE end_project
  BY <1>7, EndProject
<1>8. CASE aggregate_errors
  BY <1>8, AggregateErrors
<1>9. CASE UNCHANGED vars
  BY <1>9 DEF vars, Inv, TypeInv, Progress, Recorded, CurrentFile, RowsTally, Midway, Counted
<1> QED BY <1>1, <1>2, <1>3, <1>4, <1>5, <1>6, <1>7, <1>8, <1>9 DEF Next

LEMMA InvRowsAddUp == Inv => RowsAddUp
<1> SUFFICES ASSUME Inv, NEW k \in DOMAIN csv
             PROVE  LET files == 1 .. csv[k].files
                        bad   == {j \in files : Bad(projects[k][j])}
                        row   == csv[k].count
                    IN  /\ row.ext + row.int + row.other = Cardinality(Failed(k))
                        /\ bad \subseteq Failed(k)
                        /\ (\A j \in files : <<k, j>> \notin died) =>
                             /\ row.errors = SumFunctionOnSet(Errors(k), bad)
                             /\ row.error_lines = SumFunctionOnSet(ErrorLines(k), bad)
  BY DEF RowsAddUp
<1> DEFINE n == csv[k].files
<1>1. /\ n \in 0 .. Len(projects[k]) /\ Tally(projects, failed_inputs, died, k, n, csv[k].count)
      /\ \A x \in failed_inputs : x[1] = k => x[2] \in 1 .. n
  BY DEF Inv, RowsTally
<1>2. k \in DOMAIN projects
  BY Listed DEF Inv, Progress, TypeInv
<1>3. DOMAIN projects[k] = 1 .. Len(projects[k]) /\ Len(projects[k]) \in Nat
  BY <1>2, Listed
<1>4. Failed(k) = FailedFiles(failed_inputs, k, n)
  <2>1. \A j : <<k, j>> \in failed_inputs => j \in 1 .. n
    <3>1. \A j : <<k, j>>[1] = k /\ <<k, j>>[2] = j
      OBVIOUS
    <3> QED BY <1>1, <3>1
  <2>2. 1 .. n \subseteq 1 .. Len(projects[k])
    BY <1>1, <1>3
  <2> HIDE DEF n
  <2> QED BY <1>3, <2>1, <2>2 DEF Failed, FailedFiles
<1>5. Errors(k) = ErrorsOf(projects, k) /\ ErrorLines(k) = ErrorLinesOf(projects, k)
  BY DEF Errors, ErrorLines, ErrorsOf, ErrorLinesOf
<1>6. {j \in 1 .. n : Bad(projects[k][j])} = BadFiles(projects, k, n)
  BY DEF BadFiles
<1> QED BY <1>1, <1>4, <1>5, <1>6 DEF Tally

\* The rows of stat.csv add up, whatever fails: clones, parsers that end before
\* or after they wrote stat.txt, and stat.txts of an earlier run.
THEOREM RowsRight == Spec => []RowsAddUp
<1>1. Init => Inv
  BY InitInv
<1>2. Inv /\ [Next]_vars => Inv'
  BY StepInv
<1>3. Inv => RowsAddUp
  BY InvRowsAddUp
<1> QED BY <1>1, <1>2, <1>3, PTL DEF Spec

-----------------------------------------------------------------------------
(* The reports are right *)

\* What is at hand is nothing, or what the parser made of one of the files.
Parsed ==
  res = NoTree \/ \E k \in DOMAIN projects : \E j \in DOMAIN projects[k] : res = parse_input_tree(projects[k][j])

LEMMA StepParsed ==
  ASSUME Inv, Parsed, [Next]_vars
  PROVE  Parsed'
<1>1. CASE start_parse
  <2>1. p \in DOMAIN projects /\ f + 1 \in DOMAIN projects[p] /\ inputs[f + 1] = projects[p][f + 1]
    BY <1>1, Current DEF start_parse
  <2> QED BY <1>1, <2>1 DEF start_parse, Parsed
<1>2. CASE parse
  BY <1>2 DEF parse, Parsed
<1>3. CASE res' = res /\ projects' = projects
  BY <1>3 DEF Parsed
<1> QED BY <1>1, <1>2, <1>3 DEF Next, vars, handle_project, export_stat, log_json_errors, safe_run,
           end_project, aggregate_errors

LEMMA ParsedLocated ==
  ASSUME Inv, Parsed
  PROVE  ErrorsLocated
<1> SUFFICES ASSUME NEW n \in DOMAIN res.errors
             PROVE  Located(res.src, res.errors[n])
  BY DEF ErrorsLocated, Located
<1>1. res # NoTree
  BY DEF NoTree
<1>2. PICK k \in DOMAIN projects : \E j \in DOMAIN projects[k] : res = parse_input_tree(projects[k][j])
  BY <1>1 DEF Parsed
<1>8. PICK j \in DOMAIN projects[k] : res = parse_input_tree(projects[k][j])
  BY <1>2
<1> DEFINE file == projects[k][j]
           node == file.errors[n]
<1>3. n \in DOMAIN file.errors /\ res.src = load_string(file.text)
      /\ res.errors[n] = create_error(load_string(file.text), node)
  BY <1>8 DEF parse_input_tree
<1>4. projects \in ProjectLists
  BY DEF Inv, TypeInv
<1>5. PICK a \in 0 .. Len(file.text), b \in 0 .. Len(file.text) :
        a <= b /\ node.start_pos = PointAt(file.text, a) /\ node.end_pos = PointAt(file.text, b)
  BY <1>3, <1>4, ProjectsAssumption
<1>6. file.text \in Seq(STRING)
  <2>1. file \in File
    BY <1>4, FileFacts
  <2> QED BY <2>1 DEF File
<1> HIDE DEF file, node
<1>7. Located(load_string(file.text), create_error(load_string(file.text), node))
  BY <1>5, <1>6, ErrorLocated
<1> QED BY <1>3, <1>7

\* Whatever the text and wherever the two points of an error lie in it, what
\* Src_file and Snippet make of them is the text between them, in its lines,
\* with exactly that text highlighted and underlined, for all limits on the
\* length of what is shown and on the lines around.
THEOREM ReportsRight == Spec => []ErrorsLocated
<1>1. Init => Inv /\ Parsed
  BY InitInv DEF Init, Parsed
<1>2. Inv /\ Parsed /\ [Next]_vars => Inv' /\ Parsed'
  BY StepInv, StepParsed
<1>3. Inv /\ Parsed => ErrorsLocated
  BY ParsedLocated
<1> QED BY <1>1, <1>2, <1>3, PTL DEF Spec

-----------------------------------------------------------------------------
(* What is in the log *)

Entry == [class : STRING, lines : Nat]

ErrorsAt(ps, k, j)   == {<<<<k, j>>, n>> : n \in DOMAIN ps[k][j].errors}
ErrorsUpTo(ps, k, n) == UNION {ErrorsAt(ps, k, j) : j \in 1 .. n}

ErrorIn(ps, e) == ps[e[1][1]][e[1][2]].errors[e[2]]
LinesOf(ps, e) == ErrorIn(ps, e).end_pos.row - ErrorIn(ps, e).start_pos.row + 1

\* The entries of a class in the log, the errors of a class among those of E.
InLog(log, c)       == {k \in DOMAIN log : log[k].class = c}
Among(ps, E, c)     == {e \in E : ErrorIn(ps, e).class = c}
LogLines(log)       == [k \in DOMAIN log |-> log[k].lines]
ErrorsLines(ps, E)  == [e \in E |-> LinesOf(ps, e)]

\* The log has the errors of E and no others, each once, as far as the number
\* of errors of each class and the number of their lines tell.
Logged(log, ps, E) ==
  /\ log \in Seq(Entry) /\ IsFiniteSet(E)
  /\ \A e \in E : LinesOf(ps, e) \in Nat
  /\ \A c : /\ Cardinality(InLog(log, c)) = Cardinality(Among(ps, E, c))
            /\ SumFunctionOnSet(LogLines(log), InLog(log, c)) = SumFunctionOnSet(ErrorsLines(ps, E), Among(ps, E, c))

\* No file of a row, or of the rows to be, on which the parser gave up.
NoneAbandoned(c) == c.int = 0 /\ c.other = 0

\* The files of the current project that the parser is done with.
Written == IF pc \in {"parser", "log"} THEN f - 1 ELSE f

Past == Reported \cup (IF Midway THEN ErrorsUpTo(projects, p, Written) ELSE {})

\* What is in the log are errors of files that the parser is done with, and
\* all of them but those of files that it gave up.
AllLogged(E) ==
  /\ \A k \in DOMAIN csv : NoneAbandoned(csv[k].count) => ErrorsUpTo(projects, k, csv[k].files) \subseteq E
  /\ Midway /\ NoneAbandoned(count) => ErrorsUpTo(projects, p, Counted) \subseteq E
  /\ pc = "exit" /\ status \in {0, ExternalError} => ErrorsAt(projects, p, f) \subseteq E

LogInv ==
  /\ \E E \in SUBSET Past : Logged(json_log, projects, E) /\ AllLogged(E)
  /\ pc = "done" => summary.clusters = parse_json_error_log(json_log)

\* One more entry of one more error.
LEMMA LoggedMore ==
  ASSUME NEW ps, NEW log, NEW E, Logged(log, ps, E), NEW x \in Entry, NEW e, e \notin E,
         x.class = ErrorIn(ps, e).class, x.lines = LinesOf(ps, e)
  PROVE  Logged(Append(log, x), ps, E \cup {e})
<1> DEFINE m    == Append(log, x)
           F    == E \cup {e}
           last == Len(log) + 1
<1>1. /\ m \in Seq(Entry) /\ Len(log) \in Nat /\ DOMAIN log = 1 .. Len(log) /\ DOMAIN m = DOMAIN log \cup {last}
      /\ last \notin DOMAIN log /\ m[last] = x /\ \A k \in DOMAIN log : m[k] = log[k]
  <2>1. log \in Seq(Entry)
    BY DEF Logged
  <2>2. m \in Seq(Entry) /\ Len(m) = Len(log) + 1 /\ Len(log) \in Nat
    BY <2>1, AppendProperties, LenProperties
  <2>3. DOMAIN m = 1 .. Len(m) /\ DOMAIN log = 1 .. Len(log)
    BY <2>1, <2>2, LenProperties
  <2>4. m[last] = x /\ \A k \in 1 .. Len(log) : m[k] = log[k]
    BY <2>1, AppendProperties
  <2> HIDE DEF m
  <2> QED BY <2>2, <2>3, <2>4
<1>2. IsFiniteSet(E) /\ IsFiniteSet(F) /\ \A o \in F : LinesOf(ps, o) \in Nat
  <2>1. x.lines \in Nat
    BY DEF Entry
  <2> QED BY <2>1, FS_AddElement DEF Logged
<1>3. \A k \in DOMAIN log : log[k].lines \in Nat
  <2>1. \A k \in DOMAIN log : log[k] \in Entry
    BY ElementOfSeq DEF Logged
  <2> QED BY <2>1 DEF Entry
<1> HIDE DEF m, F
<1>4. ASSUME NEW c
      PROVE  /\ Cardinality(InLog(m, c)) = Cardinality(Among(ps, F, c))
             /\ SumFunctionOnSet(LogLines(m), InLog(m, c)) = SumFunctionOnSet(ErrorsLines(ps, F), Among(ps, F, c))
  <2> DEFINE I  == InLog(log, c)
             J  == InLog(m, c)
             A  == Among(ps, E, c)
             B  == Among(ps, F, c)
             g  == LogLines(log)
             h  == LogLines(m)
             u  == ErrorsLines(ps, E)
             v  == ErrorsLines(ps, F)
  <2>1. Cardinality(I) = Cardinality(A) /\ SumFunctionOnSet(g, I) = SumFunctionOnSet(u, A)
    BY DEF Logged
  <2>2. J = (IF x.class = c THEN I \cup {last} ELSE I) /\ last \notin I /\ I \subseteq DOMAIN log
    BY <1>1 DEF InLog
  <2>3. B = (IF x.class = c THEN A \cup {e} ELSE A) /\ e \notin A /\ A \subseteq E
    BY DEF Among, F
  <2>4. IsFiniteSet(I) /\ IsFiniteSet(A)
    <3>1. IsFiniteSet(DOMAIN log)
      BY <1>1, FS_Interval
    <3> QED BY <1>2, <2>2, <2>3, <3>1, FS_Subset
  <2>5. /\ \A k \in I : g[k] \in Nat /\ h[k] = g[k]
        /\ h[last] = x.lines /\ x.lines \in Nat
    BY <1>1, <1>3, <2>2 DEF LogLines, Entry
  <2>6. /\ \A o \in A : u[o] \in Nat /\ v[o] = u[o]
        /\ v[e] = x.lines
    BY <1>2, <2>3 DEF ErrorsLines, F
  <2> HIDE DEF I, J, A, B, g, h, u, v, last
  <2>7. SumFunctionOnSet(h, I) = SumFunctionOnSet(g, I)
    BY <2>4, <2>5, SumSame
  <2>8. SumFunctionOnSet(v, A) = SumFunctionOnSet(u, A)
    BY <2>4, <2>6, SumSame
  <2>9. CASE x.class = c
    <3>1. Cardinality(J) = Cardinality(I) + 1 /\ Cardinality(B) = Cardinality(A) + 1
      BY <2>2, <2>3, <2>4, <2>9, FS_AddElement
    <3>2. SumFunctionOnSet(h, I \cup {last}) = SumFunctionOnSet(h, I) + h[last]
      BY <2>2, <2>4, <2>5, SumAdd
    <3>3. SumFunctionOnSet(v, A \cup {e}) = SumFunctionOnSet(v, A) + v[e]
      <4>1. \A o \in A \cup {e} : v[o] \in Nat
        BY <2>5, <2>6
      <4> QED BY <2>3, <2>4, <4>1, SumAdd
    <3>4. Cardinality(J) = Cardinality(B)
      BY <2>1, <3>1
    <3>5. SumFunctionOnSet(h, J) = SumFunctionOnSet(v, B)
      BY <2>1, <2>2, <2>3, <2>5, <2>6, <2>7, <2>8, <2>9, <3>2, <3>3
    <3> QED BY <3>4, <3>5 DEF J, B, h, v
  <2>10. CASE x.class # c
    <3>1. J = I /\ B = A
      BY <2>2, <2>3, <2>10
    <3> QED BY <2>1, <2>7, <2>8, <3>1 DEF J, B, h, v
  <2> QED BY <2>9, <2>10
<1> QED BY <1>1, <1>2, <1>4 DEF Logged, m, F

\* The first n errors of a file.
FirstErrors(k, j, n) == {<<<<k, j>>, i>> : i \in 1 .. n}

\* log_json_errors, as far as it gets.
LEMMA LoggedFile ==
  ASSUME NEW ps \in ProjectLists, NEW k \in DOMAIN ps, NEW j \in DOMAIN ps[k],
         NEW log, NEW E, Logged(log, ps, E), \A i : <<<<k, j>>, i>> \notin E,
         NEW n \in 0 .. Len(parse_input_tree(ps[k][j]).errors)
  PROVE  LET es == parse_input_tree(ps[k][j]).errors
         IN  Logged(log \o [i \in 1 .. n |-> to_json_error(es[i])], ps, E \cup FirstErrors(k, j, n))
<1> DEFINE file == ps[k][j]
           es   == parse_input_tree(file).errors
           N    == Len(es)
           x(i) == to_json_error(es[i])
           l(m) == log \o [i \in 1 .. m |-> x(i)]
           F(m) == E \cup FirstErrors(k, j, m)
           T    == {m \in Nat : m <= N => Logged(l(m), ps, F(m))}
<1>1. /\ file.errors \in Seq([start_pos : Point, end_pos : Point, class : STRING]) /\ file.text \in Seq(STRING)
  BY FileFacts DEF File
<1>2. /\ N = Len(file.errors) /\ N \in Nat /\ DOMAIN file.errors = 1 .. N
      /\ \A i \in 1 .. N : es[i] = create_error(load_string(file.text), file.errors[i])
  <2> DEFINE e == file.errors
  <2>1. es = [i \in DOMAIN e |-> create_error(load_string(file.text), e[i])]
    BY DEF parse_input_tree
  <2>2. DOMAIN e = 1 .. Len(e) /\ Len(e) \in Nat
    BY <1>1, LenProperties
  <2> HIDE DEF e, es
  <2>3. Len(es) = Len(e) /\ \A i \in 1 .. Len(e) : es[i] = create_error(load_string(file.text), e[i])
    BY <2>1, <2>2
  <2> QED BY <2>2, <2>3 DEF e
<1>3. ASSUME NEW i \in 1 .. N
      PROVE  /\ x(i) \in Entry /\ x(i).class = ErrorIn(ps, <<<<k, j>>, i>>).class
             /\ x(i).lines = LinesOf(ps, <<<<k, j>>, i>>)
  <2> DEFINE node == file.errors[i]
  <2>1. i \in DOMAIN file.errors
    BY <1>2
  <2>2. node \in [start_pos : Point, end_pos : Point, class : STRING]
    <3> DEFINE S == [start_pos : Point, end_pos : Point, class : STRING]
               e == file.errors
    <3>1. e \in Seq(S) /\ i \in DOMAIN e
      BY <1>1, <2>1
    <3> HIDE DEF S, e
    <3>2. e[i] \in S
      BY <3>1, ElementOfSeq
    <3> QED BY <3>2 DEF S, e
  <2>3. PICK a \in 0 .. Len(file.text), b \in 0 .. Len(file.text) :
          a <= b /\ node.start_pos = PointAt(file.text, a) /\ node.end_pos = PointAt(file.text, b)
    <3> HIDE DEF es, N, x, l, F, T
    <3> QED BY <2>1, ProjectsAssumption
  <2>4. node.start_pos.row <= node.end_pos.row
    BY <1>1, <2>3, RowsInOrder
  <2>5. node.start_pos.row \in Nat /\ node.end_pos.row \in Nat /\ node.class \in STRING
    <3> HIDE DEF node
    <3> QED BY <2>2 DEF Point
  <2>6. es[i].error_class = node.class /\ es[i].start_pos = node.start_pos /\ es[i].end_pos = node.end_pos
    <3>1. es[i] = create_error(load_string(file.text), node)
      BY <1>2
    <3> HIDE DEF es, node
    <3> QED BY <3>1 DEF create_error
  <2>7. ErrorIn(ps, <<<<k, j>>, i>>) = node
    BY DEF ErrorIn
  <2> HIDE DEF node, es
  <2>8. x(i) = [class |-> node.class, lines |-> node.end_pos.row - node.start_pos.row + 1]
    BY <2>6 DEF to_json_error
  <2> QED BY <2>4, <2>5, <2>7, <2>8 DEF Entry, LinesOf
<1> HIDE DEF x, es
<1>4. 0 \in T
  <2>1. l(0) = log
    <3>1. log \in Seq(Entry)
      BY DEF Logged
    <3>2. [i \in 1 .. 0 |-> x(i)] = <<>>
      OBVIOUS
    <3> QED BY <3>1, <3>2, ConcatEmptySeq
  <2>2. F(0) = E
    <3>1. 1 .. 0 = {}
      OBVIOUS
    <3>2. FirstErrors(k, j, 0) = {}
      BY <3>1 DEF FirstErrors
    <3> QED BY <3>2
  <2> HIDE DEF l, F
  <2> QED BY <2>1, <2>2
<1>5. ASSUME NEW m \in Nat, m \in T
      PROVE  m + 1 \in T
  <2> SUFFICES ASSUME m + 1 <= N PROVE Logged(l(m + 1), ps, F(m + 1))
    OBVIOUS
  <2> DEFINE e == <<<<k, j>>, m + 1>>
             y == x(m + 1)
             q == [i \in 1 .. m |-> x(i)]
  <2>1. m + 1 \in 1 .. N /\ m <= N
    BY <1>2
  <2>2. y \in Entry /\ y.class = ErrorIn(ps, e).class /\ y.lines = LinesOf(ps, e)
    BY <1>3, <2>1
  <2>3. Logged(l(m), ps, F(m))
    BY <1>5, <2>1
  <2>4. e \notin F(m)
    BY DEF FirstErrors
  <2>5. F(m + 1) = F(m) \cup {e}
    <3>1. \A i : i \in 1 .. m + 1 <=> i \in 1 .. m \/ i = m + 1
      OBVIOUS
    <3>2. FirstErrors(k, j, m + 1) = FirstErrors(k, j, m) \cup {e}
      BY <3>1 DEF FirstErrors
    <3> QED BY <3>2
  <2>6. l(m + 1) = Append(l(m), y)
    <3>1. log \in Seq(Entry)
      BY DEF Logged
    <3>2. \A i \in 1 .. m + 1 : x(i) \in Entry
      <4>1. \A i \in 1 .. m + 1 : i \in 1 .. N
        BY <1>2, <2>1
      <4> QED BY <1>3, <4>1
    <3> HIDE DEF x
    <3>3. q \in Seq(Entry) /\ Append(q, y) = [i \in 1 .. m + 1 |-> x(i)]
      BY <3>2
    <3> HIDE DEF q, y
    <3>4. log \o Append(q, y) = Append(log \o q, y)
      <4>1. y \in Entry
        BY <2>2
      <4>2. Append(q, y) = q \o <<y>>
        BY <3>3, <4>1, AppendIsConcat
      <4>3. log \o q \in Seq(Entry)
        BY <3>1, <3>3, ConcatProperties
      <4>4. Append(log \o q, y) = (log \o q) \o <<y>>
        BY <4>1, <4>3, AppendIsConcat
      <4>5. <<y>> \in Seq(Entry)
        BY <4>1
      <4>6. (log \o q) \o <<y>> = log \o (q \o <<y>>)
        BY <3>1, <3>3, <4>5, ConcatAssociative
      <4> QED BY <4>2, <4>4, <4>6
    <3> QED BY <3>3, <3>4 DEF q
  <2> HIDE DEF l, F, e, y
  <2>7. Logged(Append(l(m), y), ps, F(m) \cup {e})
    BY <2>2, <2>3, <2>4, LoggedMore
  <2> QED BY <2>5, <2>6, <2>7
<1>6. n \in T
  <2> HIDE DEF T
  <2>1. Nat \subseteq T
    BY <1>4, <1>5, SetInd
  <2> QED BY <1>2, <2>1 DEF es, N
<1>7. n <= N
  BY <1>2 DEF es
<1>8. Logged(l(n), ps, F(n))
  BY <1>6, <1>7
<1> QED BY <1>8 DEF x, es

\* One more file.
LEMMA UpToMore ==
  ASSUME NEW ps, NEW k, NEW n \in Nat
  PROVE  /\ ErrorsUpTo(ps, k, 0) = {}
         /\ n >= 1 => ErrorsUpTo(ps, k, n) = ErrorsUpTo(ps, k, n - 1) \cup ErrorsAt(ps, k, n)
<1>1. 1 .. 0 = {}
  OBVIOUS
<1>2. n >= 1 => \A j : j \in 1 .. n <=> j \in 1 .. n - 1 \/ j = n
  OBVIOUS
<1> QED BY <1>1, <1>2 DEF ErrorsUpTo

\* The errors of the rows are of the projects before.
LEMMA ReportedIs ==
  /\ Reported = UNION {ErrorsUpTo(projects, k, csv[k].files) : k \in DOMAIN csv}
  /\ \A k \in DOMAIN csv : ErrorsUpTo(projects, k, csv[k].files) \subseteq Reported
<1>1. \A k : ErrorsUpTo(projects, k, csv[k].files)
               = UNION {{<<<<k, j>>, n>> : n \in DOMAIN projects[k][j].errors} : j \in 1 .. csv[k].files}
  BY DEF ErrorsUpTo, ErrorsAt
<1> QED BY <1>1 DEF Reported

LEMMA NotYet ==
  ASSUME Inv, NEW n \in Nat, NEW j, j \notin 1 .. n, NEW i
  PROVE  <<<<p, j>>, i>> \notin Reported \cup ErrorsUpTo(projects, p, n)
<1> DEFINE e == <<<<p, j>>, i>>
<1>1. e \notin ErrorsUpTo(projects, p, n)
  BY DEF ErrorsUpTo, ErrorsAt
<1>2. e \notin Reported
  <2>1. p \notin DOMAIN csv
    <3>1. DOMAIN csv = 1 .. p - 1 /\ p \in Nat
      BY Listed DEF Inv, Progress, TypeInv
    <3> QED BY <3>1
  <2>2. \A k \in DOMAIN csv : e \notin ErrorsUpTo(projects, k, csv[k].files)
    BY <2>1 DEF ErrorsUpTo, ErrorsAt
  <2> QED BY <2>2, ReportedIs
<1> QED BY <1>1, <1>2

LEMMA LogInit ==
  ASSUME Init
  PROVE  LogInv
<1>1. json_log = <<>> /\ csv = <<>> /\ pc \in {"summary", "project"}
  BY DEF Init
<1>2. Logged(<<>>, projects, {})
  <2>1. \A c : InLog(<<>>, c) = {} /\ Among(projects, {}, c) = {}
    BY DEF InLog, Among
  <2>2. Cardinality({}) = 0 /\ IsFiniteSet({})
    BY FS_EmptySet
  <2>3. \A c : /\ SumFunctionOnSet(LogLines(<<>>), InLog(<<>>, c)) = 0
               /\ SumFunctionOnSet(ErrorsLines(projects, {}), Among(projects, {}, c)) = 0
    BY <2>1, SumEmpty
  <2> QED BY <2>1, <2>2, <2>3 DEF Logged
<1>3. AllLogged({})
  BY <1>1 DEF AllLogged, Midway
<1> QED BY <1>1, <1>2, <1>3 DEF LogInv

\* A step that writes nothing to the log and no row.
LEMMA LogKept ==
  ASSUME LogInv, json_log' = json_log, projects' = projects, csv' = csv, pc' # "done",
         Past \subseteq Past',
         \A E : Midway' /\ NoneAbandoned(count') /\ AllLogged(E) => ErrorsUpTo(projects, p', Counted') \subseteq E,
         pc' = "exit" => status' \notin {0, ExternalError}
  PROVE  LogInv'
<1>1. PICK E \in SUBSET Past : Logged(json_log, projects, E) /\ AllLogged(E)
  BY DEF LogInv
<1>2. AllLogged(E)'
  BY <1>1 DEF AllLogged
<1>3. E \in SUBSET Past' /\ Logged(json_log', projects', E)
  BY <1>1
<1> QED BY <1>2, <1>3 DEF LogInv

LEMMA LogHandleProject ==
  ASSUME Inv, LogInv, NEW cloned \in BOOLEAN, handle_project(cloned)
  PROVE  LogInv'
<1>1. /\ json_log' = json_log /\ projects' = projects /\ csv' = csv /\ p' = p
      /\ pc = "project" /\ pc' = "next" /\ f' = 0
  BY DEF handle_project
<1>2. ~Midway /\ Counted' = 0
  BY <1>1 DEF Midway, Counted
<1>3. ErrorsUpTo(projects, p, 0) = {}
  BY UpToMore
<1>4. Past \subseteq Past'
  BY <1>1, <1>2 DEF Past, Reported
<1> QED BY <1>1, <1>2, <1>3, <1>4, LogKept

LEMMA LogStartParse ==
  ASSUME Inv, LogInv, start_parse
  PROVE  LogInv'
<1>1. /\ json_log' = json_log /\ projects' = projects /\ csv' = csv /\ p' = p
      /\ pc = "next" /\ pc' = "parser" /\ f' = f + 1 /\ f \in Nat
      /\ count'.int = count.int /\ count'.other = count.other
  BY DEF start_parse, Inv, TypeInv, CountType
<1>2. Midway /\ Midway' /\ Counted = f /\ Counted' = f /\ Written = f /\ Written' = f
  BY <1>1 DEF Midway, Counted, Written
<1>3. Past \subseteq Past'
  BY <1>1, <1>2 DEF Past, Reported
<1>4. \A E : NoneAbandoned(count') /\ AllLogged(E) => ErrorsUpTo(projects, p', Counted') \subseteq E
  BY <1>1, <1>2 DEF NoneAbandoned, AllLogged
<1> QED BY <1>1, <1>3, <1>4, LogKept

LEMMA LogExportStat ==
  ASSUME Inv, LogInv, export_stat
  PROVE  LogInv'
<1>1. /\ json_log' = json_log /\ projects' = projects /\ csv' = csv /\ p' = p /\ f' = f /\ count' = count
      /\ pc = "parser" /\ pc' = "log"
  BY DEF export_stat
<1>2. Midway /\ Midway' /\ Counted = Counted' /\ Written = Written'
  BY <1>1 DEF Midway, Counted, Written
<1>3. Past \subseteq Past'
  BY <1>1, <1>2 DEF Past, Reported
<1>4. \A E : NoneAbandoned(count') /\ AllLogged(E) => ErrorsUpTo(projects, p', Counted') \subseteq E
  BY <1>1, <1>2 DEF NoneAbandoned, AllLogged
<1> QED BY <1>1, <1>3, <1>4, LogKept

LEMMA ResErrors ==
  ASSUME Inv, pc = "log"
  PROVE  Len(res.errors) \in Nat /\ DOMAIN res.errors = 1 .. Len(res.errors)
<1> DEFINE file == projects[p][f]
           e    == file.errors
<1>1. f \in DOMAIN projects[p] /\ p \in DOMAIN projects /\ projects \in ProjectLists /\ res = parse_input_tree(file)
  BY Current DEF Inv, CurrentFile, TypeInv
<1>2. e \in Seq([start_pos : Point, end_pos : Point, class : STRING])
  BY <1>1, FileFacts DEF File
<1>3. DOMAIN e = 1 .. Len(e) /\ Len(e) \in Nat
  BY <1>2, LenProperties
<1>4. res.errors = [i \in DOMAIN e |-> create_error(load_string(file.text), e[i])]
  BY <1>1 DEF parse_input_tree
<1> HIDE DEF e, file
<1> QED BY <1>3, <1>4

\* The errors of the file, or the first of them, get into the log.
LEMMA LogWritten ==
  ASSUME Inv, LogInv, pc = "log", pc' = "exit", projects' = projects, csv' = csv, p' = p, f' = f, count' = count,
         NEW n \in 0 .. Len(res.errors),
         json_log' = json_log \o [i \in 1 .. n |-> to_json_error(res.errors[i])],
         status' \in {0, ExternalError} => n = Len(res.errors)
  PROVE  LogInv'
<1> DEFINE file == projects[p][f]
<1>1. /\ f \in DOMAIN projects[p] /\ p \in DOMAIN projects /\ p \in Nat /\ f \in Nat /\ f >= 1
      /\ res = parse_input_tree(file) /\ projects \in ProjectLists
  BY Current DEF Inv, CurrentFile, TypeInv
<1>2. /\ Midway /\ Midway' /\ Counted = f - 1 /\ Counted' = f - 1 /\ Written = f - 1 /\ Written' = f
  BY DEF Midway, Counted, Written
<1>3. PICK E \in SUBSET Past : Logged(json_log, projects, E) /\ AllLogged(E)
  BY DEF LogInv
<1>4. \A i : <<<<p, f>>, i>> \notin E
  <2>1. f - 1 \in Nat /\ f \notin 1 .. f - 1
    BY <1>1
  <2>2. Past = Reported \cup ErrorsUpTo(projects, p, f - 1)
    BY <1>2 DEF Past
  <2> QED BY <1>3, <2>1, <2>2, NotYet
<1> DEFINE F  == FirstErrors(p, f, n)
           es == parse_input_tree(projects[p][f]).errors
<1>5. Logged(json_log', projects, E \cup F)
  <2>1. n \in 0 .. Len(es) /\ json_log' = json_log \o [i \in 1 .. n |-> to_json_error(es[i])]
    BY <1>1
  <2>2. Logged(json_log \o [i \in 1 .. n |-> to_json_error(es[i])], projects, E \cup F)
    BY <1>1, <1>3, <1>4, <2>1, LoggedFile
  <2> HIDE DEF es, F
  <2> QED BY <2>1, <2>2
<1>6. Len(es) = Len(file.errors) /\ Len(es) \in Nat /\ DOMAIN file.errors = 1 .. Len(es)
  <2> DEFINE e == file.errors
  <2>1. e \in Seq([start_pos : Point, end_pos : Point, class : STRING])
    BY <1>1, FileFacts DEF File
  <2>2. DOMAIN e = 1 .. Len(e) /\ Len(e) \in Nat
    BY <2>1, LenProperties
  <2>3. es = [i \in DOMAIN e |-> create_error(load_string(file.text), e[i])]
    BY DEF parse_input_tree
  <2> HIDE DEF e, es
  <2> QED BY <2>2, <2>3 DEF e
<1>7. F \subseteq ErrorsAt(projects, p, f) /\ (status' \in {0, ExternalError} => F = ErrorsAt(projects, p, f))
  <2>1. n \in 0 .. Len(es) /\ (status' \in {0, ExternalError} => n = Len(es))
    BY <1>1
  <2>2. ErrorsAt(projects, p, f) = {<<<<p, f>>, i>> : i \in 1 .. Len(es)}
    BY <1>6 DEF ErrorsAt
  <2> HIDE DEF es
  <2> QED BY <1>6, <2>1, <2>2 DEF FirstErrors
<1>8. E \cup F \in SUBSET Past'
  <2>1. ErrorsUpTo(projects, p, f) = ErrorsUpTo(projects, p, f - 1) \cup ErrorsAt(projects, p, f)
    BY <1>1, UpToMore
  <2>2. Past = Reported \cup ErrorsUpTo(projects, p, f - 1) /\ Past' = Reported \cup ErrorsUpTo(projects, p, f)
    BY <1>2 DEF Past, Reported
  <2> QED BY <1>3, <1>7, <2>1, <2>2
<1> HIDE DEF F
<1>9. PICK G : G = E \cup F
  OBVIOUS
<1>10. AllLogged(G)'
  BY <1>2, <1>3, <1>7, <1>9 DEF AllLogged
<1>11. G \in SUBSET Past' /\ Logged(json_log', projects', G) /\ pc' # "done"
  BY <1>5, <1>8, <1>9
<1> QED BY <1>10, <1>11 DEF LogInv

LEMMA LogJson ==
  ASSUME Inv, LogInv, log_json_errors
  PROVE  LogInv'
<1>1. /\ pc = "log" /\ pc' = "exit" /\ projects' = projects /\ csv' = csv /\ p' = p /\ f' = f /\ count' = count
      /\ json_log' = json_log \o [i \in DOMAIN res.errors |-> to_json_error(res.errors[i])]
  BY DEF log_json_errors
<1>2. DOMAIN res.errors = 1 .. Len(res.errors) /\ Len(res.errors) \in 0 .. Len(res.errors)
  BY <1>1, ResErrors
<1> QED BY <1>1, <1>2, LogWritten

LEMMA LogSafeRun ==
  ASSUME Inv, LogInv, NEW s \in {AnyError, InternalError, Killed}, safe_run(s)
  PROVE  LogInv'
<1>1. /\ projects' = projects /\ csv' = csv /\ p' = p /\ f' = f /\ count' = count /\ pc' = "exit" /\ status' = s
      /\ pc \in {"parser", "log"}
  BY DEF safe_run
<1>2. status' \notin {0, ExternalError}
  BY <1>1 DEF AnyError, InternalError, Killed, ExternalError
<1>3. CASE pc = "parser"
  <2>1. json_log' = json_log
    BY <1>3 DEF safe_run
  <2>2. Midway /\ Midway' /\ Counted = Counted' /\ Written = f - 1 /\ Written' = f
    BY <1>1, <1>3 DEF Midway, Counted, Written
  <2>3. Past \subseteq Past'
    <3>1. f \in Nat /\ f >= 1
      BY <1>3, Current
    <3>2. ErrorsUpTo(projects, p, f - 1) \subseteq ErrorsUpTo(projects, p, f)
      BY <3>1, UpToMore
    <3> QED BY <1>1, <2>2, <3>2 DEF Past, Reported
  <2>4. \A E : NoneAbandoned(count') /\ AllLogged(E) => ErrorsUpTo(projects, p', Counted') \subseteq E
    BY <1>1, <2>2 DEF NoneAbandoned, AllLogged
  <2> QED BY <1>1, <1>2, <2>1, <2>3, <2>4, LogKept
<1>4. CASE pc = "log"
  <2>1. PICK n \in 0 .. Len(res.errors) : json_log' = json_log \o [i \in 1 .. n |-> to_json_error(res.errors[i])]
    BY <1>4 DEF safe_run
  <2> QED BY <1>1, <1>2, <1>4, <2>1, LogWritten
<1> QED BY <1>1, <1>3, <1>4

\* A file on which the parser gave up is in one of two columns.
LEMMA LogParse ==
  ASSUME Inv, LogInv, parse
  PROVE  LogInv'
<1>1. /\ json_log' = json_log /\ projects' = projects /\ csv' = csv /\ p' = p /\ f' = f
      /\ pc = "exit" /\ pc' = "next"
  BY DEF parse
<1>2. Midway /\ Midway' /\ Counted = f - 1 /\ Counted' = f /\ Written = Written' /\ f \in Nat /\ f >= 1
  <2>1. f \in Nat /\ f >= 1
    BY <1>1, Current
  <2> QED BY <1>1, <2>1 DEF Midway, Counted, Written
<1>3. Past \subseteq Past'
  BY <1>1, <1>2 DEF Past, Reported
<1>4. NoneAbandoned(count') => NoneAbandoned(count) /\ status \in {0, ExternalError}
  <2>1. count \in CountType /\ status \in {0, AnyError, ExternalError, InternalError, Killed}
    BY <1>1 DEF Inv, TypeInv, CurrentFile
  <2>2. count'.int = classify(count).int /\ count'.other = classify(count).other
    <3>1. classify(count) \in CountType
      BY <2>1, Classified
    <3> DEFINE d == classify(count)
               a == IF status = 0 THEN d.errors ELSE d.errors + stat_txt[p].error_count
               b == IF status = 0 THEN d.error_lines ELSE d.error_lines + stat_txt[p].error_line_count
    <3>2. count' = [d EXCEPT !.errors = a, !.error_lines = b]
      BY DEF parse
    <3> HIDE DEF d, a, b
    <3>3. count'.int = d.int /\ count'.other = d.other
      BY <3>1, <3>2 DEF CountType, d
    <3> QED BY <3>3 DEF d
  <2>3. /\ classify(count).int = (IF status = InternalError THEN count.int + 1 ELSE count.int)
        /\ classify(count).other = (IF status \notin {0, ExternalError, InternalError} THEN count.other + 1 ELSE count.other)
    BY <2>1 DEF classify, CountType
  <2>4. count.int \in Nat /\ count.other \in Nat
    BY <2>1 DEF CountType
  <2> QED BY <2>2, <2>3, <2>4 DEF NoneAbandoned
<1>5. ErrorsUpTo(projects, p, f) = ErrorsUpTo(projects, p, f - 1) \cup ErrorsAt(projects, p, f)
  BY <1>2, UpToMore
<1>6. \A E : NoneAbandoned(count') /\ AllLogged(E) => ErrorsUpTo(projects, p', Counted') \subseteq E
  BY <1>1, <1>2, <1>4, <1>5 DEF AllLogged
<1> QED BY <1>1, <1>3, <1>6, LogKept

LEMMA LogEndProject ==
  ASSUME Inv, LogInv, end_project
  PROVE  LogInv'
<1> DEFINE row == [files |-> f, count |-> count]
           R   == [files : Nat, count : CountType]
<1>1. /\ json_log' = json_log /\ projects' = projects /\ csv' = Append(csv, row)
      /\ pc = "next" /\ pc' \in {"summary", "project"}
  BY DEF end_project
<1>2. /\ row \in R /\ csv \in Seq(R) /\ Len(csv) = p - 1 /\ p \in Nat /\ p >= 1
      /\ row.files = f /\ row.count = count
  BY DEF Inv, TypeInv, Progress
<1> HIDE DEF row, R
<1>3. /\ DOMAIN csv' = DOMAIN csv \cup {p} /\ csv'[p] = row
      /\ \A k \in DOMAIN csv : csv'[k] = csv[k]
  <2>1. csv' \in Seq(R) /\ Len(csv') = Len(csv) + 1 /\ Len(csv) \in Nat
    BY <1>1, <1>2, AppendProperties, LenProperties
  <2>2. DOMAIN csv' = 1 .. p /\ DOMAIN csv = 1 .. p - 1
    BY <1>2, <2>1, LenProperties
  <2>3. csv'[p] = row /\ \A k \in 1 .. p - 1 : csv'[k] = csv[k]
    BY <1>1, <1>2, AppendProperties
  <2> QED BY <1>2, <2>2, <2>3
<1>4. Midway /\ ~Midway' /\ Counted = f /\ Written = f
  BY <1>1 DEF Midway, Counted, Written
<1>5. Past' = Past
  <2>1. Past = Reported \cup ErrorsUpTo(projects, p, f) /\ Past' = Reported'
    BY <1>4 DEF Past
  <2>2. Reported' = UNION {ErrorsUpTo(projects, k, csv'[k].files) : k \in DOMAIN csv'}
    <3>1. \A k : ErrorsUpTo(projects, k, csv'[k].files)
                   = UNION {{<<<<k, j>>, n>> : n \in DOMAIN projects[k][j].errors} : j \in 1 .. csv'[k].files}
      BY DEF ErrorsUpTo, ErrorsAt
    <3>2. Reported' = UNION {UNION {{<<<<k, j>>, n>> : n \in DOMAIN projects[k][j].errors} : j \in 1 .. csv'[k].files} : k \in DOMAIN csv'}
      BY <1>1 DEF Reported
    <3> QED BY <3>1, <3>2
  <2> QED BY <1>2, <1>3, <2>1, <2>2, ReportedIs
<1>6. PICK E \in SUBSET Past : Logged(json_log, projects, E) /\ AllLogged(E)
  BY DEF LogInv
<1>7. AllLogged(E)'
  BY <1>1, <1>2, <1>3, <1>4, <1>6 DEF AllLogged
<1>8. Logged(json_log', projects', E) /\ pc' # "done"
  BY <1>1, <1>6
<1> QED BY <1>5, <1>6, <1>7, <1>8 DEF LogInv

LEMMA LogAggregate ==
  ASSUME Inv, LogInv, aggregate_errors
  PROVE  LogInv'
<1>1. /\ json_log' = json_log /\ projects' = projects /\ csv' = csv /\ pc = "summary" /\ pc' = "done"
      /\ summary'.clusters = parse_json_error_log(json_log)
  BY DEF aggregate_errors
<1>2. ~Midway /\ ~Midway'
  BY <1>1 DEF Midway
<1>3. PICK E \in SUBSET Past : Logged(json_log, projects, E) /\ AllLogged(E)
  BY DEF LogInv
<1>4. AllLogged(E)' /\ E \in SUBSET Past' /\ Logged(json_log', projects', E)
  BY <1>1, <1>2, <1>3 DEF AllLogged, Past, Reported
<1> QED BY <1>1, <1>4 DEF LogInv

LEMMA LogStep == Inv /\ LogInv /\ [Next]_vars => LogInv'
<1> SUFFICES ASSUME Inv, LogInv, [Next]_vars PROVE LogInv'
  OBVIOUS
<1>1. CASE \E cloned \in BOOLEAN : handle_project(cloned)
  BY <1>1, LogHandleProject
<1>2. CASE start_parse
  BY <1>2, LogStartParse
<1>3. CASE export_stat
  BY <1>3, LogExportStat
<1>4. CASE log_json_errors
  BY <1>4, LogJson
<1>5. CASE \E s \in {AnyError, InternalError, Killed} : safe_run(s)
  BY <1>5, LogSafeRun
<1>6. CASE parse
  BY <1>6, LogParse
<1>7. CASE end_project
  BY <1>7, LogEndProject
<1>8. CASE aggregate_errors
  BY <1>8, LogAggregate
<1>9. CASE UNCHANGED vars
  <2>1. UNCHANGED <<projects, csv, p, f, pc, count, status, json_log, summary>>
    BY <1>9 DEF vars
  <2> QED BY <2>1 DEF LogInv, AllLogged, Past, Reported, Midway, Counted, Written
<1> QED BY <1>1, <1>2, <1>3, <1>4, <1>5, <1>6, <1>7, <1>8, <1>9 DEF Next

LEMMA FiniteImage ==
  ASSUME NEW S, IsFiniteSet(S), NEW g
  PROVE  IsFiniteSet({g[x] : x \in S})
<1> DEFINE T == {g[x] : x \in S}
           h == [x \in S |-> g[x]]
<1>1. h \in Surjection(S, T)
  BY DEF Surjection
<1> QED BY <1>1, FS_Surjection

\* There are finitely many errors.
LEMMA FiniteErrors ==
  ASSUME Inv
  PROVE  IsFiniteSet(Reported)
<1>1. /\ DOMAIN csv = 1 .. p - 1 /\ p - 1 \in Nat /\ p - 1 <= Len(projects) /\ Len(projects) \in Nat
      /\ DOMAIN projects = 1 .. Len(projects)
  BY Listed DEF Inv, TypeInv, Progress
<1>2. ASSUME NEW k \in DOMAIN csv
      PROVE  IsFiniteSet(ErrorsUpTo(projects, k, csv[k].files))
  <2> DEFINE n == csv[k].files
  <2>1. /\ n \in 0 .. Len(projects[k]) /\ k \in DOMAIN projects /\ Len(projects[k]) \in Nat
        /\ DOMAIN projects[k] = 1 .. Len(projects[k])
    <3>1. k \in DOMAIN projects
      BY <1>1
    <3> QED BY <3>1, Listed DEF Inv, RowsTally
  <2> HIDE DEF n
  <2>2. ASSUME NEW j \in 1 .. n
        PROVE  IsFiniteSet(ErrorsAt(projects, k, j))
    <3> DEFINE e == projects[k][j].errors
               g == [i \in DOMAIN e |-> <<<<k, j>>, i>>]
    <3>1. j \in DOMAIN projects[k]
      BY <2>1
    <3>2. e \in Seq([start_pos : Point, end_pos : Point, class : STRING])
      BY <2>1, <3>1, FileFacts DEF File, Inv, TypeInv
    <3>3. DOMAIN e = 1 .. Len(e) /\ Len(e) \in Nat
      BY <3>2, LenProperties
    <3> HIDE DEF e
    <3>4. IsFiniteSet(DOMAIN e)
      BY <3>3, FS_Interval
    <3>5. ErrorsAt(projects, k, j) = {g[i] : i \in DOMAIN e}
      BY DEF ErrorsAt, e
    <3> HIDE DEF g
    <3> QED BY <3>4, <3>5, FiniteImage
  <2> DEFINE g == [j \in 1 .. n |-> ErrorsAt(projects, k, j)]
             S == {g[j] : j \in 1 .. n}
  <2>3. IsFiniteSet(1 .. n)
    BY <2>1, FS_Interval
  <2>4. IsFiniteSet(S)
    <3> HIDE DEF g
    <3> QED BY <2>3, FiniteImage
  <2>5. \A T \in S : IsFiniteSet(T)
    BY <2>2
  <2>6. ErrorsUpTo(projects, k, n) = UNION S
    BY DEF ErrorsUpTo
  <2> HIDE DEF S
  <2>7. IsFiniteSet(ErrorsUpTo(projects, k, n))
    BY <2>4, <2>5, <2>6, FS_UNION
  <2> QED BY <2>7 DEF n
<1> DEFINE g == [k \in DOMAIN csv |-> ErrorsUpTo(projects, k, csv[k].files)]
           S == {g[k] : k \in DOMAIN csv}
<1>3. IsFiniteSet(DOMAIN csv)
  BY <1>1, FS_Interval
<1>4. IsFiniteSet(S)
  <2> HIDE DEF g
  <2> QED BY <1>3, FiniteImage
<1>5. \A T \in S : IsFiniteSet(T)
  BY <1>2
<1>6. Reported = UNION S
  BY ReportedIs
<1> HIDE DEF S
<1> QED BY <1>4, <1>5, <1>6, FS_UNION

LEMMA InvClusters == Inv /\ LogInv => ClustersAddUp
<1> SUFFICES ASSUME Inv, LogInv, pc = "done" PROVE ClustersAddUp
  BY DEF ClustersAddUp
<1> DEFINE clusters == summary.clusters
           of(c)    == {e \in Reported : ErrorNode(e).class = c}
           lines    == [e \in Reported |-> ErrorNode(e).end_pos.row - ErrorNode(e).start_pos.row + 1]
           I(c)     == InLog(json_log, c)
<1>1. ~Midway
  BY DEF Midway
<1>2. PICK E \in SUBSET Reported : Logged(json_log, projects, E) /\ AllLogged(E)
  BY <1>1 DEF LogInv, Past
<1>3. \A c : /\ Cardinality(I(c)) = Cardinality(Among(projects, E, c))
             /\ SumFunctionOnSet(LogLines(json_log), I(c)) = SumFunctionOnSet(ErrorsLines(projects, E), Among(projects, E, c))
  BY <1>2 DEF Logged
<1>4. \A c : IsFiniteSet(I(c)) /\ Cardinality(I(c)) \in Nat /\ (Cardinality(I(c)) = 0 <=> I(c) = {})
  <2>1. IsFiniteSet(DOMAIN json_log)
    <3>1. json_log \in Seq(Entry)
      BY <1>2 DEF Logged
    <3> QED BY <3>1, LenProperties, FS_Interval
  <2>2. \A c : I(c) \in SUBSET DOMAIN json_log
    BY DEF InLog
  <2> HIDE DEF I
  <2> QED BY <2>1, <2>2, FS_Subset, FS_CardinalityType, FS_EmptySet
<1>5. /\ \A c : c \in DOMAIN clusters <=> c # NoClass /\ I(c) # {}
      /\ \A c \in DOMAIN clusters : /\ clusters[c].num_errors = Cardinality(I(c))
                                    /\ clusters[c].num_lines = SumFunctionOnSet(LogLines(json_log), I(c))
  <2>1. clusters = [c \in {json_log[k].class : k \in DOMAIN json_log} \ {NoClass} |->
                      [num_errors |-> Cardinality(I(c)),
                       num_lines  |-> SumFunctionOnSet(LogLines(json_log), I(c))]]
    BY DEF LogInv, parse_json_error_log, InLog, LogLines
  <2>2. \A c : c \in {json_log[k].class : k \in DOMAIN json_log} <=> I(c) # {}
    BY DEF InLog
  <2> HIDE DEF clusters, I
  <2> QED BY <2>1, <2>2
<1>6. \A c : Among(projects, E, c) \subseteq of(c)
  BY DEF Among, ErrorIn, ErrorNode
<1>7. \A c : IsFiniteSet(of(c)) /\ Cardinality(of(c)) \in Nat
  <2>1. \A c : of(c) \in SUBSET Reported
    OBVIOUS
  <2> HIDE DEF of
  <2> QED BY <2>1, FiniteErrors, FS_Subset, FS_CardinalityType
<1>8. ASSUME NEW c \in DOMAIN clusters
      PROVE  c # NoClass /\ clusters[c].num_errors \in 1 .. Cardinality(of(c))
  <2>1. Cardinality(Among(projects, E, c)) <= Cardinality(of(c))
    <3> HIDE DEF of
    <3> QED BY <1>6, <1>7, FS_Subset
  <2> HIDE DEF of, clusters, I
  <2>2. c # NoClass /\ I(c) # {} /\ clusters[c].num_errors = Cardinality(I(c))
    BY <1>5, <1>8
  <2> QED BY <1>3, <1>4, <1>7, <2>1, <2>2
<1>9. ASSUME \A k \in DOMAIN csv : csv[k].count.int = 0 /\ csv[k].count.other = 0,
             NEW e \in Reported, ErrorNode(e).class # NoClass
      PROVE  LET c == ErrorNode(e).class
             IN  /\ c \in DOMAIN clusters
                 /\ clusters[c].num_errors = Cardinality(of(c))
                 /\ clusters[c].num_lines = SumFunctionOnSet(lines, of(c))
  <2> DEFINE c == ErrorNode(e).class
  <2>1. E = Reported
    <3>1. \A k \in DOMAIN csv : ErrorsUpTo(projects, k, csv[k].files) \subseteq E
      BY <1>2, <1>9 DEF AllLogged, NoneAbandoned
    <3> QED BY <1>2, <3>1, ReportedIs
  <2>2. Among(projects, E, c) = of(c) /\ ErrorsLines(projects, E) = lines
    BY <2>1 DEF Among, ErrorsLines, LinesOf, ErrorIn, ErrorNode
  <2>3. of(c) # {}
    OBVIOUS
  <2> HIDE DEF of, c, lines, clusters, I
  <2>4. Cardinality(of(c)) # 0
    BY <1>7, <2>3, FS_EmptySet
  <2>5. I(c) # {}
    BY <1>3, <1>4, <2>2, <2>4
  <2>6. c \in DOMAIN clusters
    BY <1>5, <1>9, <2>5 DEF c
  <2> QED BY <1>3, <1>5, <2>2, <2>6 DEF c
<1> QED BY <1>8, <1>9 DEF ClustersAddUp

\* The clusters of errors add up: what a parser appends to the log is there at
\* the end, after all that other files, projects and parsers that ended early
\* have added, in the cluster of its class and counted once.
THEOREM ClustersRight == Spec => []ClustersAddUp
<1>1. Init => Inv /\ LogInv
  BY InitInv, LogInit
<1>2. Inv /\ LogInv /\ [Next]_vars => Inv' /\ LogInv'
  BY StepInv, LogStep
<1>3. Inv /\ LogInv => ClustersAddUp
  BY InvClusters
<1> QED BY <1>1, <1>2, <1>3, PTL DEF Spec
=============================================================================
