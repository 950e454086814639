-------------------------- MODULE Rearrange_proofs --------------------------
(***************************************************************************)
(* The generated types are never cyclic abbreviations, are defined before  *)
(* they are used and are those the parser was generated for, for every     *)
(* grammar: whatever rules Deinline, Factorize and Inline find to replace. *)
(***************************************************************************)
EXTENDS GeneratedTypes, SequenceTheorems, FiniteSetTheorems, WellFoundedInduction, TLAPS

-----------------------------------------------------------------------------
(* Numbers *)

\* A number is the smallest of a set of numbers that is not empty.
LEMMA Smallest ==
  ASSUME NEW S, S # {}, NEW f, f \in [S -> Nat]
  PROVE  \E n \in S : \A m \in S : f[n] <= f[m]
<1> DEFINE T == {f[n] : n \in S}
<1>1. IsWellFoundedOn(OpToRel(<, Nat), Nat)
  BY NatLessThanWellFounded
<1>2. T \subseteq Nat /\ T # {}
  OBVIOUS
<1>3. \E k \in T : \A j \in T : ~ (<<j, k>> \in OpToRel(<, Nat))
  <2> HIDE DEF T
  <2> QED BY <1>1, <1>2, WFMin
<1>4. PICK k \in T : \A j \in T : ~ (<<j, k>> \in OpToRel(<, Nat))
  BY <1>3
<1>5. \A j \in T : ~ (j < k)
  <2> HIDE DEF T
  <2> QED BY <1>2, <1>4 DEF OpToRel
<1>6. PICK n \in S : k = f[n]
  OBVIOUS
<1>7. ASSUME NEW m \in S PROVE f[n] <= f[m]
  <2>1. f[m] \in T /\ f[m] \in Nat /\ f[n] \in Nat
    OBVIOUS
  <2>2. ~ (f[m] < f[n])
    BY <2>1, <1>5, <1>6
  <2> QED BY <2>1, <2>2
<1> QED BY <1>7

\* There are no more values of a function than arguments.
LEMMA ImageFinite ==
  ASSUME NEW S, IsFiniteSet(S), NEW f
  PROVE  IsFiniteSet({f[x] : x \in S})
<1> DEFINE T == {f[x] : x \in S}
           h == [x \in S |-> f[x]]
<1>1. h \in Surjection(S, T)
  BY DEF Surjection
<1> HIDE DEF T, h
<1>2. IsFiniteSet(T)
  BY <1>1, FS_Surjection
<1> QED BY <1>2 DEF T

-----------------------------------------------------------------------------
(* What is reached *)

\* Nothing is next to the names of R but what is in R.
Closed(next, R) == \A n \in R : next[n] \subseteq R

\* A relation on a finite set of names.
RelationOn(next, D) == IsFiniteSet(D) /\ next \in [D -> SUBSET D]

\* What every closed set has that has some names.
Least(next, D, from) == {n \in D : \A R \in SUBSET D : from \subseteq R /\ Closed(next, R) => n \in R}

LEMMA LeastIs ==
  ASSUME NEW D, NEW next, RelationOn(next, D), NEW from \in SUBSET D
  PROVE  /\ from \subseteq Least(next, D, from) /\ Least(next, D, from) \subseteq D
         /\ Closed(next, Least(next, D, from))
         /\ \A R \in SUBSET D : from \subseteq R /\ Closed(next, R) => Least(next, D, from) \subseteq R
<1>1. \A n \in D : next[n] \in SUBSET D
  BY DEF RelationOn
<1>2. from \subseteq Least(next, D, from) /\ Least(next, D, from) \subseteq D
  BY DEF Least
<1>3. ASSUME NEW R \in SUBSET D, from \subseteq R, Closed(next, R) PROVE Least(next, D, from) \subseteq R
  BY <1>3 DEF Least
<1>4. ASSUME NEW n \in Least(next, D, from), NEW m \in next[n] PROVE m \in Least(next, D, from)
  <2>1. m \in D
    BY <1>1, <1>2
  <2>2. ASSUME NEW R \in SUBSET D, from \subseteq R, Closed(next, R) PROVE m \in R
    BY <1>3, <2>2 DEF Closed
  <2> QED BY <2>1, <2>2 DEF Least
<1> QED BY <1>2, <1>3, <1>4 DEF Closed

\* Names and those next to them reach the same, and names with nothing to add
\* only themselves.
LEMMA LeastMore ==
  ASSUME NEW D, NEW next, RelationOn(next, D), NEW from \in SUBSET D,
         NEW more, more = from \cup UNION {next[n] : n \in from}
  PROVE  /\ more \in SUBSET D /\ Least(next, D, more) = Least(next, D, from)
         /\ more = from => Least(next, D, from) = from
<1>1. \A n \in D : next[n] \in SUBSET D
  BY DEF RelationOn
<1>2. more \in SUBSET D
  BY <1>1
<1>3. \A R \in SUBSET D : Closed(next, R) => (from \subseteq R <=> more \subseteq R)
  BY DEF Closed
<1>4. Least(next, D, more) = Least(next, D, from)
  BY <1>3 DEF Least
<1>5. ASSUME more = from PROVE Least(next, D, from) = from
  <2>1. Closed(next, from)
    BY <1>5 DEF Closed
  <2>2. Least(next, D, from) \subseteq from /\ from \subseteq Least(next, D, from)
    BY <2>1, LeastIs
  <2> QED BY <2>2
<1> QED BY <1>2, <1>4, <1>5

\* Reach finds that: it ends, since it adds something each time.
LEMMA ReachIs ==
  ASSUME NEW D, NEW next, RelationOn(next, D), NEW from \in SUBSET D
  PROVE  Reach(next, from) = Least(next, D, from)
<1> DEFINE S == SUBSET D
           More(s) == s \cup UNION {next[n] : n \in s}
           L == [s \in S |-> Least(next, D, s)]
           F(e) == [s \in S |-> IF More(s) = s THEN s ELSE e[More(s)]]
           c == CHOOSE e : e = F(e)
           T == {s \in S : c[s] # L[s]}
           f == [s \in T |-> Cardinality(D \ s)]
<1>1. DOMAIN next = D /\ IsFiniteSet(D)
  BY DEF RelationOn
<1>2. \A s \in S : /\ More(s) \in S /\ L[s] = Least(next, D, s) /\ L[More(s)] = L[s]
                   /\ More(s) = s => L[s] = s
  BY LeastMore
<1>3. Reach(next, from) = c[from]
  BY <1>1 DEF Reach
<1>4. c = F(c)
  <2>1. L = F(L)
    <3> HIDE DEF More
    <3>1. \A s \in S : L[s] = IF More(s) = s THEN s ELSE L[More(s)]
      BY <1>2
    <3> QED BY <3>1
  <2> HIDE DEF L, F
  <2> QED BY <2>1
<1>5. \A s \in S : c[s] = IF More(s) = s THEN s ELSE c[More(s)]
  <2> HIDE DEF More, c
  <2> QED BY <1>4
<1>6. \A s \in S : s \subseteq More(s)
  OBVIOUS
<1> HIDE DEF More, c, L
<1>7. ASSUME T # {} PROVE FALSE
  <2>1. \A s \in S : IsFiniteSet(D \ s) /\ Cardinality(D \ s) \in Nat
    BY <1>1, FS_Difference, FS_CardinalityType
  <2>2. f \in [T -> Nat]
    BY <2>1
  <2>3. PICK s \in T : \A t \in T : f[s] <= f[t]
    <3> HIDE DEF T, f
    <3> QED BY <2>2, <1>7, Smallest
  <2>4. More(s) # s /\ c[s] = c[More(s)] /\ L[s] = L[More(s)] /\ More(s) \in S
    BY <1>2, <1>5
  <2>5. More(s) \in T
    BY <2>4
  <2>6. D \ More(s) \in SUBSET (D \ s) /\ D \ More(s) # D \ s
    BY <1>6, <2>4
  <2>7. Cardinality(D \ More(s)) <= Cardinality(D \ s) /\ Cardinality(D \ More(s)) # Cardinality(D \ s)
    BY <2>1, <2>6, FS_Subset
  <2>8. f[s] = Cardinality(D \ s) /\ f[More(s)] = Cardinality(D \ More(s)) /\ f[s] <= f[More(s)]
    BY <2>3, <2>5
  <2>9. Cardinality(D \ s) \in Nat /\ Cardinality(D \ More(s)) \in Nat
    BY <2>1, <2>4
  <2> HIDE DEF f
  <2> QED BY <2>7, <2>8, <2>9, SMT
<1>8. c[from] = L[from]
  BY <1>7
<1> QED BY <1>2, <1>3, <1>8

\* What is reached: the names one starts from and all that is next to it.
LEMMA Reached ==
  ASSUME NEW D, NEW next, RelationOn(next, D), NEW from \in SUBSET D
  PROVE  /\ from \subseteq Reach(next, from)
         /\ Reach(next, from) \subseteq D
         /\ Closed(next, Reach(next, from))
BY ReachIs, LeastIs

LEMMA ReachedLeast ==
  ASSUME NEW D, NEW next, RelationOn(next, D), NEW from \in SUBSET D,
         NEW R, from \subseteq R, Closed(next, R \cap D)
  PROVE  Reach(next, from) \subseteq R
<1>1. R \cap D \in SUBSET D /\ from \subseteq R \cap D
  OBVIOUS
<1>2. Least(next, D, from) \subseteq R \cap D
  BY <1>1, LeastIs
<1> QED BY <1>2, ReachIs

\* A name that is reached leads to no more than what reached it.
LEMMA ReachedOn ==
  ASSUME NEW D, NEW next, RelationOn(next, D), NEW from \in SUBSET D, NEW n \in Reach(next, from)
  PROVE  Reach(next, next[n]) \subseteq Reach(next, from)
<1> DEFINE R == Reach(next, from)
<1>1. R \subseteq D /\ Closed(next, R)
  BY Reached
<1>2. next[n] \in SUBSET D /\ next[n] \subseteq R /\ R \cap D = R
  BY <1>1 DEF Closed, RelationOn
<1>3. Closed(next, R \cap D)
  BY <1>1, <1>2
<1> HIDE DEF R
<1> QED BY <1>2, <1>3, ReachedLeast DEF R

-----------------------------------------------------------------------------
(* Cycles *)

\* A set of names of which each has one next to it: there is a cycle if there
\* is such a set with something in it.
Endless(next, S) == \A n \in S : next[n] \cap S # {}

Acyclic(next) == \A S \in SUBSET DOMAIN next : Endless(next, S) => S = {}

LEMMA AcyclicReach ==
  ASSUME NEW D, NEW next, RelationOn(next, D), Acyclic(next), NEW n \in D
  PROVE  n \notin Reach(next, next[n])
<1> SUFFICES ASSUME n \in Reach(next, next[n]) PROVE FALSE
  OBVIOUS
<1> DEFINE S == {m \in D : n \in Reach(next, next[m])}
<1>1. DOMAIN next = D /\ \A m \in D : next[m] \in SUBSET D
  BY DEF RelationOn
<1>2. ASSUME NEW m \in S PROVE next[m] \cap S # {}
  <2> SUFFICES ASSUME next[m] \cap S = {} PROVE FALSE
    OBVIOUS
  <2> DEFINE R == {k \in D : k \in next[m] \/ \E j \in next[m] : k \in Reach(next, next[j])}
  <2>1. next[m] \subseteq R
    BY <1>1
  <2>2. Closed(next, R \cap D)
    <3> SUFFICES ASSUME NEW k \in R, NEW i \in next[k] PROVE i \in R
      BY DEF Closed
    <3>1. i \in D
      BY <1>1
    <3>2. CASE k \in next[m]
      <4>1. i \in Reach(next, next[k])
        BY <1>1, Reached
      <4> QED BY <4>1, <3>1, <3>2
    <3>3. CASE \E j \in next[m] : k \in Reach(next, next[j])
      <4>1. PICK j \in next[m] : k \in Reach(next, next[j])
        BY <3>3
      <4>2. i \in Reach(next, next[j])
        BY <4>1, <1>1, Reached DEF Closed
      <4> QED BY <4>2, <3>1
    <3> QED BY <3>2, <3>3
  <2>3. Reach(next, next[m]) \subseteq R
    <3> HIDE DEF R
    <3> QED BY <2>1, <2>2, <1>1, ReachedLeast
  <2>4. n \in R
    BY <2>3
  <2>5. CASE n \in next[m]
    BY <2>5
  <2>6. CASE \E j \in next[m] : n \in Reach(next, next[j])
    BY <2>6, <1>1
  <2> QED BY <2>4, <2>5, <2>6
<1>3. Endless(next, S)
  BY <1>2 DEF Endless
<1>4. S \in SUBSET DOMAIN next /\ n \in S
  BY <1>1
<1> QED
  <2> HIDE DEF S
  <2> QED BY <1>3, <1>4 DEF Acyclic

\* In a set of names each of which has one next to it there is one that is
\* reached from all it reaches: the one that reaches least.
LEMMA Cycle ==
  ASSUME NEW D, NEW next, RelationOn(next, D), NEW S \in SUBSET D, S # {}, Endless(next, S),
         \A n \in D : next[n] \subseteq S
  PROVE  \E n \in S : \A m \in Reach(next, next[n]) : n \in Reach(next, next[m])
<1> DEFINE R(n) == Reach(next, next[n])
           f == [n \in S |-> Cardinality(R(n))]
<1>1. \A n \in D : next[n] \in SUBSET D /\ IsFiniteSet(D)
  BY DEF RelationOn
<1>2. ASSUME NEW n \in D
      PROVE  R(n) \subseteq S /\ next[n] \subseteq R(n) /\ IsFiniteSet(R(n)) /\ Cardinality(R(n)) \in Nat
  <2>1. R(n) \subseteq D /\ next[n] \subseteq R(n)
    BY <1>1, Reached
  <2>2. R(n) \subseteq S
    <3>1. Closed(next, S \cap D)
      BY DEF Closed
    <3> QED BY <3>1, <1>1, ReachedLeast
  <2>3. IsFiniteSet(R(n))
    <3> HIDE DEF R
    <3> QED BY <2>1, <1>1, FS_Subset
  <2> QED BY <2>1, <2>2, <2>3, FS_CardinalityType
<1>3. f \in [S -> Nat]
  <2> HIDE DEF R
  <2> QED BY <1>2
<1>4. PICK n \in S : \A m \in S : f[n] <= f[m]
  <2> HIDE DEF f
  <2> QED BY <1>3, Smallest
<1>5. ASSUME NEW m \in S, m \in R(n) PROVE R(m) = R(n)
  <2>1. R(m) \subseteq R(n)
    BY <1>1, <1>5, ReachedOn
  <2>2. Cardinality(R(n)) <= Cardinality(R(m))
    <3> HIDE DEF R
    <3> QED BY <1>4
  <2> HIDE DEF R, f
  <2>3. Cardinality(R(m)) <= Cardinality(R(n))
    BY <2>1, <1>2, FS_Subset
  <2>4. Cardinality(R(m)) = Cardinality(R(n))
    BY <2>2, <2>3, <1>2
  <2> QED BY <2>1, <2>4, <1>2, FS_Subset
<1>6. PICK c \in next[n] : c \in S
  BY DEF Endless
<1>7. c \in R(n)
  BY <1>2, <1>6
<1>8. R(c) = R(n)
  <2> HIDE DEF R
  <2> QED BY <1>5, <1>6, <1>7
<1>9. ASSUME NEW m \in R(c) PROVE c \in R(m)
  <2> HIDE DEF R
  <2>1. m \in S /\ m \in R(n)
    BY <1>8, <1>2
  <2>2. R(m) = R(n)
    BY <2>1, <1>5
  <2> QED BY <2>2, <1>7
<1> QED BY <1>6, <1>9

\* Of such a set of abbreviations one is found to be cyclic.
LEMMA RectypeFound ==
  ASSUME NEW D, NEW uses, RelationOn(uses, D), NEW abbr, RelationOn(abbr, D),
         \A n \in D : abbr[n] \subseteq uses[n],
         NEW S \in SUBSET D, S # {}, Endless(abbr, S)
  PROVE  \E n \in S : is_rectype(abbr, tsort(uses), n)
<1> DEFINE within == [n \in D |-> abbr[n] \cap S]
           order == tsort(uses)
<1>1. IsFiniteSet(D) /\ \A n \in D : within[n] \in SUBSET D /\ uses[n] \in SUBSET D
  BY DEF RelationOn
<1>2. RelationOn(within, D) /\ Endless(within, S) /\ \A n \in D : within[n] \subseteq S
  BY <1>1 DEF RelationOn, Endless
<1>3. PICK c \in S : \A m \in Reach(within, within[c]) : c \in Reach(within, within[m])
  <2> HIDE DEF within
  <2> QED BY <1>2, Cycle
<1> DEFINE C == Reach(within, within[c])
           G == Group(order, c)
           next == [m \in G |-> abbr[m] \cap G]
           R == Reach(next, next[c])
<1>4. \A n \in D : within[n] \subseteq abbr[n] /\ within[n] \subseteq uses[n]
  OBVIOUS
<1>5. \A n \in D : order[n] = Reach(uses, uses[n])
  <2>1. DOMAIN uses = D
    BY DEF RelationOn
  <2> QED BY <2>1 DEF tsort
<1> HIDE DEF within, order
<1>6. C \subseteq D /\ within[c] \subseteq C /\ Closed(within, C) /\ c \in D
  BY <1>1, <1>2, Reached
<1>7. ASSUME NEW n \in D PROVE Reach(within, within[n]) \subseteq order[n] /\ order[n] \subseteq D
  <2>1. Closed(uses, order[n]) /\ uses[n] \subseteq order[n] /\ order[n] \subseteq D
    BY <1>5, <1>1, Reached
  <2>2. within[n] \subseteq order[n] /\ order[n] \cap D = order[n]
    BY <2>1, <1>4
  <2>3. Closed(within, order[n] \cap D)
    BY <2>1, <2>2, <1>4 DEF Closed
  <2> QED BY <2>1, <2>2, <2>3, <1>1, <1>2, ReachedLeast
<1>8. C \subseteq G
  <2> SUFFICES ASSUME NEW m \in C PROVE m \in G
    OBVIOUS
  <2>1. m \in D /\ m \in order[c] /\ c \in Reach(within, within[m])
    BY <1>3, <1>6, <1>7
  <2>2. c \in order[m]
    BY <2>1, <1>7
  <2> QED BY <2>1, <2>2 DEF Group
<1>9. G \subseteq D /\ c \in G
  BY <1>6, <1>7 DEF Group
<1> HIDE DEF G
<1>10. RelationOn(next, G)
  BY <1>1, <1>9, FS_Subset DEF RelationOn
<1>11. next[c] \in SUBSET G /\ next[c] = abbr[c] \cap G
  BY <1>9
<1>12. R \subseteq G /\ next[c] \subseteq R /\ Closed(next, R)
  <2> HIDE DEF next
  <2> QED BY <1>10, <1>11, Reached
<1>13. C \subseteq R
  <2> DEFINE T == R \cap C
  <2>1. within[c] \subseteq T
    BY <1>4, <1>6, <1>8, <1>11, <1>12
  <2>2a. T \cap D = T
    BY <1>6
  <2>2. Closed(within, T \cap D)
    <3> SUFFICES ASSUME NEW n \in T, NEW m \in within[n] PROVE m \in T
      BY <2>2a DEF Closed
    <3> HIDE DEF C, R
    <3>1. n \in D /\ n \in G /\ n \in R /\ n \in C
      BY <1>6, <1>8
    <3>2. m \in C /\ m \in abbr[n]
      BY <3>1, <1>4, <1>6 DEF Closed
    <3>3. m \in next[n]
      BY <3>1, <3>2, <1>8
    <3>4. m \in R
      <4> HIDE DEF next
      <4> QED BY <3>1, <3>3, <1>12 DEF Closed
    <3> QED BY <3>2, <3>4
  <2>3. C \subseteq T
    <3>1. within[c] \in SUBSET D
      BY <1>6
    <3> HIDE DEF T, R
    <3> QED BY <2>1, <2>2, <3>1, <1>2, ReachedLeast
  <2> QED BY <2>3
<1>14. c \in C
  <2>1. PICK m \in within[c] : m \in S
    BY <1>2 DEF Endless
  <2>2. m \in C /\ m \in D
    BY <2>1, <1>6
  <2>3. c \in Reach(within, within[m]) /\ Reach(within, within[m]) \subseteq C
    <3>1. within[c] \in SUBSET D
      BY <1>6
    <3> QED BY <2>2, <3>1, <1>2, <1>3, ReachedOn
  <2> QED BY <2>3
<1>15. c \in R
  BY <1>13, <1>14
<1>16. is_rectype(abbr, order, c)
  BY <1>15 DEF is_rectype, G
<1> QED BY <1>16 DEF order

\* The abbreviations that are left when a rule that is found to be cyclic
\* abbreviates nothing any more.
LEMMA RectypesBreak ==
  ASSUME NEW D, NEW uses, RelationOn(uses, D), NEW abbr, RelationOn(abbr, D),
         \A n \in D : abbr[n] \subseteq uses[n],
         NEW left, DOMAIN left = D,
         \A n \in D : left[n] \subseteq IF is_rectype(abbr, tsort(uses), n) THEN {} ELSE abbr[n]
  PROVE  Acyclic(left)
<1> SUFFICES ASSUME NEW S \in SUBSET D, Endless(left, S), S # {} PROVE FALSE
  BY DEF Acyclic
<1>1. \A n \in S : ~ is_rectype(abbr, tsort(uses), n) /\ left[n] \subseteq abbr[n]
  BY DEF Endless
<1>2. Endless(abbr, S)
  BY <1>1 DEF Endless
<1> QED BY <1>1, <1>2, RectypeFound

-----------------------------------------------------------------------------
(* Positions *)

Position == Seq(Nat)

LEMMA PrefixIs ==
  ASSUME NEW p \in Position, NEW q \in Position
  PROVE  /\ IsPrefix(p, q) <=> Len(p) <= Len(q) /\ \A i \in 1 .. Len(p) : p[i] = q[i]
         /\ IsStrictPrefix(p, q) <=> IsPrefix(p, q) /\ Len(p) < Len(q)
<1>1. /\ Len(p) \in Nat /\ Len(q) \in Nat
      /\ \A i \in 1 .. Len(p) : p[i] \in Nat
      /\ \A i \in 1 .. Len(q) : q[i] \in Nat
  BY LenProperties, ElementOfSeq DEF Position
<1> DEFINE A == SubSeq(p, 1, Len(p))
           B == SubSeq(q, 1, Len(p))
<1>2. A = p
  BY SubSeqFull DEF Position
<1>3. ASSUME Len(p) <= Len(q)
      PROVE  B \in Seq(Nat) /\ Len(B) = Len(p) /\ \A i \in 1 .. Len(p) : B[i] = q[i]
  <2>1. \A i \in 1 .. Len(p) : q[i] \in Nat
    BY <1>1, <1>3
  <2>2. /\ B \in Seq(Nat)
        /\ Len(B) = IF 1 <= Len(p) THEN Len(p) - 1 + 1 ELSE 0
        /\ \A i \in 1 .. Len(p) - 1 + 1 : B[i] = q[1 + i - 1]
    BY <1>1, <2>1, SubSeqProperties
  <2> HIDE DEF B
  <2>3. Len(B) = Len(p)
    BY <1>1, <2>2
  <2>4. ASSUME NEW i \in 1 .. Len(p) PROVE B[i] = q[i]
    <3>1. i \in 1 .. Len(p) - 1 + 1 /\ 1 + i - 1 = i
      BY <1>1
    <3> QED BY <3>1, <2>2
  <2> QED BY <2>2, <2>3, <2>4
<1>4. ASSUME Len(p) <= Len(q)
      PROVE  A = B <=> \A i \in 1 .. Len(p) : p[i] = q[i]
  <2>1. (\A i \in 1 .. Len(p) : p[i] = B[i]) => p = B
    <3> HIDE DEF B
    <3> QED BY <1>3, <1>4, SeqEqual DEF Position
  <2> HIDE DEF A, B
  <2> QED BY <2>1, <1>2, <1>3, <1>4
<1>5. IsPrefix(p, q) <=> Len(p) <= Len(q) /\ A = B
  BY DEF IsPrefix
<1>6. IsPrefix(p, q) <=> Len(p) <= Len(q) /\ \A i \in 1 .. Len(p) : p[i] = q[i]
  <2> HIDE DEF A, B
  <2> QED BY <1>4, <1>5
<1>7. IsPrefix(p, q) /\ Len(p) = Len(q) => p = q
  BY <1>6, SeqEqual DEF Position
<1>8. IsStrictPrefix(p, q) <=> IsPrefix(p, q) /\ p # q
  BY DEF IsStrictPrefix
<1>9. IsPrefix(p, q) => (p # q <=> Len(p) < Len(q))
  BY <1>1, <1>6, <1>7
<1> QED BY <1>6, <1>8, <1>9

LEMMA PrefixTrans ==
  ASSUME NEW p \in Position, NEW q \in Position, NEW r \in Position,
         IsStrictPrefix(p, q), IsPrefix(q, r)
  PROVE  IsStrictPrefix(p, r)
<1>1. Len(p) \in Nat /\ Len(q) \in Nat /\ Len(r) \in Nat
  BY LenProperties DEF Position
<1>2. Len(p) < Len(q) /\ \A i \in 1 .. Len(p) : p[i] = q[i]
  BY PrefixIs
<1>3. Len(q) <= Len(r) /\ \A i \in 1 .. Len(q) : q[i] = r[i]
  BY PrefixIs
<1>4. Len(p) < Len(r) /\ Len(p) <= Len(r)
  BY <1>1, <1>2, <1>3
<1>5. ASSUME NEW i \in 1 .. Len(p) PROVE p[i] = r[i]
  <2>1. i \in 1 .. Len(q)
    BY <1>1, <1>2
  <2> QED BY <2>1, <1>2, <1>3
<1> QED BY <1>4, <1>5, PrefixIs

LEMMA StrictIsPrefix ==
  ASSUME NEW p, NEW q, IsStrictPrefix(p, q)
  PROVE  IsPrefix(p, q)
BY DEF IsStrictPrefix

LEMMA EmptyIsPrefix ==
  ASSUME NEW p \in Position
  PROVE  /\ <<>> \in Position
         /\ IsPrefix(<<>>, p)
         /\ p # <<>> => IsStrictPrefix(<<>>, p)
         /\ ~ IsStrictPrefix(p, <<>>)
<1>1. <<>> \in Position /\ Len(<<>>) = 0 /\ (p # <<>> => Len(p) \in Nat \ {0}) /\ Len(p) \in Nat
  BY EmptySeq, LenProperties DEF Position
<1>2. Len(<<>>) <= Len(p) /\ \A i \in 1 .. Len(<<>>) : <<>>[i] = p[i]
  BY <1>1
<1>3. IsPrefix(<<>>, p)
  BY <1>1, <1>2, PrefixIs
<1>4. p # <<>> => Len(<<>>) < Len(p)
  BY <1>1
<1>5. ~ (Len(p) < Len(<<>>))
  BY <1>1
<1> QED BY <1>1, <1>3, <1>4, <1>5, PrefixIs

\* Below a position: the rest of a longer one.
LEMMA PrefixRest ==
  ASSUME NEW p \in Position, NEW r \in Position, IsPrefix(p, r)
  PROVE  /\ SubSeq(r, Len(p) + 1, Len(r)) \in Position
         /\ r = p \o SubSeq(r, Len(p) + 1, Len(r))
<1> DEFINE t == SubSeq(r, Len(p) + 1, Len(r))
           m == Len(p)
           n == Len(r)
<1>1. m \in Nat /\ n \in Nat /\ m <= n /\ \A i \in 1 .. n : r[i] \in Nat
  BY PrefixIs, LenProperties, ElementOfSeq DEF Position
<1>2. \A i \in 1 .. m : p[i] = r[i]
  BY PrefixIs
<1>3. /\ t \in Seq(Nat)
      /\ Len(t) = IF m + 1 <= n THEN n - (m + 1) + 1 ELSE 0
      /\ \A i \in 1 .. n - (m + 1) + 1 : t[i] = r[m + 1 + i - 1]
  <2>1. \A i \in m + 1 .. n : r[i] \in Nat
    BY <1>1
  <2>2. m + 1 \in Int /\ n \in Int
    BY <1>1
  <2> HIDE DEF m, n
  <2> QED BY <2>1, <2>2, SubSeqProperties DEF m, n
<1> HIDE DEF t
<1>4. Len(t) = n - m
  BY <1>1, <1>3
<1>5. /\ p \o t \in Seq(Nat) /\ Len(p \o t) = m + Len(t)
      /\ \A i \in 1 .. m + Len(t) : (p \o t)[i] = IF i <= m THEN p[i] ELSE t[i - m]
  BY <1>3, ConcatProperties DEF Position
<1> HIDE DEF m, n
<1>6. Len(p \o t) = n
  BY <1>1, <1>4, <1>5
<1>7. ASSUME NEW i \in 1 .. n PROVE r[i] = (p \o t)[i]
  <2>1. i \in 1 .. m + Len(t)
    BY <1>1, <1>4
  <2>2. CASE i <= m
    <3>1. i \in 1 .. m
      BY <1>1, <2>2
    <3> QED BY <3>1, <2>1, <2>2, <1>2, <1>5
  <2>3. CASE ~ (i <= m)
    <3>1. i - m \in 1 .. n - (m + 1) + 1 /\ m + 1 + (i - m) - 1 = i
      BY <1>1, <2>3
    <3>2. t[i - m] = r[i]
      BY <3>1, <1>3
    <3> QED BY <3>2, <2>1, <2>3, <1>5
  <2> QED BY <2>2, <2>3
<1>8. r = p \o t
  BY <1>5, <1>6, <1>7, SeqEqual DEF Position, n
<1> QED BY <1>3, <1>8 DEF t, m, n, Position

LEMMA ConcatRest ==
  ASSUME NEW p \in Position, NEW q \in Position
  PROVE  /\ p \o q \in Position
         /\ IsPrefix(p, p \o q)
         /\ SubSeq(p \o q, Len(p) + 1, Len(p \o q)) = q
         /\ p # <<>> => p \o q # <<>>
<1> DEFINE r == p \o q
           m == Len(p)
<1>1. m \in Nat /\ Len(q) \in Nat
  BY LenProperties DEF Position
<1>2. /\ r \in Seq(Nat) /\ Len(r) = m + Len(q)
      /\ \A i \in 1 .. m + Len(q) : r[i] = IF i <= m THEN p[i] ELSE q[i - m]
  BY ConcatProperties DEF Position
<1> HIDE DEF r
<1>3. IsPrefix(p, r)
  <2>1. m <= Len(r)
    BY <1>1, <1>2
  <2>2. ASSUME NEW i \in 1 .. m PROVE p[i] = r[i]
    <3>1. i \in 1 .. m + Len(q) /\ i <= m
      BY <1>1
    <3> QED BY <3>1, <1>2
  <2> QED BY <2>1, <2>2, <1>2, PrefixIs DEF Position
<1>4. SubSeq(r, m + 1, Len(r)) = q
  <2>1. SubSeq(r, m + 1, Len(r)) \in Position /\ r = p \o SubSeq(r, m + 1, Len(r))
    BY <1>2, <1>3, PrefixRest DEF Position
  <2>2. p \o SubSeq(r, m + 1, Len(r)) = p \o q
    BY <2>1 DEF r
  <2> QED BY <2>1, <2>2, ConcatSimplifications DEF Position
<1>5. p # <<>> => r # <<>>
  BY ConcatEqualIffEmpty DEF r, Position
<1> QED BY <1>2, <1>3, <1>4, <1>5 DEF r, Position

LEMMA ConcatPrefix ==
  ASSUME NEW p \in Position, NEW s \in Position, NEW q \in Position
  PROVE  IsStrictPrefix(p \o s, p \o q) <=> IsStrictPrefix(s, q)
<1> DEFINE a == p \o s
           b == p \o q
           m == Len(p)
<1>1. m \in Nat /\ Len(q) \in Nat /\ Len(s) \in Nat
  BY LenProperties DEF Position
<1>2. /\ a \in Seq(Nat) /\ Len(a) = m + Len(s)
      /\ \A i \in 1 .. m + Len(s) : a[i] = IF i <= m THEN p[i] ELSE s[i - m]
  BY ConcatProperties DEF Position
<1>3. /\ b \in Seq(Nat) /\ Len(b) = m + Len(q)
      /\ \A i \in 1 .. m + Len(q) : b[i] = IF i <= m THEN p[i] ELSE q[i - m]
  BY ConcatProperties DEF Position
<1> HIDE DEF a, b, m
<1>4. Len(a) < Len(b) <=> Len(s) < Len(q)
  BY <1>1, <1>2, <1>3
<1>5. ASSUME Len(s) < Len(q), \A i \in 1 .. Len(a) : a[i] = b[i], NEW i \in 1 .. Len(s)
      PROVE  s[i] = q[i]
  <2>1. i + m \in 1 .. Len(a) /\ i + m \in 1 .. m + Len(s) /\ i + m \in 1 .. m + Len(q)
        /\ ~ (i + m <= m) /\ (i + m) - m = i
    BY <1>1, <1>2, <1>5
  <2>2. a[i + m] = s[i] /\ b[i + m] = q[i]
    BY <2>1, <1>2, <1>3
  <2> QED BY <2>1, <2>2, <1>5
<1>6. ASSUME Len(s) < Len(q), \A i \in 1 .. Len(s) : s[i] = q[i], NEW i \in 1 .. Len(a)
      PROVE  a[i] = b[i]
  <2>1. i \in 1 .. m + Len(s) /\ i \in 1 .. m + Len(q)
    BY <1>1, <1>2, <1>6
  <2>2. CASE i <= m
    BY <2>1, <2>2, <1>2, <1>3
  <2>3. CASE ~ (i <= m)
    <3>1. i - m \in 1 .. Len(s)
      BY <1>1, <2>1, <2>3
    <3> QED BY <3>1, <2>1, <2>3, <1>2, <1>3, <1>6
  <2> QED BY <2>2, <2>3
<1>7. Len(s) < Len(q) => ((\A i \in 1 .. Len(a) : a[i] = b[i]) <=> (\A i \in 1 .. Len(s) : s[i] = q[i]))
  BY <1>5, <1>6
<1>8. IsStrictPrefix(a, b) <=> Len(a) < Len(b) /\ \A i \in 1 .. Len(a) : a[i] = b[i]
  <2>1. Len(a) < Len(b) => Len(a) <= Len(b)
    BY <1>1, <1>2, <1>3
  <2>2. a \in Position /\ b \in Position
    BY <1>2, <1>3 DEF Position
  <2> QED BY <2>1, <2>2, PrefixIs
<1>9. IsStrictPrefix(s, q) <=> Len(s) < Len(q) /\ \A i \in 1 .. Len(s) : s[i] = q[i]
  <2>1. Len(s) < Len(q) => Len(s) <= Len(q)
    BY <1>1
  <2> QED BY <2>1, PrefixIs
<1> QED BY <1>4, <1>7, <1>8, <1>9 DEF a, b

\* What is above a position below p is above p, or below p itself.
LEMMA AboveConcat ==
  ASSUME NEW p \in Position, NEW q \in Position, NEW s \in Position, IsStrictPrefix(s, p \o q)
  PROVE  IsStrictPrefix(s, p) \/ \E t \in Position : s = p \o t /\ IsStrictPrefix(t, q)
<1> DEFINE r == p \o q
           m == Len(p)
<1>1. m \in Nat /\ Len(q) \in Nat /\ Len(s) \in Nat
  BY LenProperties DEF Position
<1>2. /\ r \in Position /\ Len(r) = m + Len(q)
      /\ \A i \in 1 .. m + Len(q) : r[i] = IF i <= m THEN p[i] ELSE q[i - m]
  BY ConcatProperties DEF Position
<1>3. Len(s) < Len(r) /\ \A i \in 1 .. Len(s) : s[i] = r[i]
  <2> HIDE DEF r
  <2>1. IsStrictPrefix(s, r)
    BY DEF r
  <2> QED BY <2>1, <1>2, PrefixIs
<1> HIDE DEF r, m
<1>4. CASE Len(s) < m
  <2>1. Len(s) <= m
    BY <1>1, <1>4
  <2>2. ASSUME NEW i \in 1 .. Len(s) PROVE s[i] = p[i]
    <3>1. i \in 1 .. m + Len(q) /\ i <= m
      BY <1>1, <1>4
    <3> QED BY <3>1, <1>2, <1>3
  <2> QED BY <2>1, <2>2, <1>4, PrefixIs DEF m
<1>5. CASE ~ (Len(s) < m)
  <2>1. m <= Len(s)
    BY <1>1, <1>5
  <2>2. ASSUME NEW i \in 1 .. m PROVE p[i] = s[i]
    <3>1. i \in 1 .. m + Len(q) /\ i <= m /\ i \in 1 .. Len(s)
      BY <1>1, <2>1
    <3> QED BY <3>1, <1>2, <1>3
  <2>3. IsPrefix(p, s)
    BY <2>1, <2>2, PrefixIs DEF m
  <2>4. PICK t \in Position : s = p \o t
    BY <2>3, PrefixRest
  <2>5. IsStrictPrefix(t, q)
    BY <2>4, ConcatPrefix
  <2> QED BY <2>4, <2>5
<1> QED BY <1>4, <1>5

-----------------------------------------------------------------------------
(* Bodies *)

LEMMA SubIs ==
  ASSUME NEW x, DOMAIN x \subseteq Position, NEW p \in Position
  PROVE  /\ Sub(x, p) = [q \in {q \in Position : p \o q \in DOMAIN x} |-> x[p \o q]]
         /\ DOMAIN Sub(x, p) = {q \in Position : p \o q \in DOMAIN x}
         /\ \A q \in DOMAIN Sub(x, p) : Sub(x, p)[q] = x[p \o q]
<1> DEFINE under == {r \in DOMAIN x : IsPrefix(p, r)}
           D == {SubSeq(r, Len(p) + 1, Len(r)) : r \in under}
           E == {q \in Position : p \o q \in DOMAIN x}
<1>1. D = E
  <2>1. ASSUME NEW r \in under PROVE SubSeq(r, Len(p) + 1, Len(r)) \in E
    <3>1. r \in Position /\ IsPrefix(p, r)
      OBVIOUS
    <3> DEFINE t == SubSeq(r, Len(p) + 1, Len(r))
    <3>2. t \in Position /\ r = p \o t
      BY <3>1, PrefixRest
    <3> HIDE DEF t
    <3>3. t \in E
      BY <3>2
    <3> QED BY <3>3 DEF t
  <2>2. ASSUME NEW q \in E PROVE q \in D
    <3>1. q \in Position /\ p \o q \in DOMAIN x
      OBVIOUS
    <3>2. IsPrefix(p, p \o q) /\ SubSeq(p \o q, Len(p) + 1, Len(p \o q)) = q
      BY <3>1, ConcatRest
    <3> DEFINE r == p \o q
    <3>3. r \in under /\ SubSeq(r, Len(p) + 1, Len(r)) = q
      BY <3>1, <3>2
    <3> HIDE DEF r
    <3> QED BY <3>3
  <2> QED BY <2>1, <2>2
<1>2. Sub(x, p) = [q \in D |-> x[p \o q]]
  BY DEF Sub
<1> HIDE DEF D, E
<1>3. Sub(x, p) = [q \in E |-> x[p \o q]]
  BY <1>1, <1>2
<1>4. DOMAIN Sub(x, p) = E /\ \A q \in E : Sub(x, p)[q] = x[p \o q]
  BY <1>3
<1> QED BY <1>3, <1>4 DEF E

\* A body found in another one is a body, and a smaller one if it is not all
\* of it.
LEMMA SubBody ==
  ASSUME NEW x, IsBody(x), NEW p \in DOMAIN x
  PROVE  IsBody(Sub(x, p)) /\ (p # <<>> => Cardinality(DOMAIN Sub(x, p)) < Cardinality(DOMAIN x))
<1> DEFINE y == Sub(x, p)
           f == [q \in DOMAIN y |-> p \o q]
<1>1. /\ IsFiniteSet(DOMAIN x) /\ DOMAIN x \subseteq Position /\ <<>> \in DOMAIN x
      /\ \A r \in DOMAIN x : x[r].op \in Operators
      /\ \A r, q \in DOMAIN x : IsStrictPrefix(r, q) => x[r].op \in Constructors \cup {"Alias"}
      /\ p \in Position
  BY DEF IsBody, Position
<1>2. DOMAIN y = {q \in Position : p \o q \in DOMAIN x} /\ \A q \in DOMAIN y : y[q] = x[p \o q]
  BY <1>1, SubIs
<1> HIDE DEF y
<1>3. f \in Injection(DOMAIN y, DOMAIN x)
  <2>1. f \in [DOMAIN y -> DOMAIN x]
    BY <1>2
  <2>2. ASSUME NEW q \in DOMAIN y, NEW r \in DOMAIN y, f[q] = f[r] PROVE q = r
    <3>1. p \o q = p \o r /\ q \in Position /\ r \in Position
      BY <2>2, <1>2
    <3> QED BY <3>1, <1>1, ConcatSimplifications DEF Position
  <2> HIDE DEF f
  <2> QED BY <2>1, <2>2 DEF Injection, IsInjective
<1>4. IsFiniteSet(DOMAIN y)
  BY <1>1, <1>3, FS_Injection
<1>5. <<>> \in DOMAIN y
  <2>1. p \o <<>> = p /\ <<>> \in Position
    BY <1>1, ConcatEmptySeq, EmptyIsPrefix DEF Position
  <2> QED BY <2>1, <1>2
<1>6. \A q \in DOMAIN y : y[q].op \in Operators
  BY <1>1, <1>2
<1>7. ASSUME NEW r \in DOMAIN y, NEW q \in DOMAIN y, IsStrictPrefix(r, q)
      PROVE  y[r].op \in Constructors \cup {"Alias"}
  <2>1. IsStrictPrefix(p \o r, p \o q)
    BY <1>1, <1>2, <1>7, ConcatPrefix
  <2>2. p \o r \in DOMAIN x /\ p \o q \in DOMAIN x /\ y[r] = x[p \o r]
    BY <1>2
  <2> QED BY <2>1, <2>2, <1>1
<1>8. IsBody(y)
  BY <1>2, <1>4, <1>5, <1>6, <1>7 DEF IsBody, Position
<1>9. ASSUME p # <<>> PROVE Cardinality(DOMAIN y) < Cardinality(DOMAIN x)
  <2> DEFINE A == DOMAIN x \ {<<>>}
  <2>1. \A q \in DOMAIN y : f[q] \in A
    <3> SUFFICES ASSUME NEW q \in DOMAIN y PROVE p \o q \in A
      OBVIOUS
    <3>1. q \in Position /\ p \o q \in DOMAIN x
      BY <1>2
    <3> QED BY <3>1, <1>1, <1>9, ConcatRest
  <2>2. f \in Injection(DOMAIN y, A)
    <3> HIDE DEF f, A
    <3> QED BY <2>1, <1>3 DEF Injection, IsInjective
  <2>3. IsFiniteSet(A) /\ Cardinality(A) = Cardinality(DOMAIN x) - 1
    BY <1>1, FS_RemoveElement
  <2> HIDE DEF A, f
  <2>4. Cardinality(DOMAIN y) <= Cardinality(A)
    BY <2>2, <2>3, FS_Injection
  <2>5. Cardinality(DOMAIN x) \in Nat /\ Cardinality(DOMAIN y) \in Nat
    BY <1>1, <1>4, FS_CardinalityType
  <2> QED BY <2>3, <2>4, <2>5
<1> QED BY <1>8, <1>9 DEF y

\* What a body uses it uses wherever it is found.
LEMMA SubUses ==
  ASSUME NEW x, IsBody(x), NEW stop, NEW p \in Open(x, stop), NEW ops
  PROVE  Uses(Sub(x, p), ops, stop) \subseteq Uses(x, ops, stop)
<1> DEFINE y == Sub(x, p)
<1>1. DOMAIN x \subseteq Position /\ p \in Position
      /\ \A s \in DOMAIN x : IsStrictPrefix(s, p) => x[s].op \notin stop
  BY DEF IsBody, Position, Open
<1>2. DOMAIN y = {q \in Position : p \o q \in DOMAIN x} /\ \A q \in DOMAIN y : y[q] = x[p \o q]
  BY <1>1, SubIs
<1> HIDE DEF y
<1>3. ASSUME NEW q \in Open(y, stop) PROVE p \o q \in Open(x, stop)
  <2>1. q \in DOMAIN y /\ q \in Position /\ p \o q \in DOMAIN x
        /\ \A t \in DOMAIN y : IsStrictPrefix(t, q) => y[t].op \notin stop
    BY <1>2 DEF Open
  <2>2. ASSUME NEW s \in DOMAIN x, IsStrictPrefix(s, p \o q) PROVE x[s].op \notin stop
    <3>1. CASE IsStrictPrefix(s, p)
      BY <3>1, <1>1
    <3>2. CASE \E t \in Position : s = p \o t /\ IsStrictPrefix(t, q)
      <4>1. PICK t \in Position : s = p \o t /\ IsStrictPrefix(t, q)
        BY <3>2
      <4>2. t \in DOMAIN y /\ y[t] = x[s]
        BY <4>1, <1>2
      <4> QED BY <4>1, <4>2, <2>1
    <3>3. s \in Position
      BY <1>1
    <3> QED BY <3>1, <3>2, <3>3, <2>1, <2>2, <1>1, AboveConcat
  <2> QED BY <2>1, <2>2 DEF Open
<1>4. ASSUME NEW q \in Open(y, stop), y[q].op \in ops PROVE y[q].name \in Uses(x, ops, stop)
  <2>1. q \in DOMAIN y /\ y[q] = x[p \o q]
    BY <1>2 DEF Open
  <2> DEFINE r == p \o q
  <2>2. r \in Open(x, stop) /\ y[q] = x[r]
    BY <1>3, <2>1
  <2> HIDE DEF r
  <2> QED BY <2>2, <1>4 DEF Uses
<1> QED BY <1>4 DEF Uses, y

LEMMA UsesMore ==
  ASSUME NEW x, NEW ops, NEW more, ops \subseteq more, NEW stop, NEW few, few \subseteq stop
  PROVE  Uses(x, ops, stop) \subseteq Uses(x, more, few)
BY DEF Uses, Open

LEMMA UsesIs ==
  ASSUME NEW x, NEW ops, NEW stop, NEW p \in Open(x, stop), x[p].op \in ops
  PROVE  x[p].name \in Uses(x, ops, stop)
BY DEF Uses

LEMMA RootOpen ==
  ASSUME NEW x, IsBody(x), NEW stop
  PROVE  <<>> \in Open(x, stop)
<1>1. DOMAIN x \subseteq Position /\ <<>> \in DOMAIN x
  BY DEF IsBody, Position
<1>2. \A q \in DOMAIN x : ~ IsStrictPrefix(q, <<>>)
  BY <1>1, EmptyIsPrefix
<1> QED BY <1>1, <1>2 DEF Open

-----------------------------------------------------------------------------
(* Rectypes *)

\* What is below an argument of the root.
LEMMA HeadBelow ==
  ASSUME NEW p \in Position, Len(p) = 1, NEW q \in Position
  PROVE  p # <<>> /\ <<Head(p \o q)>> = p /\ Tail(p \o q) = q
<1> DEFINE r == p \o q
<1>1. p \in Seq(Nat) /\ p # <<>>
  BY DEF Position
<1>2. r \in Seq(Nat) /\ r # <<>> /\ SubSeq(r, Len(p) + 1, Len(r)) = q
  BY <1>1, ConcatRest DEF Position
<1>3. r[1] = p[1]
  <2>1. Len(q) \in Nat
    BY LenProperties DEF Position
  <2>2. 1 \in 1 .. Len(p) + Len(q) /\ 1 <= Len(p)
    BY <2>1
  <2> QED BY <2>2, <1>1, ConcatProperties DEF Position
<1> HIDE DEF r
<1>4. <<Head(r)>> = p
  <2>1. Head(r) = p[1]
    BY <1>2, <1>3
  <2>2. <<p[1]>> = p
    BY <1>1
  <2> QED BY <2>1, <2>2
<1>5. Tail(r) = q
  <2>1. Tail(r) = SubSeq(r, 2, Len(r))
    BY <1>2, TailIsSubSeq
  <2> QED BY <2>1, <1>2
<1> QED BY <1>1, <1>4, <1>5 DEF r

One == <<1>>

LEMMA OneBelow ==
  ASSUME NEW q \in Position
  PROVE  /\ One \in Position /\ One \o q \in Position /\ One \o q # <<>>
         /\ Head(One \o q) = 1 /\ Tail(One \o q) = q
<1>1. One \in Position /\ Len(One) = 1 /\ One # <<>>
  BY DEF One, Position
<1>2. One \o q \in Position /\ One \o q # <<>>
  BY <1>1, ConcatRest
<1>3. <<Head(One \o q)>> = One /\ Tail(One \o q) = q
  BY <1>1, HeadBelow
<1>4. Head(One \o q) = 1
  BY <1>3 DEF One
<1> QED BY <1>1, <1>2, <1>3, <1>4

LEMMA RectypeIs ==
  ASSUME NEW x, IsBody(x)
  PROVE  LET y == Rectype(x)
         IN  /\ DOMAIN y = {<<>>} \cup {One \o q : q \in DOMAIN x}
             /\ y[<<>>].op = "Choice"
             /\ \A q \in DOMAIN x : y[One \o q] = x[q]
<1> DEFINE node == Node("Choice", "", <<Symbol("Rectype")>>)
           args == <<x>>
           under == UNION {{<<i>> \o q : q \in DOMAIN args[i]} : i \in DOMAIN args}
           y == Rectype(x)
<1>1. DOMAIN args = {1} /\ args[1] = x
  OBVIOUS
<1> HIDE DEF args
<1>2. under = {One \o q : q \in DOMAIN x}
  BY <1>1 DEF One
<1>3. y = [p \in {<<>>} \cup under |-> IF p = <<>> THEN node ELSE args[Head(p)][Tail(p)]]
  BY DEF Rectype, Choice, Tree, args
<1> HIDE DEF y, under, node
<1>4. DOMAIN y = {<<>>} \cup {One \o q : q \in DOMAIN x}
  BY <1>2, <1>3
<1>5. y[<<>>] = node
  BY <1>3
<1>6. ASSUME NEW q \in DOMAIN x PROVE y[One \o q] = x[q]
  <2> DEFINE r == One \o q
  <2>1. q \in Position
    BY DEF IsBody, Position
  <2>2. r # <<>> /\ Head(r) = 1 /\ Tail(r) = q
    BY <2>1, OneBelow
  <2>3. r \in {<<>>} \cup under
    BY <1>2
  <2> HIDE DEF r
  <2>4. y[r] = args[Head(r)][Tail(r)]
    BY <2>2, <2>3, <1>3
  <2>5. y[r] = x[q]
    BY <2>2, <2>4, <1>1
  <2> QED BY <2>5 DEF r
<1>7. node.op = "Choice"
  BY DEF node, Node
<1> QED BY <1>4, <1>5, <1>6, <1>7 DEF y

\* A variant added to a body changes nothing of what the rule depends on, and
\* the rule is no abbreviation any more.
LEMMA RectypeBody ==
  ASSUME NEW x, IsBody(x)
  PROVE  /\ IsBody(Rectype(x))
         /\ Uses(Rectype(x), {"Symbol", "Alias"}, {}) \subseteq Uses(x, {"Symbol", "Alias"}, {})
         /\ Deps(Rectype(x)) \subseteq Deps(x)
         /\ Unguarded(Rectype(x)) = {}
         /\ Root(Rectype(x)).op = "Choice"
<1> DEFINE y == Rectype(x)
           B == {One \o q : q \in DOMAIN x}
<1>1. DOMAIN y = {<<>>} \cup B /\ y[<<>>].op = "Choice" /\ \A q \in DOMAIN x : y[One \o q] = x[q]
  BY RectypeIs
<1>2. /\ IsFiniteSet(DOMAIN x) /\ DOMAIN x \subseteq Position /\ <<>> \in DOMAIN x
      /\ \A r \in DOMAIN x : x[r].op \in Operators
      /\ \A r, q \in DOMAIN x : IsStrictPrefix(r, q) => x[r].op \in Constructors \cup {"Alias"}
  BY DEF IsBody, Position
<1> HIDE DEF y
<1>3. ASSUME NEW r \in DOMAIN y PROVE r = <<>> \/ \E q \in DOMAIN x : r = One \o q /\ y[r] = x[q]
  BY <1>1
<1>4. DOMAIN y \subseteq Position
  <2>1. \A q \in DOMAIN x : One \o q \in Position
    BY <1>2, OneBelow
  <2>2. <<>> \in Position
    BY <1>2
  <2> QED BY <2>1, <2>2, <1>1
<1>5. IsBody(y)
  <2>1. IsFiniteSet(DOMAIN y)
    <3>1. IsFiniteSet(B)
      <4> DEFINE f == [q \in DOMAIN x |-> One \o q]
      <4>1. f \in Surjection(DOMAIN x, B)
        BY DEF Surjection
      <4> HIDE DEF f, B
      <4> QED BY <4>1, <1>2, FS_Surjection
    <3>2. IsFiniteSet({<<>>})
      BY FS_Singleton
    <3> HIDE DEF B
    <3> QED BY <3>1, <3>2, <1>1, FS_Union
  <2>2. \A r \in DOMAIN y : y[r].op \in Operators
    <3>1. "Choice" \in Operators
      BY DEF Operators, Constructors
    <3> QED BY <3>1, <1>1, <1>2, <1>3
  <2>3. ASSUME NEW r \in DOMAIN y, NEW s \in DOMAIN y, IsStrictPrefix(r, s)
        PROVE  y[r].op \in Constructors \cup {"Alias"}
    <3>1. CASE r = <<>>
      BY <3>1, <1>1 DEF Constructors
    <3>2. CASE r # <<>>
      <4>1. PICK q \in DOMAIN x : r = One \o q /\ y[r] = x[q]
        BY <3>2, <1>3
      <4>2. s # <<>>
        BY <2>3, <1>4, EmptyIsPrefix
      <4>3. PICK t \in DOMAIN x : s = One \o t
        BY <4>2, <1>3
      <4>4. IsStrictPrefix(q, t)
        <5>1. One \in Position /\ q \in Position /\ t \in Position
          BY <1>2, OneBelow
        <5> QED BY <5>1, <4>1, <4>3, <2>3, ConcatPrefix
      <4> QED BY <4>1, <4>4, <1>2
    <3> QED BY <3>1, <3>2
  <2> QED BY <1>1, <1>4, <2>1, <2>2, <2>3 DEF IsBody, Position
<1>6. ASSUME NEW stop, NEW r \in Open(y, stop), y[r].op \in {"Symbol", "Alias"}
      PROVE  "Choice" \notin stop /\ y[r].name \in Uses(x, {"Symbol", "Alias"}, stop)
  <2>1. r \in DOMAIN y /\ \A s \in DOMAIN y : IsStrictPrefix(s, r) => y[s].op \notin stop
    BY DEF Open
  <2>2. r # <<>>
    BY <1>1, <1>6
  <2>3. PICK q \in DOMAIN x : r = One \o q /\ y[r] = x[q]
    BY <2>1, <2>2, <1>3
  <2>4. "Choice" \notin stop
    <3>1. IsStrictPrefix(<<>>, r)
      BY <2>1, <2>2, <1>4, EmptyIsPrefix
    <3> QED BY <3>1, <2>1, <1>1
  <2>5. q \in Open(x, stop)
    <3> SUFFICES ASSUME NEW t \in DOMAIN x, IsStrictPrefix(t, q) PROVE x[t].op \notin stop
      BY DEF Open
    <3>1. One \in Position /\ q \in Position /\ t \in Position
      BY <1>2, OneBelow
    <3>2. IsStrictPrefix(One \o t, One \o q)
      BY <3>1, ConcatPrefix
    <3>3. One \o t \in DOMAIN y /\ y[One \o t] = x[t]
      BY <1>1
    <3> QED BY <3>2, <3>3, <2>1, <2>3
  <2> QED BY <2>3, <2>4, <2>5, <1>6, UsesIs
<1>7. ASSUME NEW stop PROVE Uses(y, {"Symbol", "Alias"}, stop) \subseteq Uses(x, {"Symbol", "Alias"}, stop)
  <2>1. \A r \in Open(y, stop) : y[r].op \in {"Symbol", "Alias"} => y[r].name \in Uses(x, {"Symbol", "Alias"}, stop)
    BY <1>6
  <2> QED BY <2>1 DEF Uses
<1>8. Unguarded(y) = {}
  <2>1. \A r \in Open(y, {"Alias", "Choice"}) : y[r].op \notin {"Symbol", "Alias"}
    BY <1>6
  <2> QED BY <2>1 DEF Unguarded, Uses
<1> QED BY <1>1, <1>5, <1>7, <1>8 DEF Deps, y, Root

-----------------------------------------------------------------------------
(* Deinline and Factorize *)

Ref == {"Symbol", "Alias"}

\* Where a node of a table is found in a body.
FoundIn(names, x) == {p \in Open(x, {"Alias"}) \ {<<>>} : Sub(x, p) \in DOMAIN names}

LEMMA ReplaceIs ==
  ASSUME NEW names, NEW x
  PROVE  LET y == replace_nodes(names, x)
             P == FoundIn(names, x)
         IN  /\ DOMAIN y = {p \in DOMAIN x : \A q \in P : ~ IsStrictPrefix(q, p)}
             /\ \A p \in DOMAIN y : y[p] = IF p \in P THEN Node("Symbol", names[Sub(x, p)], <<>>) ELSE x[p]
<1> DEFINE found(p) == {z \in DOMAIN names : SameNode(Sub(x, p), z)}
           replaced == {p \in Open(x, {"Alias"}) \ {<<>>} : found(p) # {}}
           kept     == {p \in DOMAIN x : \A q \in replaced : ~ IsStrictPrefix(q, p)}
           P == FoundIn(names, x)
           y == replace_nodes(names, x)
<1>1. \A p : found(p) = IF Sub(x, p) \in DOMAIN names THEN {Sub(x, p)} ELSE {}
  BY DEF SameNode
<1>2. y = [p \in kept |-> IF p \in replaced
                      THEN Root(Symbol(names[CHOOSE z \in found(p) : TRUE]))
                      ELSE x[p]]
  BY DEF replace_nodes
<1>3. replaced = P
  <2> HIDE DEF found
  <2>1. \A p : found(p) # {} <=> Sub(x, p) \in DOMAIN names
    BY <1>1
  <2> QED BY <2>1 DEF FoundIn
<1>4. ASSUME NEW p \in replaced
      PROVE  Root(Symbol(names[CHOOSE z \in found(p) : TRUE])) = Node("Symbol", names[Sub(x, p)], <<>>)
  <2>1. found(p) = {Sub(x, p)}
    <3> HIDE DEF found
    <3>1. found(p) # {}
      OBVIOUS
    <3> QED BY <3>1, <1>1
  <2>2. (CHOOSE z \in found(p) : TRUE) = Sub(x, p)
    BY <2>1
  <2> QED BY <2>2 DEF Root, Symbol, Leaf
<1> HIDE DEF y, found, replaced, P
<1>5. DOMAIN y = kept
  BY <1>2
<1>6. ASSUME NEW p \in DOMAIN y
      PROVE  y[p] = IF p \in P THEN Node("Symbol", names[Sub(x, p)], <<>>) ELSE x[p]
  BY <1>2, <1>3, <1>4, <1>5
<1> QED BY <1>3, <1>5, <1>6 DEF y, P

\* What the body was before, where its operators are not symbols put there.
LEMMA ReplaceKeeps ==
  ASSUME NEW names, NEW x, IsBody(x)
  PROVE  LET y == replace_nodes(names, x)
         IN  /\ DOMAIN y \subseteq DOMAIN x /\ <<>> \in DOMAIN y /\ y[<<>>] = x[<<>>]
             /\ \A stop : "Symbol" \notin stop => Open(y, stop) \subseteq Open(x, stop)
             /\ \A p, q \in DOMAIN y : IsStrictPrefix(p, q) => y[p] = x[p]
<1> DEFINE y == replace_nodes(names, x)
           P == FoundIn(names, x)
<1>1. /\ DOMAIN y = {p \in DOMAIN x : \A q \in P : ~ IsStrictPrefix(q, p)}
      /\ \A p \in DOMAIN y : y[p] = IF p \in P THEN Node("Symbol", names[Sub(x, p)], <<>>) ELSE x[p]
  BY ReplaceIs
<1>2. DOMAIN x \subseteq Position /\ <<>> \in DOMAIN x
  BY DEF IsBody, Position
<1>3. P \subseteq DOMAIN x /\ <<>> \notin P
  BY DEF FoundIn, Open
<1> HIDE DEF y, P
<1>4. <<>> \in DOMAIN y /\ y[<<>>] = x[<<>>]
  <2>1. \A q \in P : ~ IsStrictPrefix(q, <<>>)
    BY <1>2, <1>3, EmptyIsPrefix
  <2> QED BY <2>1, <1>1, <1>2, <1>3
<1>5. ASSUME NEW p \in DOMAIN x, NEW q \in DOMAIN y, IsStrictPrefix(p, q)
      PROVE  p \in DOMAIN y /\ y[p] = x[p]
  <2>1. p \notin P
    BY <1>1, <1>5
  <2>2. ASSUME NEW r \in P, IsStrictPrefix(r, p) PROVE FALSE
    <3>1. r \in Position /\ p \in Position /\ q \in Position
      BY <1>1, <1>2, <1>3
    <3>2. IsStrictPrefix(r, q)
      BY <3>1, <2>2, <1>5, PrefixTrans, StrictIsPrefix
    <3> QED BY <3>2, <1>1
  <2> QED BY <2>1, <2>2, <1>1
<1>6. ASSUME NEW stop, NEW p \in Open(y, stop) PROVE p \in Open(x, stop)
  <2>1. p \in DOMAIN y /\ \A q \in DOMAIN y : IsStrictPrefix(q, p) => y[q].op \notin stop
    BY DEF Open
  <2>2. ASSUME NEW q \in DOMAIN x, IsStrictPrefix(q, p) PROVE x[q].op \notin stop
    <3>1. q \in DOMAIN y /\ y[q] = x[q]
      BY <2>1, <2>2, <1>5
    <3> QED BY <3>1, <2>1, <2>2
  <2> QED BY <2>1, <2>2, <1>1 DEF Open
<1> QED BY <1>1, <1>4, <1>5, <1>6 DEF y

LEMMA ReplaceBody ==
  ASSUME NEW names, NEW x, IsBody(x)
  PROVE  IsBody(replace_nodes(names, x)) /\ Root(replace_nodes(names, x)) = Root(x)
<1> DEFINE y == replace_nodes(names, x)
           P == FoundIn(names, x)
<1>1. /\ DOMAIN y = {p \in DOMAIN x : \A q \in P : ~ IsStrictPrefix(q, p)}
      /\ \A p \in DOMAIN y : y[p] = IF p \in P THEN Node("Symbol", names[Sub(x, p)], <<>>) ELSE x[p]
  BY ReplaceIs
<1>2. /\ DOMAIN y \subseteq DOMAIN x /\ <<>> \in DOMAIN y /\ y[<<>>] = x[<<>>]
      /\ \A p, q \in DOMAIN y : IsStrictPrefix(p, q) => y[p] = x[p]
  BY ReplaceKeeps
<1>3. /\ IsFiniteSet(DOMAIN x) /\ DOMAIN x \subseteq Position /\ <<>> \in DOMAIN x
      /\ \A r \in DOMAIN x : x[r].op \in Operators
      /\ \A r, q \in DOMAIN x : IsStrictPrefix(r, q) => x[r].op \in Constructors \cup {"Alias"}
  BY DEF IsBody, Position
<1> HIDE DEF y, P
<1>4. IsFiniteSet(DOMAIN y)
  BY <1>2, <1>3, FS_Subset
<1>5. ASSUME NEW p \in DOMAIN y PROVE y[p].op \in Operators
  <2>1. CASE p \in P
    <3>1. y[p] = Node("Symbol", names[Sub(x, p)], <<>>)
      BY <2>1, <1>1
    <3>2. y[p].op = "Symbol"
      BY <3>1 DEF Node
    <3> QED BY <3>2 DEF Operators
  <2>2. CASE p \notin P
    BY <2>2, <1>1, <1>2, <1>3
  <2> QED BY <2>1, <2>2
<1>6. ASSUME NEW p \in DOMAIN y, NEW q \in DOMAIN y, IsStrictPrefix(p, q)
      PROVE  y[p].op \in Constructors \cup {"Alias"}
  BY <1>2, <1>3, <1>6
<1>7. IsBody(y)
  BY <1>2, <1>3, <1>4, <1>5, <1>6 DEF IsBody, Position
<1> QED BY <1>2, <1>7 DEF y, Root

\* A token stays what it is.
LEMMA ReplaceToken ==
  ASSUME NEW names, NEW n
  PROVE  replace_nodes(names, Token(n)) = Token(n)
<1> DEFINE x == Token(n)
           y == replace_nodes(names, x)
           P == FoundIn(names, x)
<1>1. DOMAIN x = {<<>>} /\ x = [p \in {<<>>} |-> x[p]]
  BY DEF Token, Leaf
<1>2. /\ DOMAIN y = {p \in DOMAIN x : \A q \in P : ~ IsStrictPrefix(q, p)}
      /\ \A p \in DOMAIN y : y[p] = IF p \in P THEN Node("Symbol", names[Sub(x, p)], <<>>) ELSE x[p]
  BY ReplaceIs
<1>3. P = {}
  BY <1>1 DEF FoundIn, Open
<1>4. y = [p \in DOMAIN y |-> y[p]]
  <2> DEFINE found(p) == {z \in DOMAIN names : SameNode(Sub(x, p), z)}
             replaced == {p \in Open(x, {"Alias"}) \ {<<>>} : found(p) # {}}
             kept     == {p \in DOMAIN x : \A q \in replaced : ~ IsStrictPrefix(q, p)}
             e(p)     == IF p \in replaced THEN Root(Symbol(names[CHOOSE z \in found(p) : TRUE])) ELSE x[p]
  <2>1. y = [p \in kept |-> e(p)]
    BY DEF replace_nodes
  <2> HIDE DEF y, kept, e
  <2> QED BY <2>1
<1> HIDE DEF y, x, P
<1>5. DOMAIN y = {<<>>} /\ y[<<>>] = x[<<>>]
  BY <1>1, <1>2, <1>3
<1>6. y = x
  BY <1>1, <1>4, <1>5
<1> QED BY <1>6 DEF y, x

\* A body that nodes have been replaced in uses what it used, or the name that
\* one of its nodes has in the table.
LEMMA ReplaceUses ==
  ASSUME NEW names, NEW x, IsBody(x), NEW stop, "Symbol" \notin stop,
         NEW m \in Uses(replace_nodes(names, x), Ref, stop)
  PROVE  \/ m \in Uses(x, Ref, stop)
         \/ \E p \in Open(x, stop) \ {<<>>} : Sub(x, p) \in DOMAIN names /\ m = names[Sub(x, p)]
<1> DEFINE y == replace_nodes(names, x)
           P == FoundIn(names, x)
<1>1. /\ \A p \in DOMAIN y : y[p] = IF p \in P THEN Node("Symbol", names[Sub(x, p)], <<>>) ELSE x[p]
  BY ReplaceIs
<1>2. Open(y, stop) \subseteq Open(x, stop)
  BY ReplaceKeeps
<1> HIDE DEF y
<1>3. PICK p \in Open(y, stop) : y[p].op \in Ref /\ m = y[p].name
  BY DEF Uses, y
<1>4. p \in DOMAIN y /\ p \in Open(x, stop)
  BY <1>2 DEF Open
<1>5. CASE p \in P
  <2>1. m = names[Sub(x, p)]
    BY <1>1, <1>3, <1>4, <1>5 DEF Node
  <2>2. p # <<>> /\ Sub(x, p) \in DOMAIN names
    BY <1>5 DEF FoundIn
  <2> QED BY <2>1, <2>2, <1>4
<1>6. CASE p \notin P
  <2>1. y[p] = x[p]
    BY <1>1, <1>4, <1>6
  <2> QED BY <2>1, <1>3, <1>4, UsesIs
<1> QED BY <1>5, <1>6

\* The rules with the new ones, and the names that bodies have in the table:
\* what factorize_rules makes of them.
Bodies(g) == {g[n] : n \in DOMAIN g}

Named(g, new, fresh, last) ==
  [x \in Bodies(g) \cup new |-> IF x \in Bodies(g) THEN Owner(g, last, x) ELSE fresh[x]]

Extended(g, new, fresh) ==
  [n \in DOMAIN g \cup {fresh[x] : x \in new} |->
     IF n \in DOMAIN g THEN g[n] ELSE CHOOSE x \in new : fresh[x] = n]

Factored(g, new, fresh, last) ==
  LET all == Extended(g, new, fresh)
  IN  [n \in DOMAIN all |-> replace_nodes(Named(g, new, fresh, last), all[n])]

\* New rules are nodes found in the rules there are.
NewRules(g, new, fresh) ==
  /\ IsFiniteSet(new)
  /\ \A x \in new : /\ \E n \in DOMAIN g : \E p \in DOMAIN g[n] : x = Sub(g[n], p)
                    /\ Root(x).op # "Token"
  /\ fresh \in Injection(new, NewNames)
  /\ DOMAIN g \cap NewNames = {}

LEMMA ExtendedIs ==
  ASSUME NEW g, NEW new, NEW fresh, NewRules(g, new, fresh)
  PROVE  LET E == Extended(g, new, fresh)
         IN  /\ DOMAIN E = DOMAIN g \cup {fresh[x] : x \in new}
             /\ \A n \in DOMAIN g : E[n] = g[n]
             /\ \A n \in DOMAIN E \ DOMAIN g : E[n] \in new
             /\ \A x \in new : E[fresh[x]] = x /\ fresh[x] \in DOMAIN E \ DOMAIN g
<1> DEFINE E == Extended(g, new, fresh)
           F == {fresh[x] : x \in new}
<1>1. E = [n \in DOMAIN g \cup F |-> IF n \in DOMAIN g THEN g[n] ELSE CHOOSE x \in new : fresh[x] = n]
  BY DEF Extended
<1>2. /\ fresh \in [new -> NewNames] /\ DOMAIN g \cap NewNames = {}
      /\ \A x, y \in new : fresh[x] = fresh[y] => x = y
  BY DEF NewRules, Injection, IsInjective
<1> HIDE DEF E
<1>3. ASSUME NEW n \in F PROVE (CHOOSE x \in new : fresh[x] = n) \in new /\ fresh[CHOOSE x \in new : fresh[x] = n] = n
  OBVIOUS
<1>4. ASSUME NEW x \in new PROVE E[fresh[x]] = x /\ fresh[x] \in F \ DOMAIN g
  <2>1. fresh[x] \in F /\ fresh[x] \notin DOMAIN g
    BY <1>2
  <2>2. (CHOOSE y \in new : fresh[y] = fresh[x]) = x
    BY <1>2
  <2> QED BY <2>1, <2>2, <1>1
<1>5. DOMAIN E = DOMAIN g \cup F /\ \A n \in DOMAIN g : E[n] = g[n]
  BY <1>1
<1>6. ASSUME NEW n \in DOMAIN E \ DOMAIN g PROVE E[n] \in new
  <2>1. n \in F /\ n \notin DOMAIN g /\ n \in DOMAIN g \cup F
    BY <1>5
  <2>2. E[n] = CHOOSE x \in new : fresh[x] = n
    BY <2>1, <1>1
  <2> QED BY <2>1, <2>2, <1>3
<1> QED BY <1>4, <1>5, <1>6 DEF E

LEMMA ExtendedBodies ==
  ASSUME NEW g, IsGrammar(g), NEW new, NEW fresh, NewRules(g, new, fresh), NEW n \in DOMAIN Extended(g, new, fresh)
  PROVE  LET x == Extended(g, new, fresh)[n]
         IN  /\ IsBody(x)
             /\ Uses(x, Ref, {}) \subseteq DOMAIN g
             /\ Root(x).op = "Token" => x = Token(n)
<1> DEFINE E == Extended(g, new, fresh)
<1>1. /\ \A k \in DOMAIN g : E[k] = g[k]
      /\ \A k \in DOMAIN E \ DOMAIN g : E[k] \in new
  BY ExtendedIs
<1>2. \A k \in DOMAIN g : /\ IsBody(g[k]) /\ Uses(g[k], Ref, {}) \subseteq DOMAIN g
                          /\ Root(g[k]).op = "Token" => g[k] = Token(k)
  BY DEF IsGrammar, Ref
<1> HIDE DEF E
<1>3. n \in DOMAIN E
  BY DEF E
<1>4. CASE n \in DOMAIN g
  BY <1>1, <1>2, <1>4 DEF E
<1>5. CASE n \notin DOMAIN g
  <2>1. E[n] \in new
    BY <1>1, <1>3, <1>5
  <2>2. Root(E[n]).op # "Token" /\ \E k \in DOMAIN g : \E p \in DOMAIN g[k] : E[n] = Sub(g[k], p)
    BY <2>1 DEF NewRules
  <2>3. PICK k \in DOMAIN g : \E p \in DOMAIN g[k] : E[n] = Sub(g[k], p)
    BY <2>2
  <2>4. PICK p \in DOMAIN g[k] : E[n] = Sub(g[k], p)
    BY <2>3
  <2>5. IsBody(E[n])
    BY <2>4, <1>2, SubBody
  <2>6. Uses(E[n], Ref, {}) \subseteq Uses(g[k], Ref, {})
    <3>1. p \in Open(g[k], {})
      BY DEF Open
    <3> QED BY <3>1, <2>4, <1>2, SubUses
  <2> QED BY <2>2, <2>5, <2>6, <1>2 DEF E
<1> QED BY <1>4, <1>5

\* The name of a body is the name of a rule that has it.
LEMMA NamedIs ==
  ASSUME NEW g, NEW new, NEW fresh, NewRules(g, new, fresh), NEW last \in DOMAIN g,
         NEW x \in DOMAIN Named(g, new, fresh, last)
  PROVE  LET m == Named(g, new, fresh, last)[x]
         IN  m \in DOMAIN Extended(g, new, fresh) /\ Extended(g, new, fresh)[m] = x
<1> DEFINE E == Extended(g, new, fresh)
           N == Named(g, new, fresh, last)
<1>1. /\ DOMAIN E = DOMAIN g \cup {fresh[y] : y \in new}
      /\ \A k \in DOMAIN g : E[k] = g[k]
      /\ \A y \in new : E[fresh[y]] = y /\ fresh[y] \in DOMAIN E
  <2>1. DOMAIN E = DOMAIN g \cup {fresh[y] : y \in new}
    BY DEF Extended
  <2>2. \A k \in DOMAIN g : E[k] = g[k]
    BY ExtendedIs
  <2>3. \A y \in new : E[fresh[y]] = y
    BY ExtendedIs
  <2> HIDE DEF E
  <2> QED BY <2>1, <2>2, <2>3
<1>2. x \in Bodies(g) \cup new /\ N[x] = IF x \in Bodies(g) THEN Owner(g, last, x) ELSE fresh[x]
  BY DEF Named
<1> HIDE DEF E, N
<1>3. CASE x \in Bodies(g)
  <2>1. Owner(g, last, x) \in DOMAIN g /\ g[Owner(g, last, x)] = x
    <3>1. CASE g[last] = x
      BY <3>1 DEF Owner
    <3>2. CASE g[last] # x
      <4>1. Owner(g, last, x) = CHOOSE n \in DOMAIN g : g[n] = x
        BY <3>2 DEF Owner
      <4>2. \E n \in DOMAIN g : g[n] = x
        BY <1>3 DEF Bodies
      <4> QED BY <4>1, <4>2
    <3> QED BY <3>1, <3>2
  <2>2. N[x] = Owner(g, last, x)
    BY <1>2, <1>3
  <2> QED BY <2>1, <2>2, <1>1 DEF E, N
<1>4. CASE x \notin Bodies(g)
  <2>1. N[x] = fresh[x] /\ x \in new
    BY <1>2, <1>4
  <2> QED BY <2>1, <1>1 DEF E, N
<1> QED BY <1>3, <1>4

\* The rules made are a grammar again.
LEMMA FactoredGrammar ==
  ASSUME NEW g, IsGrammar(g), NEW new, NEW fresh, NewRules(g, new, fresh), NEW last \in DOMAIN g
  PROVE  IsGrammar(Factored(g, new, fresh, last)) /\ DOMAIN g \subseteq DOMAIN Factored(g, new, fresh, last)
<1> DEFINE E == Extended(g, new, fresh)
           N == Named(g, new, fresh, last)
           G == Factored(g, new, fresh, last)
<1>1. DOMAIN E = DOMAIN g \cup {fresh[x] : x \in new}
  BY ExtendedIs
<1>2. \A n \in DOMAIN E : /\ IsBody(E[n]) /\ Uses(E[n], Ref, {}) \subseteq DOMAIN g
                          /\ Root(E[n]).op = "Token" => E[n] = Token(n)
  BY ExtendedBodies
<1>3. \A x \in DOMAIN N : N[x] \in DOMAIN E
  BY NamedIs
<1>4. DOMAIN G = DOMAIN E /\ \A n \in DOMAIN E : G[n] = replace_nodes(N, E[n])
  BY DEF Factored
<1> HIDE DEF E, N, G
<1>5. IsFiniteSet(DOMAIN G)
  <2> DEFINE F == {fresh[x] : x \in new}
  <2>1. IsFiniteSet(F)
    BY ImageFinite DEF NewRules
  <2>2. IsFiniteSet(DOMAIN g)
    BY DEF IsGrammar
  <2> HIDE DEF F
  <2>3. IsFiniteSet(DOMAIN g \cup F)
    BY <2>1, <2>2, FS_Union
  <2> QED BY <2>3, <1>1, <1>4 DEF F
<1>6. ASSUME NEW n \in DOMAIN G
      PROVE  /\ IsBody(G[n]) /\ Uses(G[n], Ref, {}) \subseteq DOMAIN G
             /\ Root(G[n]).op = "Token" => G[n] = Token(n)
  <2>1. n \in DOMAIN E /\ G[n] = replace_nodes(N, E[n]) /\ IsBody(E[n])
    BY <1>2, <1>4
  <2>2. IsBody(G[n]) /\ Root(G[n]) = Root(E[n])
    BY <2>1, ReplaceBody
  <2>3. ASSUME NEW m \in Uses(G[n], Ref, {}) PROVE m \in DOMAIN G
    <3>1. \/ m \in Uses(E[n], Ref, {})
          \/ \E p \in Open(E[n], {}) \ {<<>>} : Sub(E[n], p) \in DOMAIN N /\ m = N[Sub(E[n], p)]
      <4>1. m \in Uses(replace_nodes(N, E[n]), Ref, {})
        BY <2>1, <2>3
      <4> QED BY <4>1, <2>1, ReplaceUses
    <3> QED BY <3>1, <2>1, <1>1, <1>2, <1>3, <1>4
  <2>4. Root(G[n]).op = "Token" => G[n] = Token(n)
    <3> SUFFICES ASSUME Root(G[n]).op = "Token" PROVE G[n] = Token(n)
      OBVIOUS
    <3>1. E[n] = Token(n)
      BY <2>1, <2>2, <1>2
    <3> QED BY <3>1, <2>1, ReplaceToken
  <2> QED BY <2>2, <2>3, <2>4
<1>7. IsGrammar(G)
  BY <1>5, <1>6 DEF IsGrammar, Ref
<1> QED BY <1>1, <1>4, <1>7 DEF G


\* The types that the bodies of a grammar abbreviate.
Abbreviates(g) == [n \in DOMAIN g |-> Unguarded(g[n])]

NoCycles(g) == Acyclic(Abbreviates(g))

\* Of the rules in a cycle each one uses another one by its name, and not only
\* by what it is made of: that is smaller, and uses nothing more.
LEMMA FactoredNames ==
  ASSUME NEW g, IsGrammar(g), NEW new, NEW fresh, NewRules(g, new, fresh), NEW last \in DOMAIN g,
         NEW S \in SUBSET DOMAIN Factored(g, new, fresh, last), Endless(Abbreviates(Factored(g, new, fresh, last)), S),
         NEW n \in S
  PROVE  Unguarded(Extended(g, new, fresh)[n]) \cap S # {}
<1> DEFINE E == Extended(g, new, fresh)
           N == Named(g, new, fresh, last)
           G == Factored(g, new, fresh, last)
           T == {k \in S : Unguarded(E[k]) \cap S = {}}
           f == [k \in T |-> Cardinality(DOMAIN E[k])]
<1>1. DOMAIN G = DOMAIN E /\ \A k \in DOMAIN E : G[k] = replace_nodes(N, E[k])
  BY DEF Factored
<1>2. \A k \in DOMAIN E : IsBody(E[k])
  BY ExtendedBodies
<1>3. \A x \in DOMAIN N : N[x] \in DOMAIN E /\ E[N[x]] = x
  BY NamedIs
<1>4. \A k \in S : k \in DOMAIN E /\ Unguarded(G[k]) \cap S # {}
  BY <1>1 DEF Endless, Abbreviates
<1> HIDE DEF E, N, G
<1>5. ASSUME T # {} PROVE FALSE
  <2>1. f \in [T -> Nat]
    <3>1. ASSUME NEW k \in T PROVE Cardinality(DOMAIN E[k]) \in Nat
      BY <1>2, <1>4, FS_CardinalityType DEF IsBody
    <3> HIDE DEF T
    <3> QED BY <3>1
  <2>2. PICK k \in T : \A j \in T : f[k] <= f[j]
    <3> HIDE DEF T, f
    <3> QED BY <2>1, <1>5, Smallest
  <2>3. k \in S /\ k \in DOMAIN E /\ IsBody(E[k]) /\ Unguarded(E[k]) \cap S = {}
    BY <1>2, <1>4
  <2>4. PICK m \in S : m \in Unguarded(G[k])
    BY <2>3, <1>4
  <2>5. m \in Uses(replace_nodes(N, E[k]), Ref, {"Alias", "Choice"})
    BY <2>3, <2>4, <1>1 DEF Unguarded, Ref
  <2>6. m \notin Uses(E[k], Ref, {"Alias", "Choice"})
    BY <2>3 DEF Unguarded, Ref
  <2>7. PICK p \in Open(E[k], {"Alias", "Choice"}) \ {<<>>} : Sub(E[k], p) \in DOMAIN N /\ m = N[Sub(E[k], p)]
    BY <2>3, <2>5, <2>6, ReplaceUses
  <2>8. E[m] = Sub(E[k], p) /\ p \in DOMAIN E[k] /\ p # <<>>
    BY <2>7, <1>3 DEF Open
  <2>9. Unguarded(E[m]) \subseteq Unguarded(E[k])
    BY <2>3, <2>7, <2>8, SubUses DEF Unguarded
  <2>10. Cardinality(DOMAIN E[m]) < Cardinality(DOMAIN E[k])
    BY <2>3, <2>8, SubBody
  <2>11. m \in T
    BY <2>3, <2>9
  <2>12. f[m] = Cardinality(DOMAIN E[m]) /\ f[k] = Cardinality(DOMAIN E[k])
    BY <2>11
  <2>13. f[k] <= f[m] /\ f[k] \in Nat /\ f[m] \in Nat
    <3> HIDE DEF f
    <3> QED BY <2>1, <2>2, <2>11
  <2> HIDE DEF f
  <2> QED BY <2>10, <2>12, <2>13, SMT
<1>6. T = {}
  BY <1>5
<1> QED BY <1>6 DEF E

\* There is no cycle among the rules made when there was none before.
LEMMA FactoredAcyclic ==
  ASSUME NEW g, IsGrammar(g), NEW new, NEW fresh, NewRules(g, new, fresh), NEW last \in DOMAIN g, NoCycles(g)
  PROVE  NoCycles(Factored(g, new, fresh, last))
<1> DEFINE E == Extended(g, new, fresh)
           G == Factored(g, new, fresh, last)
<1> SUFFICES ASSUME NEW S \in SUBSET DOMAIN G, Endless(Abbreviates(G), S), S # {} PROVE FALSE
  BY DEF NoCycles, Acyclic, Abbreviates
<1>1. \A n \in S : Unguarded(E[n]) \cap S # {}
  BY FactoredNames
<1>2. DOMAIN G = DOMAIN E
  BY DEF Factored
<1>3. ASSUME NEW n \in DOMAIN E PROVE Unguarded(E[n]) \subseteq DOMAIN g
  <2>1. Uses(E[n], Ref, {}) \subseteq DOMAIN g
    BY ExtendedBodies
  <2>2. Uses(E[n], Ref, {"Alias", "Choice"}) \subseteq Uses(E[n], Ref, {})
    BY UsesMore
  <2> QED BY <2>1, <2>2 DEF Unguarded, Ref
<1>4. \A n \in DOMAIN g : E[n] = g[n]
  BY ExtendedIs
<1> HIDE DEF E, G
<1> DEFINE R == S \cap DOMAIN g
<1>5. \A n \in R : Abbreviates(g)[n] \cap R # {}
  <2> SUFFICES ASSUME NEW n \in R PROVE Abbreviates(g)[n] \cap R # {}
    OBVIOUS
  <2>1. Unguarded(E[n]) \cap S # {} /\ Unguarded(E[n]) \subseteq DOMAIN g
    BY <1>1, <1>2, <1>3
  <2>2. Abbreviates(g)[n] = Unguarded(E[n])
    BY <1>4 DEF Abbreviates
  <2> QED BY <2>1, <2>2
<1>6. R # {}
  BY <1>1, <1>2, <1>3
<1>7. DOMAIN Abbreviates(g) = DOMAIN g
  BY DEF Abbreviates
<1> HIDE DEF R
<1>8. R \subseteq DOMAIN g
  BY DEF R
<1> QED BY <1>5, <1>6, <1>7, <1>8 DEF NoCycles, Acyclic, Endless

\* A token is too small to be a candidate.
LEMMA TokenSize ==
  ASSUME NEW x, IsBody(x), Root(x).op = "Token"
  PROVE  Size(x, {}) = 0
<1> DEFINE counted == {p \in DOMAIN x : \A q \in DOMAIN x : IsPrefix(q, p) =>
                         x[q].op \in Constructors /\ (q = <<>> \/ Sub(x, q) \notin {})}
           cases   == {p \in DOMAIN x \ {<<>>} : Front(p) \in counted /\ x[Front(p)].op = "Choice"}
<1>1. Size(x, {}) = Cardinality(counted) + Cardinality(cases)
  BY DEF Size
<1>2. counted = {}
  <2> SUFFICES ASSUME NEW p \in counted PROVE FALSE
    OBVIOUS
  <2>1. p \in Position /\ <<>> \in DOMAIN x
    BY DEF IsBody, Position
  <2>2. IsPrefix(<<>>, p)
    BY <2>1, EmptyIsPrefix
  <2>3. x[<<>>].op \in Constructors
    BY <2>1, <2>2
  <2> QED BY <2>3 DEF Root, Constructors
<1> HIDE DEF counted
<1>3. cases = {}
  BY <1>2
<1>4. Cardinality(counted) = 0 /\ Cardinality(cases) = 0
  BY <1>2, <1>3, FS_EmptySet
<1> QED BY <1>1, <1>4

\* What is found in a grammar is finite, and a part of a body of it.
LEMMA CandidateIs ==
  ASSUME NEW g, IsGrammar(g)
  PROVE  /\ IsFiniteSet(candidates(g))
         /\ \A x \in candidates(g) : /\ \E n \in DOMAIN g : \E p \in DOMAIN g[n] : x = Sub(g[n], p)
                                     /\ Root(x).op # "Token"
<1> DEFINE node == [o \in Places(g) |-> Sub(g[o[1]], o[2])]
           found == {node[o] : o \in Places(g)}
           at == [n \in DOMAIN g |-> {n} \X Open(g[n], {"Alias"})]
<1>1. \A x \in candidates(g) : x \in found /\ Size(x, {}) >= MinSize
  BY DEF candidates
<1>2. \A n \in DOMAIN g : IsBody(g[n])
  BY DEF IsGrammar
<1>3. Places(g) = UNION {at[n] : n \in DOMAIN g}
  BY DEF Places
<1>4. IsFiniteSet(Places(g))
  <2>1. ASSUME NEW n \in DOMAIN g PROVE IsFiniteSet(at[n])
    <3>1. IsFiniteSet(DOMAIN g[n]) /\ Open(g[n], {"Alias"}) \in SUBSET DOMAIN g[n]
      BY <1>2 DEF IsBody, Open
    <3>2. IsFiniteSet(Open(g[n], {"Alias"})) /\ IsFiniteSet({n})
      BY <3>1, FS_Subset, FS_Singleton
    <3>3. IsFiniteSet({n} \X Open(g[n], {"Alias"}))
      BY <3>2, FS_Product
    <3> QED BY <3>3
  <2> HIDE DEF at
  <2>2. IsFiniteSet({at[n] : n \in DOMAIN g})
    BY ImageFinite DEF IsGrammar
  <2>3. IsFiniteSet(UNION {at[n] : n \in DOMAIN g})
    BY <2>1, <2>2, FS_UNION
  <2> QED BY <2>3, <1>3
<1>5. IsFiniteSet(candidates(g))
  <2>1. IsFiniteSet(found)
    <3> HIDE DEF node
    <3> QED BY <1>4, ImageFinite
  <2> HIDE DEF found
  <2>2. candidates(g) \in SUBSET found
    BY <1>1
  <2> QED BY <2>1, <2>2, FS_Subset
<1>6. ASSUME NEW x \in candidates(g)
      PROVE  (\E n \in DOMAIN g : \E p \in DOMAIN g[n] : x = Sub(g[n], p)) /\ Root(x).op # "Token"
  <2>1. PICK o \in Places(g) : x = node[o]
    BY <1>1
  <2>2. PICK n \in DOMAIN g : o \in {n} \X Open(g[n], {"Alias"})
    BY <1>3
  <2>3. o[1] = n /\ o[2] \in DOMAIN g[n] /\ x = Sub(g[n], o[2])
    BY <2>1, <2>2 DEF Open
  <2>4. IsBody(x)
    BY <2>3, <1>2, SubBody
  <2>5. ASSUME Root(x).op = "Token" PROVE FALSE
    <3>1. Size(x, {}) = 0
      BY <2>4, <2>5, TokenSize
    <3>2. Size(x, {}) >= MinSize /\ MinSize \in Nat \ {0}
      BY <1>1, RearrangeAssumption
    <3> QED BY <3>1, <3>2
  <2> QED BY <2>3, <2>5
<1> QED BY <1>5, <1>6

\* Factorize makes new rules of some candidates, and Deinline none.
LEMMA ChosenRules ==
  ASSUME NEW g, IsGrammar(g), DOMAIN g \cap NewNames = {},
         NEW new, new \in {{}, Chosen(g)}, EnoughNames(new)
  PROVE  NewRules(g, new, CHOOSE f \in Injection(new, NewNames) : TRUE)
<1>1. (CHOOSE f \in Injection(new, NewNames) : TRUE) \in Injection(new, NewNames)
  BY DEF EnoughNames
<1>2. new \subseteq candidates(g)
  <2>1. Chosen(g) \subseteq candidates(g)
    BY DEF Chosen
  <2> QED BY <2>1
<1>3. IsFiniteSet(new)
  <2>1. new \in SUBSET candidates(g) /\ IsFiniteSet(candidates(g))
    BY <1>2, CandidateIs
  <2> QED BY <2>1, FS_Subset
<1>4. \A x \in new : (\E n \in DOMAIN g : \E p \in DOMAIN g[n] : x = Sub(g[n], p)) /\ Root(x).op # "Token"
  BY <1>2, CandidateIs
<1> QED BY <1>1, <1>3, <1>4 DEF NewRules

\* What a step of either makes of the rules.
LEMMA FactorizeStep ==
  ASSUME IsGrammar(rules), DOMAIN rules \cap NewNames = {}, NoCycles(rules),
         NEW new, new \in {{}, Chosen(rules)}, NEW last \in DOMAIN rules, factorize_rules(new, last)
  PROVE  /\ IsGrammar(rules') /\ NoCycles(rules')
         /\ DOMAIN rules \subseteq DOMAIN rules' /\ (new = {} => DOMAIN rules' = DOMAIN rules)
         /\ sorted' = tsort_rules(rules') /\ UNCHANGED <<inlined, extras, parser>>
         /\ \E fresh : NewRules(rules, new, fresh) /\ rules' = Factored(rules, new, fresh, last)
<1> DEFINE fresh == CHOOSE f \in Injection(new, NewNames) : TRUE
           G == Factored(rules, new, fresh, last)
<1>1. /\ EnoughNames(new)
      /\ rules' = [n \in DOMAIN Extended(rules, new, fresh) |->
                     replace_nodes(Named(rules, new, fresh, last), Extended(rules, new, fresh)[n])]
      /\ sorted' = tsort_rules(rules') /\ UNCHANGED <<inlined, extras, parser>>
  BY DEF factorize_rules, Extended, Named, Bodies
<1>2. rules' = G
  BY <1>1 DEF Factored
<1>3. NewRules(rules, new, fresh)
  BY <1>1, ChosenRules
<1>4. new = {} => DOMAIN G = DOMAIN rules
  BY DEF Factored, Extended
<1> HIDE DEF fresh
<1>5. IsGrammar(G) /\ DOMAIN rules \subseteq DOMAIN G /\ NoCycles(G)
  BY <1>3, FactoredGrammar, FactoredAcyclic
<1>6. \E f : NewRules(rules, new, f) /\ rules' = Factored(rules, new, f, last)
  BY <1>2, <1>3
<1> QED BY <1>1, <1>2, <1>4, <1>5, <1>6

-----------------------------------------------------------------------------
(* Inline *)

\* Where a symbol at the root of a rule leads.
Leads == [n \in DOMAIN rules |-> IF Root(rules[n]).op = "Symbol" THEN {Root(rules[n]).name} ELSE {}]

LEMMA LeadsOn ==
  ASSUME IsGrammar(rules)
  PROVE  /\ RelationOn(Leads, DOMAIN rules)
         /\ \A n \in DOMAIN rules : Leads[n] \subseteq Unguarded(rules[n]) /\ Leads[n] \subseteq Deps(rules[n])
<1>1. /\ IsFiniteSet(DOMAIN rules)
      /\ \A n \in DOMAIN rules : IsBody(rules[n]) /\ Uses(rules[n], Ref, {}) \subseteq DOMAIN rules
  BY DEF IsGrammar, Ref
<1>2. ASSUME NEW n \in DOMAIN rules, NEW stop PROVE Leads[n] \subseteq Uses(rules[n], Ref, stop)
  <2>1. Root(rules[n]).op = "Symbol" => Root(rules[n]).name \in Uses(rules[n], Ref, stop)
    <3>1. <<>> \in Open(rules[n], stop)
      BY <1>1, RootOpen
    <3>2. rules[n][<<>>].op = "Symbol" => rules[n][<<>>].op \in Ref
      BY DEF Ref
    <3> QED BY <3>1, <3>2, UsesIs DEF Root
  <2> QED BY <2>1 DEF Leads
<1>3. \A n \in DOMAIN rules : Leads[n] \in SUBSET DOMAIN rules
  BY <1>1, <1>2
<1>4. Leads \in [DOMAIN rules -> SUBSET DOMAIN rules]
  BY <1>3 DEF Leads
<1> QED BY <1>1, <1>2, <1>4 DEF RelationOn, Unguarded, Deps, Ref

\* A name leads to a rule that is not a symbol, since there is no cycle.
LEMMA ResolveIs ==
  ASSUME IsGrammar(rules), NoCycles(rules), NEW n \in DOMAIN rules
  PROVE  LET k == resolve(rules)[n]
         IN  /\ k \in DOMAIN rules
             /\ \A R : n \in R /\ Closed(Leads, R \cap DOMAIN rules) => k \in R
<1> DEFINE S == Reach(Leads, {n})
           k == resolve(rules)[n]
<1>1. RelationOn(Leads, DOMAIN rules) /\ DOMAIN Leads = DOMAIN rules
  BY LeadsOn DEF Leads
<1>2. {n} \subseteq S /\ S \subseteq DOMAIN rules /\ Closed(Leads, S)
  <2>1. {n} \in SUBSET DOMAIN rules
    OBVIOUS
  <2> HIDE DEF S
  <2> QED BY <2>1, <1>1, Reached DEF S
<1>3. resolve(rules) = [j \in DOMAIN rules |-> CHOOSE m \in Reach(Leads, {j}) : Root(rules[m]).op # "Symbol"]
  BY DEF resolve, Leads
<1>4. k = CHOOSE m \in S : Root(rules[m]).op # "Symbol"
  BY <1>3
<1> HIDE DEF S, k
<1>5. ASSUME \A m \in S : Root(rules[m]).op = "Symbol" PROVE FALSE
  <2>1. ASSUME NEW m \in S PROVE Abbreviates(rules)[m] \cap S # {}
    <3>1. Leads[m] = {Root(rules[m]).name} /\ Leads[m] \subseteq S
      BY <1>2, <1>5 DEF Leads, Closed
    <3>2. Leads[m] \subseteq Abbreviates(rules)[m]
      BY <1>2, LeadsOn DEF Abbreviates
    <3> QED BY <3>1, <3>2
  <2>2. Endless(Abbreviates(rules), S)
    BY <2>1 DEF Endless
  <2>3. S \in SUBSET DOMAIN Abbreviates(rules)
    BY <1>2 DEF Abbreviates
  <2> QED BY <2>2, <2>3, <1>2 DEF NoCycles, Acyclic
<1>6. k \in S
  BY <1>4, <1>5
<1>7. ASSUME NEW R, n \in R, Closed(Leads, R \cap DOMAIN rules) PROVE k \in R
  <2>1. {n} \in SUBSET DOMAIN rules /\ {n} \subseteq R
    BY <1>7
  <2>2. S \subseteq R
    BY <2>1, <1>1, <1>7, ReachedLeast DEF S
  <2> QED BY <2>2, <1>6
<1> QED BY <1>2, <1>6, <1>7 DEF k

LEMMA ResolveType ==
  ASSUME IsGrammar(rules), NoCycles(rules)
  PROVE  resolve(rules) \in [DOMAIN rules -> DOMAIN rules]
<1> DEFINE e(j) == CHOOSE m \in Reach(Leads, {j}) : Root(rules[m]).op # "Symbol"
           res == resolve(rules)
<1>1. res = [j \in DOMAIN rules |-> e(j)]
  BY DEF resolve, Leads
<1>2. \A j \in DOMAIN rules : res[j] \in DOMAIN rules
  BY ResolveIs
<1> HIDE DEF e, res
<1>3. res \in [DOMAIN rules -> DOMAIN rules]
  BY <1>1, <1>2
<1> QED BY <1>3 DEF res

\* What may carry a name after Inline.
Ref3 == {"Symbol", "Alias", "TokenType"}

\* A symbol stays as it is or becomes a token, and then it may have the name
\* of the token it leads to.
LEMMA RewriteNode ==
  ASSUME NEW resolved, NEW node
  PROVE  LET z == rewrite_node(resolved, node)
             y == Root(rules[resolved[node.name]])
         IN  /\ node.op # "Symbol" => z = node
             /\ node.op = "Symbol" /\ z.op \in Ref3 =>
                  z.name = node.name \/ (y.op = "Token" /\ z.name = y.name)
<1> DEFINE z == rewrite_node(resolved, node)
           y == Root(rules[resolved[node.name]])
<1>1. node.op # "Symbol" => z = node
  BY DEF rewrite_node
<1>2. ASSUME node.op = "Symbol", z.op \in Ref3 PROVE z.name = node.name \/ (y.op = "Token" /\ z.name = y.name)
  <2>1. z = CASE y.op = "Constant" -> y [] y.op = "Token" -> TokenType(y.name) [] OTHER -> node
    BY <1>2 DEF rewrite_node
  <2> HIDE DEF y, z
  <2>2. CASE y.op = "Constant"
    <3>1. z = y
      BY <2>1, <2>2
    <3> QED BY <3>1, <2>2, <1>2 DEF Ref3
  <2>3. CASE y.op = "Token"
    <3>1. z = TokenType(y.name)
      BY <2>1, <2>3
    <3> QED BY <3>1, <2>3 DEF TokenType, Node
  <2>4. CASE y.op # "Constant" /\ y.op # "Token"
    <3>1. z = node
      BY <2>1, <2>4
    <3> QED BY <3>1
  <2> QED BY <2>2, <2>3, <2>4
<1> QED BY <1>1, <1>2

\* The tuple that takes the place of an argument, and where its nodes come.
Tuple(resolved, x, p) == rules[resolved[x[p].name]]

Grafted(resolved, uses, x) ==
  UNION {{p \o q : q \in DOMAIN Tuple(resolved, x, p)} : p \in tuple_args(resolved, uses, x)}

LEMMA ArgIs ==
  ASSUME NEW x, IsBody(x), NEW resolved, NEW uses, NEW p \in tuple_args(resolved, uses, x)
  PROVE  /\ p \in DOMAIN x /\ p \in Position /\ Len(p) = 1 /\ p # <<>>
         /\ x[p].op = "Symbol" /\ Root(x).op = "Choice" /\ x[p].name \in Deps(x)
<1>1. p \in DOMAIN x /\ p \in Position /\ Len(p) = 1 /\ Root(x).op = "Choice" /\ x[p].op = "Symbol"
  BY DEF tuple_args, IsBody, Position
<1>2. p # <<>>
  BY <1>1, HeadBelow
<1>3. ASSUME NEW q \in DOMAIN x, IsStrictPrefix(q, p) PROVE x[q].op \notin {"Alias"}
  <2>1. q \in Position
    BY DEF IsBody, Position
  <2>2. Len(q) < 1 /\ Len(q) \in Nat
    BY <2>1, <1>1, <1>3, PrefixIs, LenProperties DEF Position
  <2>3. q = <<>>
    BY <2>1, <2>2, EmptySeq DEF Position
  <2> QED BY <2>3, <1>1 DEF Root
<1>4. p \in Open(x, {"Alias"})
  BY <1>1, <1>3 DEF Open
<1>5. x[p].op \in {"Symbol", "Alias"}
  BY <1>1
<1>6. x[p].name \in Deps(x)
  BY <1>4, <1>5, UsesIs DEF Deps
<1> QED BY <1>1, <1>2, <1>6

\* What becomes of the nodes that were there and of those of the tuples.
Rewritten(resolved, uses, x, y, W) ==
  /\ DOMAIN y = DOMAIN x \cup W
  /\ \A r \in DOMAIN x \ W : y[r] = rewrite_node(resolved, x[r])
  /\ \A p \in tuple_args(resolved, uses, x) : \A q \in DOMAIN Tuple(resolved, x, p) :
       /\ p \o q \in W
       /\ y[p \o q] = rewrite_node(resolved, Tuple(resolved, x, p)[q])

LEMMA RewriteIs ==
  ASSUME NEW x, IsBody(x), NEW resolved, NEW uses,
         \A p \in tuple_args(resolved, uses, x) : IsBody(Tuple(resolved, x, p))
  PROVE  Rewritten(resolved, uses, x, rewrite_body(resolved, uses, x), Grafted(resolved, uses, x))
<1> DEFINE P == tuple_args(resolved, uses, x)
           W == Grafted(resolved, uses, x)
           tuple == [p \in P |-> Tuple(resolved, x, p)]
           node(r) == IF r \in W THEN tuple[<<Head(r)>>][Tail(r)] ELSE x[r]
           y == rewrite_body(resolved, uses, x)
<1>1. W = UNION {{p \o q : q \in DOMAIN tuple[p]} : p \in P}
  BY DEF Grafted
<1>2. y = [r \in DOMAIN x \cup W |-> rewrite_node(resolved, node(r))]
  BY <1>1 DEF rewrite_body, Tuple
<1> HIDE DEF y, W
<1>3. ASSUME NEW p \in P, NEW q \in DOMAIN Tuple(resolved, x, p)
      PROVE  p \o q \in W /\ y[p \o q] = rewrite_node(resolved, Tuple(resolved, x, p)[q])
  <2>1. p \o q \in W
    BY <1>1
  <2>2. p \in Position /\ Len(p) = 1 /\ q \in Position
    BY ArgIs DEF IsBody, Position
  <2>3. <<Head(p \o q)>> = p /\ Tail(p \o q) = q
    BY <2>2, HeadBelow
  <2>4. node(p \o q) = Tuple(resolved, x, p)[q]
    BY <2>1, <2>3
  <2> QED BY <2>1, <2>4, <1>2
<1>4. \A r \in DOMAIN x \ W : y[r] = rewrite_node(resolved, x[r])
  BY <1>2
<1>5. DOMAIN y = DOMAIN x \cup W
  BY <1>2
<1> HIDE DEF P
<1> QED BY <1>3, <1>4, <1>5 DEF Rewritten, P, W, y

\* What is open after Inline was open before, in the body or in a tuple that
\* is under a variant now.
LEMMA RewriteOpen ==
  ASSUME NEW x, IsBody(x), NEW resolved, NEW uses,
         \A p \in tuple_args(resolved, uses, x) : IsBody(Tuple(resolved, x, p)),
         NEW stop, NEW r \in Open(rewrite_body(resolved, uses, x), stop)
  PROVE  LET z == rewrite_body(resolved, uses, x)[r]
         IN  \/ r \in Open(x, stop) /\ z = rewrite_node(resolved, x[r])
             \/ /\ "Choice" \notin stop
                /\ \E p \in tuple_args(resolved, uses, x) : \E q \in Open(Tuple(resolved, x, p), stop) :
                     z = rewrite_node(resolved, Tuple(resolved, x, p)[q])
<1> DEFINE P == tuple_args(resolved, uses, x)
           W == Grafted(resolved, uses, x)
           y == rewrite_body(resolved, uses, x)
<1>0. Rewritten(resolved, uses, x, y, W)
  BY RewriteIs
<1> HIDE DEF y, W
<1>1. /\ DOMAIN y = DOMAIN x \cup W
      /\ \A s \in DOMAIN x \ W : y[s] = rewrite_node(resolved, x[s])
      /\ \A p \in P : \A q \in DOMAIN Tuple(resolved, x, p) :
           /\ p \o q \in W
           /\ y[p \o q] = rewrite_node(resolved, Tuple(resolved, x, p)[q])
  BY <1>0 DEF Rewritten
<1>2. \A p \in P : p \in DOMAIN x /\ p \in Position /\ p # <<>> /\ x[p].op = "Symbol" /\ Root(x).op = "Choice"
  BY ArgIs
<1>3. r \in DOMAIN y /\ \A q \in DOMAIN y : IsStrictPrefix(q, r) => y[q].op \notin stop
  BY DEF Open, y
<1>4. \A s \in W : \E p \in P : \E q \in DOMAIN Tuple(resolved, x, p) : s = p \o q
  BY DEF Grafted, W
<1>5. /\ DOMAIN x \subseteq Position /\ <<>> \in DOMAIN x
      /\ \A p, q \in DOMAIN x : IsStrictPrefix(p, q) => x[p].op \in Constructors \cup {"Alias"}
  BY DEF IsBody, Position
<1>6. \A p \in P : /\ DOMAIN Tuple(resolved, x, p) \subseteq Position
                   /\ \A s, q \in DOMAIN Tuple(resolved, x, p) :
                        IsStrictPrefix(s, q) => Tuple(resolved, x, p)[s].op \in Constructors \cup {"Alias"}
  BY DEF IsBody, Position
<1>7. \A node : node.op \in Constructors \cup {"Alias"} => rewrite_node(resolved, node) = node
  BY RewriteNode DEF Constructors
<1> HIDE DEF P
<1>8. CASE r \notin W
  <2>1. r \in DOMAIN x /\ y[r] = rewrite_node(resolved, x[r])
    BY <1>1, <1>3, <1>8
  <2>2. ASSUME NEW s \in DOMAIN x, IsStrictPrefix(s, r) PROVE x[s].op \notin stop
    <3>1. x[s].op \in Constructors \cup {"Alias"}
      BY <2>1, <2>2, <1>5
    <3>2. s \notin W
      <4> SUFFICES ASSUME s \in W PROVE FALSE
        OBVIOUS
      <4>1. PICK p \in P : \E q \in DOMAIN Tuple(resolved, x, p) : s = p \o q
        BY <1>4
      <4>2. PICK q \in DOMAIN Tuple(resolved, x, p) : s = p \o q
        BY <4>1
      <4>3. p \in Position /\ q \in Position /\ s \in Position /\ r \in Position
        BY <2>1, <1>2, <1>5, <1>6
      <4>4. IsPrefix(p, s)
        BY <4>2, <4>3, ConcatRest
      <4>5. IsStrictPrefix(p, r)
        <5>1. Len(p) \in Nat /\ Len(s) \in Nat /\ Len(r) \in Nat
          BY <4>3, LenProperties DEF Position
        <5>2. /\ Len(p) <= Len(s) /\ \A i \in 1 .. Len(p) : p[i] = s[i]
              /\ Len(s) < Len(r) /\ \A i \in 1 .. Len(s) : s[i] = r[i]
          BY <4>3, <4>4, <2>2, PrefixIs
        <5>3. Len(p) < Len(r) /\ Len(p) <= Len(r) /\ \A i \in 1 .. Len(p) : p[i] = r[i]
          BY <5>1, <5>2
        <5> QED BY <5>3, <4>3, PrefixIs
      <4>6. x[p].op \in Constructors \cup {"Alias"}
        BY <4>5, <2>1, <1>2, <1>5
      <4> QED BY <4>6, <1>2 DEF Constructors
    <3>3. y[s] = x[s] /\ s \in DOMAIN y
      BY <3>1, <3>2, <1>1, <1>7
    <3> QED BY <3>3, <1>3, <2>2
  <2>3. r \in Open(x, stop)
    BY <2>1, <2>2 DEF Open
  <2> QED BY <2>1, <2>3 DEF y
<1>9. CASE r \in W
  <2>1. PICK p \in P : \E q \in DOMAIN Tuple(resolved, x, p) : r = p \o q
    BY <1>4, <1>9
  <2>2. PICK q \in DOMAIN Tuple(resolved, x, p) : r = p \o q
    BY <2>1
  <2> DEFINE t == Tuple(resolved, x, p)
  <2>3. p \in Position /\ q \in Position /\ p # <<>> /\ r \in Position /\ r # <<>>
    BY <2>2, <1>2, <1>6, ConcatRest
  <2>4. y[r] = rewrite_node(resolved, t[q])
    BY <2>2, <1>1
  <2>5. "Choice" \notin stop
    <3>1. <<>> \notin W
      BY <1>2, <1>4, <1>6, ConcatRest
    <3>2. x[<<>>].op = "Choice"
      BY <1>2 DEF Root
    <3>3. y[<<>>] = x[<<>>] /\ <<>> \in DOMAIN y
      <4>1. x[<<>>].op \in Constructors \cup {"Alias"}
        BY <3>2 DEF Constructors
      <4> QED BY <4>1, <3>1, <1>1, <1>5, <1>7
    <3>4. IsStrictPrefix(<<>>, r)
      BY <2>3, EmptyIsPrefix
    <3> QED BY <3>2, <3>3, <3>4, <1>3
  <2>6. ASSUME NEW s \in DOMAIN t, IsStrictPrefix(s, q) PROVE t[s].op \notin stop
    <3>1. s \in Position /\ t[s].op \in Constructors \cup {"Alias"}
      BY <2>6, <1>6
    <3>2. p \o s \in DOMAIN y /\ y[p \o s] = rewrite_node(resolved, t[s])
      BY <1>1
    <3>3. y[p \o s] = t[s]
      BY <3>1, <3>2, <1>7
    <3>4. IsStrictPrefix(p \o s, r)
      BY <3>1, <2>2, <2>3, <2>6, ConcatPrefix
    <3> QED BY <3>2, <3>3, <3>4, <1>3
  <2>7. q \in Open(t, stop)
    BY <2>6 DEF Open
  <2> QED BY <2>4, <2>5, <2>7 DEF y, P
<1> QED BY <1>8, <1>9

\* The names that a body may have after Inline: its own, and those of the
\* tokens they lead to.
Carried(resolved, x, stop) ==
  LET names == Uses(x, Ref, stop)
  IN  names \cup {m \in {resolved[k] : k \in names} : rules[m] = Token(m)}

LEMMA CarriedNode ==
  ASSUME IsGrammar(rules), NEW resolved \in [DOMAIN rules -> DOMAIN rules],
         NEW x, IsBody(x), Uses(x, Ref, {}) \subseteq DOMAIN rules,
         NEW stop, NEW p \in Open(x, stop), rewrite_node(resolved, x[p]).op \in Ref3
  PROVE  rewrite_node(resolved, x[p]).name \in Carried(resolved, x, stop)
<1> DEFINE k == x[p].name
           z == rewrite_node(resolved, x[p])
           y == Root(rules[resolved[k]])
<1>1. /\ x[p].op # "Symbol" => z = x[p]
      /\ x[p].op = "Symbol" /\ z.op \in Ref3 => z.name = k \/ (y.op = "Token" /\ z.name = y.name)
  BY RewriteNode
<1>2. x[p].op \in Operators
  BY DEF Open, IsBody
<1>3. x[p].op \in Ref => k \in Uses(x, Ref, stop)
  BY UsesIs
<1>4. Uses(x, Ref, stop) \subseteq Carried(resolved, x, stop)
  BY DEF Carried
<1>5. Uses(x, Ref, stop) \subseteq Uses(x, Ref, {})
  BY UsesMore
<1> HIDE DEF z, y, k
<1>6. CASE x[p].op # "Symbol"
  <2>1. x[p].op \in Ref
    BY <1>1, <1>2, <1>6 DEF z, Ref, Ref3, Operators, Constructors
  <2> QED BY <2>1, <1>1, <1>3, <1>4, <1>6 DEF z, k
<1>7. CASE x[p].op = "Symbol"
  <2>1. k \in Uses(x, Ref, stop) /\ k \in DOMAIN rules
    BY <1>3, <1>5, <1>7 DEF Ref
  <2>2. CASE y.op = "Token" /\ z.name = y.name
    <3>1. resolved[k] \in DOMAIN rules
      BY <2>1
    <3>2. rules[resolved[k]] = Token(resolved[k])
      BY <3>1, <2>2 DEF IsGrammar, y
    <3>3. y.name = resolved[k]
      BY <3>2 DEF y, Root, Token, Leaf, Node
    <3>4. resolved[k] \in Carried(resolved, x, stop)
      BY <2>1, <3>2 DEF Carried
    <3> QED BY <3>3, <3>4, <2>2 DEF z
  <2>3. CASE z.name = k
    BY <2>1, <2>3, <1>4 DEF z
  <2> QED BY <1>1, <1>7, <2>2, <2>3 DEF z
<1> QED BY <1>6, <1>7

\* What a rule uses after Inline comes from its body, or from that of a tuple,
\* and then it is under a variant.
LEMMA RewriteUses ==
  ASSUME IsGrammar(rules), NEW resolved \in [DOMAIN rules -> DOMAIN rules], NEW uses,
         NEW n \in DOMAIN rules, NEW stop, NEW m \in Uses(rewrite_body(resolved, uses, rules[n]), Ref3, stop)
  PROVE  \/ m \in Carried(resolved, rules[n], stop)
         \/ "Choice" \notin stop /\ \E k \in Deps(rules[n]) : m \in Carried(resolved, rules[resolved[k]], stop)
<1> DEFINE x == rules[n]
           y == rewrite_body(resolved, uses, x)
           P == tuple_args(resolved, uses, x)
<1>1. \A k \in DOMAIN rules : IsBody(rules[k]) /\ Uses(rules[k], Ref, {}) \subseteq DOMAIN rules
  BY DEF IsGrammar, Ref
<1>2. Deps(x) \subseteq Uses(x, Ref, {})
  BY UsesMore DEF Deps, Ref
<1>3. ASSUME NEW p \in P
      PROVE  x[p].name \in Deps(x) /\ resolved[x[p].name] \in DOMAIN rules /\ Tuple(resolved, x, p) = rules[resolved[x[p].name]]
  <2>1. x[p].name \in Deps(x)
    BY <1>1, ArgIs
  <2> QED BY <2>1, <1>1, <1>2 DEF Tuple
<1>4. PICK r \in Open(y, stop) : y[r].op \in Ref3 /\ m = y[r].name
  BY DEF Uses
<1>5. \A p \in P : IsBody(Tuple(resolved, x, p))
  BY <1>1, <1>3
<1>6. \/ r \in Open(x, stop) /\ y[r] = rewrite_node(resolved, x[r])
      \/ /\ "Choice" \notin stop
         /\ \E p \in P : \E q \in Open(Tuple(resolved, x, p), stop) :
              y[r] = rewrite_node(resolved, Tuple(resolved, x, p)[q])
  BY <1>1, <1>5, RewriteOpen
<1> HIDE DEF y, P
<1>7. CASE r \in Open(x, stop) /\ y[r] = rewrite_node(resolved, x[r])
  BY <1>1, <1>4, <1>7, CarriedNode
<1>8. CASE "Choice" \notin stop /\ \E p \in P : \E q \in Open(Tuple(resolved, x, p), stop) :
             y[r] = rewrite_node(resolved, Tuple(resolved, x, p)[q])
  <2>1. PICK p \in P : \E q \in Open(Tuple(resolved, x, p), stop) : y[r] = rewrite_node(resolved, Tuple(resolved, x, p)[q])
    BY <1>8
  <2>2. PICK q \in Open(Tuple(resolved, x, p), stop) : y[r] = rewrite_node(resolved, Tuple(resolved, x, p)[q])
    BY <2>1
  <2> DEFINE k == x[p].name
             t == rules[resolved[k]]
  <2>3. k \in Deps(x) /\ resolved[k] \in DOMAIN rules /\ Tuple(resolved, x, p) = t
    BY <1>3
  <2> HIDE DEF k
  <2>4. q \in Open(t, stop) /\ y[r] = rewrite_node(resolved, t[q]) /\ IsBody(t) /\ Uses(t, Ref, {}) \subseteq DOMAIN rules
    BY <2>2, <2>3, <1>1
  <2>5. m \in Carried(resolved, t, stop)
    BY <2>4, <1>4, CarriedNode
  <2> QED BY <2>3, <2>5, <1>8
<1> QED BY <1>6, <1>7, <1>8

\* Each rule with what it depends on, and all that depends on.
SortedBy(g, order) ==
  /\ DOMAIN order = DOMAIN g
  /\ \A n \in DOMAIN g : Deps(g[n]) \subseteq order[n] /\ order[n] \subseteq DOMAIN g
  /\ \A n \in DOMAIN g : \A k \in order[n] : Deps(g[k]) \subseteq order[n]

\* What is inlined is among what has been sorted before.
LEMMA InlinedSorted ==
  ASSUME IsGrammar(rules), NoCycles(rules), SortedBy(rules, sorted), NEW uses, NEW n \in DOMAIN rules
  PROVE  Uses(rewrite_body(resolve(rules), uses, rules[n]), Ref3, {"Alias"}) \subseteq sorted[n]
<1> DEFINE res == resolve(rules)
           A == {"Alias"}
<1>1. res \in [DOMAIN rules -> DOMAIN rules]
  BY ResolveType
<1>2. ASSUME NEW k \in sorted[n] PROVE res[k] \in sorted[n]
  <2>1. k \in DOMAIN rules
    BY DEF SortedBy
  <2>2. Closed(Leads, sorted[n] \cap DOMAIN rules)
    <3>1. ASSUME NEW j \in sorted[n] \cap DOMAIN rules PROVE Leads[j] \subseteq sorted[n] \cap DOMAIN rules
      BY LeadsOn DEF SortedBy
    <3> QED BY <3>1 DEF Closed
  <2> QED BY <2>1, <2>2, ResolveIs
<1> HIDE DEF res
<1>3. ASSUME NEW j, j \in sorted[n] \cup {n} PROVE Carried(res, rules[j], A) \subseteq sorted[n]
  <2>1. Uses(rules[j], Ref, A) \subseteq sorted[n]
    BY <1>3 DEF SortedBy, Deps, Ref
  <2> QED BY <2>1, <1>2 DEF Carried
<1> SUFFICES ASSUME NEW m \in Uses(rewrite_body(res, uses, rules[n]), Ref3, A) PROVE m \in sorted[n]
  BY DEF res
<1>4. \/ m \in Carried(res, rules[n], A)
      \/ \E k \in Deps(rules[n]) : m \in Carried(res, rules[res[k]], A)
  BY <1>1, RewriteUses
<1>5. \A k \in Deps(rules[n]) : res[k] \in sorted[n]
  BY <1>2 DEF SortedBy
<1> QED BY <1>3, <1>4, <1>5

\* A rule that is a token uses nothing.
LEMMA TokenUses ==
  ASSUME IsGrammar(rules), NEW resolved \in [DOMAIN rules -> DOMAIN rules], NEW uses,
         NEW n \in DOMAIN rules, rules[n] = Token(n), NEW stop
  PROVE  Uses(rewrite_body(resolved, uses, rules[n]), Ref3, stop) = {}
<1>1. \A s : Uses(rules[n], Ref, s) = {}
  <2>1. \A p \in DOMAIN rules[n] : rules[n][p].op = "Token"
    BY DEF Token, Leaf, Node
  <2> QED BY <2>1 DEF Uses, Open, Ref
<1>2. Deps(rules[n]) = {} /\ Carried(resolved, rules[n], stop) = {}
  BY <1>1 DEF Deps, Ref, Carried
<1> QED BY <1>2, RewriteUses

\* There is no cycle after Inline: tuples are put under variants, and a token
\* that a name leads to abbreviates nothing.
LEMMA InlinedAcyclic ==
  ASSUME IsGrammar(rules), NoCycles(rules), NEW uses,
         NEW after, after = [n \in DOMAIN rules |->
           Uses(rewrite_body(resolve(rules), uses, rules[n]), Ref3, {"Alias", "Choice"})]
  PROVE  Acyclic(after)
<1> DEFINE res == resolve(rules)
           AC == {"Alias", "Choice"}
<1>1. res \in [DOMAIN rules -> DOMAIN rules]
  BY ResolveType
<1>2. DOMAIN after = DOMAIN rules /\ \A n \in DOMAIN rules : after[n] = Uses(rewrite_body(res, uses, rules[n]), Ref3, AC)
  OBVIOUS
<1> HIDE DEF res
<1>3. ASSUME NEW n \in DOMAIN rules, NEW m \in after[n] PROVE m \in Unguarded(rules[n]) \/ (m \in DOMAIN rules /\ after[m] = {})
  <2>1. m \in Carried(res, rules[n], AC)
    BY <1>1, <1>2, RewriteUses
  <2>2. CASE m \in Uses(rules[n], Ref, AC)
    BY <2>2 DEF Unguarded, Ref
  <2>3. CASE rules[m] = Token(m) /\ \E k \in Uses(rules[n], Ref, AC) : m = res[k]
    <3>1. Uses(rules[n], Ref, AC) \subseteq Uses(rules[n], Ref, {})
      BY UsesMore
    <3>2. m \in DOMAIN rules
      BY <2>3, <3>1, <1>1 DEF IsGrammar, Ref
    <3> QED BY <3>2, <2>3, <1>1, <1>2, TokenUses
  <2> QED BY <2>1, <2>2, <2>3 DEF Carried
<1> SUFFICES ASSUME NEW S \in SUBSET DOMAIN rules, Endless(after, S) PROVE S = {}
  BY <1>2 DEF Acyclic
<1>4. ASSUME NEW n \in S PROVE Abbreviates(rules)[n] \cap S # {}
  <2>1. PICK m \in S : m \in after[n]
    BY DEF Endless
  <2>2. after[m] # {}
    BY DEF Endless
  <2>3. m \in Unguarded(rules[n])
    BY <2>1, <2>2, <1>3
  <2> QED BY <2>3 DEF Abbreviates
<1>5. Endless(Abbreviates(rules), S)
  BY <1>4 DEF Endless
<1>6. DOMAIN Abbreviates(rules) = DOMAIN rules
  BY DEF Abbreviates
<1> QED BY <1>5, <1>6 DEF NoCycles, Acyclic

-----------------------------------------------------------------------------
(* Types *)

\* Rules for which types can be written: the names in them, those of tokens
\* as well, are rules, and no type abbreviates itself.
TypesOK(g) ==
  /\ IsFiniteSet(DOMAIN g)
  /\ \A n \in DOMAIN g : /\ IsFiniteSet(DOMAIN g[n]) /\ DOMAIN g[n] \subseteq Position /\ <<>> \in DOMAIN g[n]
                         /\ Uses(g[n], Ref3, {}) \subseteq DOMAIN g
  /\ Acyclic([n \in DOMAIN g |-> Uses(g[n], Ref3, {"Alias", "Choice"})])

LEMMA LocationIs ==
  ASSUME NEW g, NEW l \in Locations(g)
  PROVE  l = <<l[1], l[2]>> /\ l[1] \in DOMAIN g /\ l[2] \in DOMAIN g[l[1]]
<1>1. PICK n \in DOMAIN g : l \in {n} \X DOMAIN g[n]
  BY DEF Locations
<1> QED BY <1>1

LEMMA IsLocation ==
  ASSUME NEW g, NEW n \in DOMAIN g, NEW p \in DOMAIN g[n]
  PROVE  <<n, p>> \in Locations(g)
<1>1. <<n, p>> \in {n} \X DOMAIN g[n]
  OBVIOUS
<1> QED BY <1>1 DEF Locations

LEMMA LocationsFinite ==
  ASSUME NEW g, TypesOK(g)
  PROVE  IsFiniteSet(Locations(g))
<1> DEFINE at == [n \in DOMAIN g |-> {n} \X DOMAIN g[n]]
<1>1. Locations(g) = UNION {at[n] : n \in DOMAIN g}
  BY DEF Locations
<1>2. ASSUME NEW n \in DOMAIN g PROVE IsFiniteSet(at[n])
  <2>1. IsFiniteSet({n}) /\ IsFiniteSet(DOMAIN g[n])
    BY FS_Singleton DEF TypesOK
  <2>2. IsFiniteSet({n} \X DOMAIN g[n])
    BY <2>1, FS_Product
  <2> QED BY <2>2
<1> HIDE DEF at
<1>3. IsFiniteSet({at[n] : n \in DOMAIN g})
  BY ImageFinite DEF TypesOK
<1>4. IsFiniteSet(UNION {at[n] : n \in DOMAIN g})
  BY <1>2, <1>3, FS_UNION
<1> QED BY <1>1, <1>4

\* The arguments of a place, by their numbers.
LEMMA ArgsIs ==
  ASSUME NEW g, NEW l \in Locations(g), DOMAIN g[l[1]] \subseteq Position
  PROVE  /\ Args(g, l) = {i \in Nat : l[2] \o <<i>> \in DOMAIN g[l[1]]}
         /\ \A i \in Args(g, l) : Arg(l, i) \in Locations(g)
<1> DEFINE D == DOMAIN g[l[1]]
           I == UNION {ToSet(p) : p \in D}
<1>1. l[1] \in DOMAIN g /\ l[2] \in D /\ l[2] \in Position
  BY LocationIs
<1>2. \A i : Arg(l, i) \in Locations(g) <=> l[2] \o <<i>> \in D
  <2> SUFFICES ASSUME NEW i PROVE Arg(l, i) \in Locations(g) <=> l[2] \o <<i>> \in D
    OBVIOUS
  <2>1. ASSUME Arg(l, i) \in Locations(g) PROVE l[2] \o <<i>> \in D
    <3>1. Arg(l, i)[2] \in DOMAIN g[Arg(l, i)[1]]
      BY <2>1, LocationIs
    <3> QED BY <3>1 DEF Arg
  <2>2. ASSUME l[2] \o <<i>> \in D PROVE Arg(l, i) \in Locations(g)
    BY <2>2, <1>1, IsLocation DEF Arg
  <2> QED BY <2>1, <2>2
<1>3. I \subseteq Nat
  <2> SUFFICES ASSUME NEW p \in D, NEW i \in ToSet(p) PROVE i \in Nat
    OBVIOUS
  <2>1. p \in Seq(Nat)
    BY DEF Position
  <2>2. PICK k \in DOMAIN p : i = p[k]
    BY DEF ToSet
  <2>3. k \in 1 .. Len(p)
    BY <2>1
  <2> QED BY <2>1, <2>2, <2>3, ElementOfSeq
<1>4. ASSUME NEW i \in Nat, l[2] \o <<i>> \in D PROVE i \in I
  <2> DEFINE q == l[2] \o <<i>>
             m == Len(l[2])
  <2>1. m \in Nat /\ l[2] \in Seq(Nat) /\ <<i>> \in Seq(Nat) /\ Len(<<i>>) = 1
    BY <1>1, LenProperties DEF Position
  <2>2. q \in Seq(Nat) /\ Len(q) = m + 1 /\ q[m + 1] = <<i>>[(m + 1) - m]
    <3>1. m + 1 \in 1 .. m + 1 /\ ~ (m + 1 <= m)
      BY <2>1
    <3> QED BY <3>1, <2>1, ConcatProperties
  <2>3. q[m + 1] = i /\ m + 1 \in DOMAIN q
    <3>1. (m + 1) - m = 1 /\ m + 1 \in 1 .. m + 1
      BY <2>1
    <3> HIDE DEF q, m
    <3> QED BY <3>1, <2>2
  <2>4. i \in ToSet(q)
    BY <2>3 DEF ToSet
  <2> QED BY <2>4, <1>4
<1>5. Args(g, l) = {i \in I : Arg(l, i) \in Locations(g)}
  BY DEF Args
<1> HIDE DEF I
<1> QED BY <1>2, <1>3, <1>4, <1>5

\* What is next to a place that is no constructor.
Abbr(g) == [l \in Locations(g) |-> Abbreviation(g, l)]

LEMMA AbbrOn ==
  ASSUME NEW g, TypesOK(g)
  PROVE  RelationOn(Abbr(g), Locations(g))
<1>1. ASSUME NEW l \in Locations(g) PROVE Abbreviation(g, l) \in SUBSET Locations(g)
  <2>1. l[1] \in DOMAIN g /\ l[2] \in DOMAIN g[l[1]]
    BY LocationIs
  <2>2. DOMAIN g[l[1]] \subseteq Position
    BY <2>1 DEF TypesOK
  <2>3. CASE NodeAt(g, l).op \in {"Symbol", "Alias", "TokenType"}
    <3>1. l[2] \in Open(g[l[1]], {})
      BY <2>1 DEF Open
    <3>2. NodeAt(g, l).name \in Uses(g[l[1]], Ref3, {})
      BY <3>1, <2>3, UsesIs DEF NodeAt, Ref3
    <3>3. NodeAt(g, l).name \in DOMAIN g
      BY <3>2, <2>1 DEF TypesOK
    <3>4. <<NodeAt(g, l).name, <<>>>> \in Locations(g)
      BY <3>3, IsLocation DEF TypesOK
    <3> QED BY <3>4, <2>3 DEF Abbreviation
  <2>4. CASE NodeAt(g, l).op \notin {"Symbol", "Alias", "TokenType"}
    <3>1. Args(g, l) = {1} => Arg(l, 1) \in Locations(g)
      BY <2>2, ArgsIs
    <3> QED BY <3>1, <2>4 DEF Abbreviation
  <2> QED BY <2>3, <2>4
<1>2. Abbr(g) \in [Locations(g) -> SUBSET Locations(g)]
  BY <1>1 DEF Abbr
<1> QED BY <1>2, LocationsFinite DEF RelationOn

\* The longest of some positions.
LEMMA Longest ==
  ASSUME NEW P, P # {}, IsFiniteSet(P), P \subseteq Position
  PROVE  \E p \in P : p \o <<1>> \notin P
<1> DEFINE f == [p \in P |-> Len(p)]
           longer(p) == {q \in P : Len(q) > Len(p)}
           h == [p \in P |-> Cardinality(longer(p))]
<1>1. ASSUME NEW p \in P PROVE Len(p) \in Nat /\ IsFiniteSet(longer(p)) /\ Cardinality(longer(p)) \in Nat
  <2>1. Len(p) \in Nat
    BY LenProperties DEF Position
  <2>2. longer(p) \in SUBSET P
    OBVIOUS
  <2> QED BY <2>1, <2>2, FS_Subset, FS_CardinalityType
<1>2. h \in [P -> Nat]
  <2> HIDE DEF longer
  <2> QED BY <1>1
<1>3. PICK p \in P : \A q \in P : h[p] <= h[q]
  <2> HIDE DEF h
  <2> QED BY <1>2, Smallest
<1>4. ASSUME p \o << 1 >> \in P PROVE FALSE
  <2> DEFINE q == p \o <<1>>
  <2>1. p \in Seq(Nat) /\ <<1>> \in Seq(Nat) /\ Len(<<1>>) = 1
    BY DEF Position
  <2>2. Len(q) = Len(p) + 1 /\ Len(p) \in Nat
    BY <2>1, ConcatProperties, LenProperties
  <2>3. longer(q) \in SUBSET longer(p)
    <3> HIDE DEF q
    <3>1. \A r \in P : Len(r) \in Nat
      BY <1>1
    <3> QED BY <2>2, <3>1
  <2>4. q \in longer(p) /\ q \notin longer(q)
    <3> HIDE DEF q
    <3>1. q \in P
      BY <1>4 DEF q
    <3> QED BY <2>2, <3>1
  <2>5. Cardinality(longer(q)) <= Cardinality(longer(p)) /\ Cardinality(longer(q)) # Cardinality(longer(p))
    <3> HIDE DEF longer
    <3> QED BY <1>1, <2>3, <2>4, FS_Subset
  <2>6. h[p] <= h[q] /\ h[p] = Cardinality(longer(p)) /\ h[q] = Cardinality(longer(q))
    BY <1>3, <1>4
  <2>7. Cardinality(longer(p)) \in Nat /\ Cardinality(longer(q)) \in Nat
    BY <1>1, <1>4
  <2> HIDE DEF h, longer, q
  <2> QED BY <2>5, <2>6, <2>7
<1> QED BY <1>4

LEMMA LeafAbove ==
  ASSUME NEW p \in Position, NEW i \in Nat, NEW q \in Position, IsStrictPrefix(q, p \o <<i>>)
  PROVE  q = p \/ IsStrictPrefix(q, p)
<1> DEFINE j == <<i>>
<1>1. j \in Position /\ Len(j) = 1
  BY DEF Position
<1> HIDE DEF j
<1>2. IsStrictPrefix(q, p \o j)
  BY DEF j
<1>3. IsStrictPrefix(q, p) \/ \E t \in Position : q = p \o t /\ IsStrictPrefix(t, j)
  BY <1>1, <1>2, AboveConcat
<1>4. ASSUME NEW t \in Position, q = p \o t, IsStrictPrefix(t, j) PROVE q = p
  <2>1. Len(t) < 1 /\ Len(t) \in Nat
    BY <1>1, <1>4, PrefixIs, LenProperties DEF Position
  <2>2. t = <<>>
    BY <2>1, EmptySeq DEF Position
  <2> QED BY <2>2, <1>4, ConcatEmptySeq DEF Position
<1> QED BY <1>3, <1>4

\* A step from a place leads to a rule or to the only argument of a tuple.
LEMMA AbbrSteps ==
  ASSUME NEW g, NEW l, NEW k \in Abbreviation(g, l)
  PROVE  /\ Abbreviation(g, l) = {k}
         /\ \/ NodeAt(g, l).op \in Ref3 /\ k = <<NodeAt(g, l).name, <<>>>>
            \/ NodeAt(g, l).op = "Seq" /\ k = Arg(l, 1)
BY DEF Abbreviation, Ref3

\* No type is written as an abbreviation without end: the longest of the
\* places in a rule that one passes leads to another rule.
LEMMA AbbrAcyclic ==
  ASSUME NEW g, TypesOK(g)
  PROVE  Acyclic(Abbr(g))
<1> DEFINE AC == {"Alias", "Choice"}
           uses == [n \in DOMAIN g |-> Uses(g[n], Ref3, AC)]
<1> SUFFICES ASSUME NEW S \in SUBSET Locations(g), Endless(Abbr(g), S), S # {} PROVE FALSE
  BY DEF Acyclic, Abbr
<1>1. /\ Acyclic(uses)
      /\ \A n \in DOMAIN g : /\ IsFiniteSet(DOMAIN g[n]) /\ DOMAIN g[n] \subseteq Position /\ <<>> \in DOMAIN g[n]
  BY DEF TypesOK
<1>2. ASSUME NEW l \in S
      PROVE  \/ NodeAt(g, l).op \in Ref3 /\ <<NodeAt(g, l).name, <<>>>> \in S
             \/ NodeAt(g, l).op = "Seq" /\ Arg(l, 1) \in S
  <2>1. PICK k \in Abbr(g)[l] : k \in S
    BY DEF Endless
  <2>2. k \in Abbreviation(g, l)
    BY <2>1 DEF Abbr
  <2> QED BY <2>1, <2>2, AbbrSteps
<1>3. ASSUME NEW n \in DOMAIN g, NEW P, P # {}, P \subseteq DOMAIN g[n], \A p \in P : <<n, p>> \in S,
             \A p \in P : g[n][p].op = "Seq" /\ <<n, p \o << 1 >>>> \in S => p \o << 1 >> \in P
      PROVE  \E p \in P : g[n][p].op \in Ref3 /\ <<g[n][p].name, <<>>>> \in S
  <2>1. IsFiniteSet(P) /\ P \subseteq Position
    <3>1. P \in SUBSET DOMAIN g[n]
      BY <1>3
    <3> QED BY <3>1, <1>1, FS_Subset
  <2>2. PICK p \in P : p \o <<1>> \notin P
    BY <2>1, <1>3, Longest
  <2> DEFINE l == <<n, p>>
  <2>3. l \in S /\ NodeAt(g, l) = g[n][p] /\ Arg(l, 1) = <<n, p \o <<1>>>>
    BY <1>3 DEF NodeAt, Arg
  <2> HIDE DEF l
  <2>4. (g[n][p].op \in Ref3 /\ <<g[n][p].name, <<>>>> \in S) \/ (g[n][p].op = "Seq" /\ <<n, p \o <<1>>>> \in S)
    BY <2>3, <1>2
  <2> QED BY <2>2, <2>4, <1>3
<1> DEFINE T == {n \in DOMAIN g : <<n, <<>>>> \in S}
<1>4. ASSUME NEW m, <<m, <<>>>> \in S PROVE m \in T
  <2>1. <<m, <<>>>>[1] \in DOMAIN g
    BY <1>4, LocationIs
  <2> QED BY <2>1, <1>4
<1>5. T # {}
  <2>1. PICK l \in S : TRUE
    OBVIOUS
  <2> DEFINE n == l[1]
             P == {p \in DOMAIN g[n] : <<n, p>> \in S}
  <2>2. l = <<n, l[2]>> /\ n \in DOMAIN g /\ l[2] \in DOMAIN g[n]
    BY LocationIs
  <2>3. P # {}
    BY <2>2
  <2>4. ASSUME NEW p \in P, <<n, p \o << 1 >>>> \in S PROVE p \o << 1 >> \in P
    <3>1. <<n, p \o <<1>>>>[2] \in DOMAIN g[<<n, p \o <<1>>>>[1]]
      BY <2>4, LocationIs
    <3>2. p \o <<1>> \in DOMAIN g[n]
      BY <3>1
    <3> QED BY <3>2, <2>4
  <2>5. P \subseteq DOMAIN g[n] /\ \A p \in P : <<n, p>> \in S
    OBVIOUS
  <2> HIDE DEF P, n, T
  <2>6. \E p \in P : g[n][p].op \in Ref3 /\ <<g[n][p].name, <<>>>> \in S
    BY <2>2, <2>3, <2>4, <2>5, <1>3
  <2> QED BY <2>6, <1>4
<1>6. ASSUME NEW n \in T PROVE uses[n] \cap T # {}
  <2> DEFINE P == {p \in Open(g[n], AC) : <<n, p>> \in S}
  <2>1. n \in DOMAIN g /\ DOMAIN g[n] \subseteq Position /\ <<>> \in DOMAIN g[n] /\ <<n, <<>>>> \in S
    BY <1>1
  <2>2. <<>> \in P
    <3>1. \A q \in DOMAIN g[n] : ~ IsStrictPrefix(q, <<>>)
      BY <2>1, EmptyIsPrefix
    <3> QED BY <3>1, <2>1 DEF Open
  <2>3. ASSUME NEW p \in P, g[n][p].op = "Seq", <<n, p \o << 1 >>>> \in S PROVE p \o << 1 >> \in P
    <3>1. <<n, p \o <<1>>>>[2] \in DOMAIN g[<<n, p \o <<1>>>>[1]]
      BY <2>3, LocationIs
    <3>2. p \o <<1>> \in DOMAIN g[n] /\ p \in DOMAIN g[n] /\ p \in Position
      BY <3>1, <2>1 DEF Open
    <3>3. ASSUME NEW q \in DOMAIN g[n], IsStrictPrefix(q, p \o << 1 >>) PROVE g[n][q].op \notin AC
      <4>1. q = p \/ IsStrictPrefix(q, p)
        BY <3>2, <3>3, <2>1, LeafAbove
      <4> QED BY <4>1, <2>3 DEF Open
    <3>4. p \o <<1>> \in Open(g[n], AC)
      BY <3>2, <3>3 DEF Open
    <3> QED BY <3>4, <2>3
  <2>4. P \subseteq DOMAIN g[n] /\ P \subseteq Open(g[n], AC) /\ \A p \in P : <<n, p>> \in S
    BY DEF Open
  <2> HIDE DEF P, T
  <2>5. PICK p \in P : g[n][p].op \in Ref3 /\ <<g[n][p].name, <<>>>> \in S
    BY <2>1, <2>2, <2>3, <2>4, <1>3
  <2>6. g[n][p].name \in Uses(g[n], Ref3, AC)
    BY <2>4, <2>5, UsesIs
  <2>7. g[n][p].name \in uses[n]
    BY <2>1, <2>6
  <2> QED BY <2>5, <2>7, <1>4
<1>7. T \in SUBSET DOMAIN uses /\ Endless(uses, T)
  BY <1>6 DEF Endless
<1> HIDE DEF T, uses
<1> QED BY <1>1, <1>5, <1>7 DEF Acyclic

\* A type is constructed in one place, the same for an abbreviation and what
\* it stands for.
LEMMA ExpandIs ==
  ASSUME NEW g, TypesOK(g), NEW l \in Locations(g)
  PROVE  /\ Expand(g, l) \in Locations(g)
         /\ Abbreviation(g, Expand(g, l)) = {}
         /\ Abbreviation(g, l) = {} => Expand(g, l) = l
         /\ \A k \in Abbreviation(g, l) : k \in Locations(g) /\ Expand(g, k) = Expand(g, l)
<1> DEFINE next == Abbr(g)
           D == Locations(g)
           S(k) == Reach(next, {k})
           ends(k) == {m \in S(k) : next[m] = {}}
<1>1. RelationOn(next, D) /\ Acyclic(next) /\ DOMAIN next = D /\ \A k \in D : next[k] = Abbreviation(g, k)
  BY AbbrOn, AbbrAcyclic DEF Abbr
<1>2. \A k : Expand(g, k) = CHOOSE m \in ends(k) : TRUE
  BY DEF Expand, Abbr
<1> HIDE DEF next, D
<1>3. \A k \in D : next[k] \in SUBSET D
  BY <1>1 DEF RelationOn
<1>4. ASSUME NEW k \in D PROVE k \in S(k) /\ S(k) \in SUBSET D /\ Closed(next, S(k)) /\ ends(k) # {}
  <2>1. {k} \in SUBSET D
    OBVIOUS
  <2>2. {k} \subseteq S(k) /\ S(k) \subseteq D /\ Closed(next, S(k))
    BY <2>1, <1>1, Reached
  <2>3. ASSUME ends(k) = {} PROVE FALSE
    <3>1. \A m \in S(k) : next[m] # {} /\ next[m] \subseteq S(k)
      BY <2>2, <2>3 DEF Closed
    <3> HIDE DEF S
    <3>2. Endless(next, S(k))
      BY <3>1 DEF Endless
    <3> QED BY <2>2, <3>2, <1>1 DEF Acyclic
  <2> QED BY <2>2, <2>3
<1>5. l \in D
  BY DEF D
<1>6. Expand(g, l) \in ends(l)
  <2> HIDE DEF ends
  <2> QED BY <1>2, <1>4, <1>5
<1>7. Expand(g, l) \in D /\ Abbreviation(g, Expand(g, l)) = {}
  BY <1>1, <1>4, <1>5, <1>6
<1>8. ASSUME Abbreviation(g, l) = {} PROVE Expand(g, l) = l
  <2>1. {l} \in SUBSET D /\ {l} \subseteq {l} /\ Closed(next, {l} \cap D)
    BY <1>1, <1>5, <1>8 DEF Closed
  <2>2. S(l) \subseteq {l}
    BY <2>1, <1>1, ReachedLeast
  <2> QED BY <2>2, <1>6
<1>9. ASSUME NEW k \in Abbreviation(g, l) PROVE k \in D /\ Expand(g, k) = Expand(g, l)
  <2>1. next[l] = {k} /\ k \in D
    <3>1. Abbreviation(g, l) = {k}
      BY AbbrSteps
    <3> QED BY <3>1, <1>1, <1>3, <1>5
  <2>2. S(l) \subseteq {l} \cup S(k)
    <3> DEFINE R == {l} \cup S(k)
    <3>1. k \in S(k) /\ S(k) \in SUBSET D /\ Closed(next, S(k))
      BY <2>1, <1>4
    <3>2. {l} \in SUBSET D /\ {l} \subseteq R /\ Closed(next, R \cap D)
      <4> HIDE DEF S
      <4> QED BY <3>1, <2>1, <1>5 DEF Closed
    <3> HIDE DEF R
    <3>3. S(l) \subseteq R
      BY <3>2, <1>1, ReachedLeast
    <3> QED BY <3>3 DEF R
  <2>3. S(k) \subseteq S(l)
    <3>1. l \in S(l) /\ S(l) \in SUBSET D /\ Closed(next, S(l))
      BY <1>4, <1>5
    <3>2. k \in S(l) /\ S(l) \cap D = S(l)
      <4> HIDE DEF S
      <4> QED BY <3>1, <2>1 DEF Closed
    <3>3. {k} \in SUBSET D /\ {k} \subseteq S(l) /\ Closed(next, S(l) \cap D)
      <4> HIDE DEF S
      <4> QED BY <3>1, <3>2, <2>1
    <3> DEFINE R == S(l)
    <3> HIDE DEF R
    <3>4. S(k) \subseteq R
      BY <3>3, <1>1, ReachedLeast DEF R
    <3> QED BY <3>4 DEF R
  <2>4. ends(l) = ends(k)
    <3> HIDE DEF S
    <3> QED BY <2>1, <2>2, <2>3
  <2> HIDE DEF ends
  <2> QED BY <2>1, <2>4, <1>2
<1> QED BY <1>7, <1>8, <1>9 DEF D

\* Types that are constructed alike, with types under their constructors that
\* are related.
Match(g, h, R, a, b) ==
  /\ Constructor(g, a) = Constructor(h, b)
  /\ \A i \in Args(g, a) : <<Arg(a, i), Arg(b, i)>> \in R

\* The rules of g have in h the types they have in g.
AlikeBy(g, h, R) ==
  /\ \A n \in DOMAIN g : <<<<n, <<>>>>, <<n, <<>>>>>> \in R
  /\ \A l \in Locations(g), m \in Locations(h) : <<l, m>> \in R => Match(g, h, R, Expand(g, l), Expand(h, m))

Alike(g, h) == \E R \in SUBSET (Locations(g) \X Locations(h)) : AlikeBy(g, h, R)

LEMMA ArgPlace ==
  ASSUME NEW g, TypesOK(g), NEW l \in Locations(g), NEW i \in Args(g, l)
  PROVE  Arg(l, i) \in Locations(g)
<1>1. DOMAIN g[l[1]] \subseteq Position
  BY LocationIs DEF TypesOK
<1> QED BY <1>1, ArgsIs

LEMMA AlikeSelf ==
  ASSUME NEW g, TypesOK(g)
  PROVE  Alike(g, g)
<1> DEFINE L == Locations(g)
           R == {<<l, l>> : l \in L}
<1>1. ASSUME NEW n \in DOMAIN g PROVE <<<<n, <<>>>>, <<n, <<>>>>>> \in R
  <2>1. <<n, <<>>>> \in L
    BY IsLocation DEF TypesOK
  <2> HIDE DEF L
  <2> QED BY <2>1
<1>2. ASSUME NEW l \in L PROVE Match(g, g, R, Expand(g, l), Expand(g, l))
  <2>1. Expand(g, l) \in L
    BY ExpandIs
  <2>2. \A i \in Args(g, Expand(g, l)) : Arg(Expand(g, l), i) \in L
    BY <2>1, ArgPlace
  <2> HIDE DEF L
  <2> QED BY <2>2 DEF Match
<1>3. \A l \in L, m \in L : <<l, m>> \in R => l = m
  OBVIOUS
<1>4. R \in SUBSET (L \X L)
  OBVIOUS
<1> HIDE DEF R
<1>5. AlikeBy(g, g, R)
  BY <1>1, <1>2, <1>3 DEF AlikeBy
<1> QED BY <1>4, <1>5 DEF Alike

LEMMA AlikeTrans ==
  ASSUME NEW f, NEW g, NEW h, TypesOK(f), TypesOK(g), Alike(f, g), Alike(g, h)
  PROVE  Alike(f, h)
<1>1. PICK R \in SUBSET (Locations(f) \X Locations(g)) : AlikeBy(f, g, R)
  BY DEF Alike
<1>2. PICK T \in SUBSET (Locations(g) \X Locations(h)) : AlikeBy(g, h, T)
  BY DEF Alike
<1> DEFINE U == {o \in Locations(f) \X Locations(h) :
                   \E k \in Locations(g) : <<o[1], k>> \in R /\ <<k, o[2]>> \in T}
<1>3. ASSUME NEW l, NEW k, NEW m, <<l, k>> \in R, <<k, m>> \in T PROVE <<l, m>> \in U
  <2>1. <<l, k>> \in Locations(f) \X Locations(g) /\ <<k, m>> \in Locations(g) \X Locations(h)
    BY <1>1, <1>2, <1>3
  <2> QED BY <2>1, <1>3
<1>4. ASSUME NEW n \in DOMAIN f PROVE <<<<n, <<>>>>, <<n, <<>>>>>> \in U
  <2> DEFINE l == <<n, <<>>>>
  <2>1. <<l, l>> \in R
    BY <1>1 DEF AlikeBy
  <2>2. n \in DOMAIN g
    <3>1. l \in Locations(g) /\ l[1] = n
      BY <2>1, <1>1
    <3> QED BY <3>1, LocationIs
  <2>3. <<l, l>> \in T
    BY <2>2, <1>2 DEF AlikeBy
  <2> HIDE DEF l, U
  <2>4. <<l, l>> \in U
    BY <2>1, <2>3, <1>3
  <2> QED BY <2>4 DEF l
<1>5. ASSUME NEW l \in Locations(f), NEW m \in Locations(h), <<l, m>> \in U
      PROVE  Match(f, h, U, Expand(f, l), Expand(h, m))
  <2>1. PICK k \in Locations(g) : <<l, k>> \in R /\ <<k, m>> \in T
    BY <1>5
  <2> DEFINE a == Expand(f, l)
             b == Expand(g, k)
             c == Expand(h, m)
  <2>2. Match(f, g, R, a, b) /\ Match(g, h, T, b, c)
    BY <2>1, <1>1, <1>2 DEF AlikeBy
  <2> HIDE DEF a, b, c, U
  <2>3. /\ Constructor(f, a) = Constructor(g, b) /\ Constructor(g, b) = Constructor(h, c)
        /\ \A i \in Args(f, a) : <<Arg(a, i), Arg(b, i)>> \in R
        /\ \A i \in Args(g, b) : <<Arg(b, i), Arg(c, i)>> \in T
    BY <2>2 DEF Match
  <2>4. Args(f, a) = Args(g, b)
    <3>1. Constructor(f, a).args = Args(f, a) /\ Constructor(g, b).args = Args(g, b)
      BY DEF Constructor
    <3> QED BY <3>1, <2>3
  <2>5. Match(f, h, U, a, c)
    BY <2>3, <2>4, <1>3 DEF Match
  <2> QED BY <2>5 DEF a, c
<1>6. U \in SUBSET (Locations(f) \X Locations(h))
  OBVIOUS
<1> HIDE DEF U
<1>7. AlikeBy(f, h, U)
  BY <1>4, <1>5 DEF AlikeBy
<1> QED BY <1>6, <1>7 DEF Alike

\* That is what SameTypes says.
LEMMA AlikeTypes ==
  ASSUME TypesOK(parser), TypesOK(rules), Alike(parser, rules)
  PROVE  SameTypes
<1> DEFINE L == Locations(parser)
           M == Locations(rules)
           D == L \X M
           under(l, m) == {<<Arg(l, i), Arg(m, i)>> : i \in Args(parser, l) \cap Args(rules, m)}
           next  == [o \in D |-> under(Expand(parser, o[1]), Expand(rules, o[2]))]
           named == {<<<<n, <<>>>>, <<n, <<>>>>>> : n \in DOMAIN parser}
<1>1. PICK R \in SUBSET D : AlikeBy(parser, rules, R)
  BY DEF Alike
<1>2. ASSUME NEW o \in D
      PROVE  Expand(parser, o[1]) \in L /\ Expand(rules, o[2]) \in M /\ o = <<o[1], o[2]>> /\ next[o] \in SUBSET D
  <2>1. o[1] \in L /\ o[2] \in M /\ o = <<o[1], o[2]>>
    OBVIOUS
  <2>2. Expand(parser, o[1]) \in L /\ Expand(rules, o[2]) \in M
    BY <2>1, ExpandIs
  <2>3. /\ \A i \in Args(parser, Expand(parser, o[1])) : Arg(Expand(parser, o[1]), i) \in L
        /\ \A i \in Args(rules, Expand(rules, o[2])) : Arg(Expand(rules, o[2]), i) \in M
    BY <2>2, ArgPlace
  <2>4. under(Expand(parser, o[1]), Expand(rules, o[2])) \in SUBSET D
    <3> HIDE DEF L, M
    <3> QED BY <2>3
  <2> QED BY <2>1, <2>2, <2>4
<1>3. named \subseteq R /\ named \in SUBSET D
  <2>1. \A n \in DOMAIN parser : <<<<n, <<>>>>, <<n, <<>>>>>> \in R
    BY <1>1 DEF AlikeBy
  <2> HIDE DEF D
  <2> QED BY <2>1
<1>4. RelationOn(next, D)
  <2>1. IsFiniteSet(D)
    BY LocationsFinite, FS_Product
  <2>2. next \in [D -> SUBSET D]
    <3> HIDE DEF D, under
    <3> QED BY <1>2
  <2> QED BY <2>1, <2>2 DEF RelationOn
<1>5. ASSUME NEW o \in R PROVE Match(parser, rules, R, Expand(parser, o[1]), Expand(rules, o[2]))
  <2>1. o \in D /\ o[1] \in L /\ o[2] \in M /\ <<o[1], o[2]>> \in R
    BY <1>2
  <2> QED BY <2>1, <1>1 DEF AlikeBy
<1>6. Closed(next, R \cap D)
  <2> SUFFICES ASSUME NEW o \in R \cap D, NEW e \in next[o] PROVE e \in R \cap D
    BY DEF Closed
  <2> DEFINE a == Expand(parser, o[1])
             b == Expand(rules, o[2])
  <2>1. PICK i \in Args(parser, a) \cap Args(rules, b) : e = <<Arg(a, i), Arg(b, i)>>
    OBVIOUS
  <2>2. Match(parser, rules, R, a, b)
    BY <1>5
  <2> HIDE DEF a, b, D
  <2>3. e \in R
    BY <2>1, <2>2 DEF Match
  <2> QED BY <2>3
<1> HIDE DEF named, next, D
<1>7. Reach(next, named) \subseteq R
  BY <1>3, <1>4, <1>6, ReachedLeast
<1>8. \A o \in Reach(next, named) :
        Constructor(parser, Expand(parser, o[1])) = Constructor(rules, Expand(rules, o[2]))
  BY <1>5, <1>7 DEF Match
<1> QED BY <1>8 DEF SameTypes, next, named, D

\* It suffices to relate places to others of the same type, and to follow
\* abbreviations on one side: they end.
Up(g, h, R) ==
  {o \in Locations(g) \X Locations(h) :
     \E k \in Locations(g) : <<k, o[2]>> \in R /\ Expand(g, k) = Expand(g, o[1])}

Follows(g, h, R, l, m) ==
  \/ \E k \in Abbreviation(h, m) : <<l, k>> \in Up(g, h, R)
  \/ Abbreviation(h, m) = {} /\ Match(g, h, Up(g, h, R), Expand(g, l), m)

LEMMA UpIs ==
  ASSUME NEW g, NEW h, NEW R, NEW l \in Locations(g), NEW m \in Locations(h), NEW k \in Locations(g)
  PROVE  /\ <<k, m>> \in R /\ Expand(g, k) = Expand(g, l) => <<l, m>> \in Up(g, h, R)
         /\ <<k, m>> \in Up(g, h, R) /\ Expand(g, k) = Expand(g, l) => <<l, m>> \in Up(g, h, R)
BY DEF Up

LEMMA Upto ==
  ASSUME NEW g, NEW h, TypesOK(g), TypesOK(h), NEW R,
         \A n \in DOMAIN g : n \in DOMAIN h /\ <<<<n, <<>>>>, <<n, <<>>>>>> \in R,
         \A l \in Locations(g), m \in Locations(h) : <<l, m>> \in R => Follows(g, h, R, l, m)
  PROVE  Alike(g, h)
<1> DEFINE L == Locations(g)
           M == Locations(h)
           U == Up(g, h, R)
           bad(l, m) == <<l, m>> \in U /\ ~ Match(g, h, U, Expand(g, l), Expand(h, m))
           B == {m \in M : \E l \in L : bad(l, m)}
<1>1. ASSUME NEW n \in DOMAIN g PROVE <<<<n, <<>>>>, <<n, <<>>>>>> \in U
  <2> DEFINE l == <<n, <<>>>>
  <2>1. l \in L /\ l \in M
    BY IsLocation DEF TypesOK
  <2>2. <<l, l>> \in R
    OBVIOUS
  <2> HIDE DEF l
  <2>3. <<l, l>> \in U
    BY <2>1, <2>2, UpIs
  <2> QED BY <2>3 DEF l
<1>2. ASSUME NEW m \in B PROVE Abbr(h)[m] \cap B # {}
  <2>1. PICK l \in L : bad(l, m)
    OBVIOUS
  <2>2. m \in M
    OBVIOUS
  <2>3. PICK k \in L : <<k, m>> \in R /\ Expand(g, k) = Expand(g, l)
    BY <2>1 DEF Up
  <2>4. Follows(g, h, R, k, m)
    BY <2>2, <2>3
  <2>5. CASE \E j \in Abbreviation(h, m) : <<k, j>> \in U
    <3>1. PICK j \in Abbreviation(h, m) : <<k, j>> \in U
      BY <2>5
    <3>2. j \in M /\ Expand(h, j) = Expand(h, m)
      BY <2>2, <3>1, ExpandIs
    <3>3. ~ Match(g, h, U, Expand(g, k), Expand(h, j))
      BY <2>1, <2>3, <3>2
    <3>4. j \in B
      BY <3>1, <3>2, <3>3
    <3> QED BY <2>2, <3>1, <3>4 DEF Abbr
  <2>6. CASE Abbreviation(h, m) = {} /\ Match(g, h, U, Expand(g, k), m)
    <3>1. Expand(h, m) = m
      BY <2>2, <2>6, ExpandIs
    <3> QED BY <3>1, <2>1, <2>3, <2>6
  <2> QED BY <2>4, <2>5, <2>6 DEF Follows
<1>3. B = {}
  <2>1. B \in SUBSET DOMAIN Abbr(h)
    BY DEF Abbr
  <2> HIDE DEF B
  <2> QED BY <2>1, <1>2, AbbrAcyclic DEF Acyclic, Endless
<1>4. U \in SUBSET (L \X M)
  BY DEF Up
<1>5. \A l \in L, m \in M : <<l, m>> \in U => Match(g, h, U, Expand(g, l), Expand(h, m))
  BY <1>3
<1> HIDE DEF U, B
<1>6. AlikeBy(g, h, U)
  BY <1>1, <1>5 DEF AlikeBy
<1> QED BY <1>4, <1>6 DEF Alike

\* Places with the same node, and with arguments and names that are related.
LEMMA Lockstep ==
  ASSUME NEW g, NEW h, TypesOK(g), TypesOK(h), NEW R,
         \A n \in DOMAIN g : n \in DOMAIN h /\ <<<<n, <<>>>>, <<n, <<>>>>>> \in R,
         NEW l \in Locations(g), NEW m \in Locations(h),
         NodeAt(g, l) = NodeAt(h, m), Args(g, l) = Args(h, m),
         \A i \in Args(g, l) : <<Arg(l, i), Arg(m, i)>> \in Up(g, h, R)
  PROVE  Follows(g, h, R, l, m)
<1> DEFINE node == NodeAt(g, l)
           U == Up(g, h, R)
<1>1. CASE node.op \in Ref3
  <2> DEFINE k == <<node.name, <<>>>>
  <2>1. Abbreviation(g, l) = {k} /\ Abbreviation(h, m) = {k}
    BY <1>1 DEF Abbreviation, Ref3
  <2> HIDE DEF k
  <2>2. k \in Locations(g) /\ Expand(g, k) = Expand(g, l) /\ k \in Locations(h)
    BY <2>1, ExpandIs
  <2>3. <<k, k>> \in R
    <3>1. k[1] \in DOMAIN g /\ k = <<k[1], <<>>>>
      <4>1. k[1] \in DOMAIN g
        BY <2>2, LocationIs
      <4> QED BY <4>1 DEF k
    <3> QED BY <3>1
  <2>4. <<l, k>> \in U
    BY <2>2, <2>3, UpIs
  <2> QED BY <2>1, <2>4 DEF Follows
<1>2. CASE node.op \notin Ref3 /\ node.op = "Seq" /\ Args(g, l) = {1}
  <2>1. Abbreviation(g, l) = {Arg(l, 1)} /\ Abbreviation(h, m) = {Arg(m, 1)}
    BY <1>2 DEF Abbreviation, Ref3
  <2>2. Arg(l, 1) \in Locations(g) /\ Expand(g, Arg(l, 1)) = Expand(g, l) /\ Arg(m, 1) \in Locations(h)
    BY <2>1, ExpandIs
  <2>3. <<Arg(l, 1), Arg(m, 1)>> \in U
    BY <1>2
  <2>4. <<l, Arg(m, 1)>> \in U
    BY <2>2, <2>3, UpIs
  <2> QED BY <2>1, <2>4 DEF Follows
<1>3. CASE node.op \notin Ref3 /\ ~ (node.op = "Seq" /\ Args(g, l) = {1})
  <2>1. Abbreviation(g, l) = {} /\ Abbreviation(h, m) = {}
    BY <1>3 DEF Abbreviation, Ref3
  <2>2. Expand(g, l) = l
    BY <2>1, ExpandIs
  <2>3. Constructor(g, l) = Constructor(h, m)
    BY DEF Constructor
  <2> QED BY <2>1, <2>2, <2>3 DEF Follows, Match
<1> QED BY <1>1, <1>2, <1>3

\* Before Inline there are no types of tokens, and a grammar without cycles
\* has places for types.
LEMMA OnlyRefs ==
  ASSUME NEW x, IsBody(x), NEW stop
  PROVE  Uses(x, Ref3, stop) = Uses(x, Ref, stop)
<1>1. \A p \in DOMAIN x : x[p].op \in Operators
  BY DEF IsBody
<1>2. "TokenType" \notin Operators
  BY DEF Operators, Constructors
<1>3. {p \in Open(x, stop) : x[p].op \in Ref3} = {p \in Open(x, stop) : x[p].op \in Ref}
  BY <1>1, <1>2 DEF Open, Ref, Ref3
<1> QED BY <1>3 DEF Uses

LEMMA GrammarTypes ==
  ASSUME NEW g, IsGrammar(g), NoCycles(g)
  PROVE  TypesOK(g)
<1>1. \A n \in DOMAIN g : IsBody(g[n]) /\ Uses(g[n], Ref, {}) \subseteq DOMAIN g
  BY DEF IsGrammar, Ref
<1>2. \A n \in DOMAIN g : /\ IsFiniteSet(DOMAIN g[n]) /\ DOMAIN g[n] \subseteq Position /\ <<>> \in DOMAIN g[n]
                          /\ Uses(g[n], Ref3, {}) \subseteq DOMAIN g
  BY <1>1, OnlyRefs DEF IsBody, Position
<1>3. [n \in DOMAIN g |-> Uses(g[n], Ref3, {"Alias", "Choice"})] = Abbreviates(g)
  BY <1>1, OnlyRefs DEF Abbreviates, Unguarded, Ref
<1>4. Acyclic([n \in DOMAIN g |-> Uses(g[n], Ref3, {"Alias", "Choice"})])
  BY <1>3 DEF NoCycles
<1> QED BY <1>2, <1>4 DEF TypesOK, IsGrammar

\* The body at a place.
SubAt(g, l) == Sub(g[l[1]], l[2])

LEMMA SubSub ==
  ASSUME NEW x, DOMAIN x \subseteq Position, NEW p \in Position, NEW q \in Position
  PROVE  Sub(Sub(x, p), q) = Sub(x, p \o q)
<1> DEFINE y == Sub(x, p)
<1>1. DOMAIN y = {r \in Position : p \o r \in DOMAIN x} /\ \A r \in DOMAIN y : y[r] = x[p \o r]
  BY SubIs
<1> HIDE DEF y
<1>2. Sub(y, q) = [r \in {r \in Position : q \o r \in DOMAIN y} |-> y[q \o r]]
  <2>1. DOMAIN y \subseteq Position
    BY <1>1
  <2> QED BY <2>1, SubIs
<1>3. Sub(x, p \o q) = [r \in {r \in Position : (p \o q) \o r \in DOMAIN x} |-> x[(p \o q) \o r]]
  <2>1. p \o q \in Position
    BY ConcatRest
  <2> QED BY <2>1, SubIs
<1>4. ASSUME NEW r \in Position
      PROVE  /\ (p \o q) \o r \in DOMAIN x <=> q \o r \in DOMAIN y
             /\ q \o r \in DOMAIN y => x[(p \o q) \o r] = y[q \o r]
  <2>1. q \o r \in Position
    BY ConcatRest
  <2>2. (p \o q) \o r = p \o (q \o r)
    BY ConcatAssociative DEF Position
  <2> QED BY <2>1, <2>2, <1>1
<1> DEFINE A == {r \in Position : q \o r \in DOMAIN y}
           B == {r \in Position : (p \o q) \o r \in DOMAIN x}
<1>5. A = B /\ \A r \in A : y[q \o r] = x[(p \o q) \o r]
  BY <1>4
<1>6. [r \in A |-> y[q \o r]] = [r \in B |-> x[(p \o q) \o r]]
  <2> HIDE DEF A, B
  <2> QED BY <1>5
<1> QED BY <1>2, <1>3, <1>6 DEF y

LEMMA SubAtIs ==
  ASSUME NEW g, NEW l \in Locations(g), DOMAIN g[l[1]] \subseteq Position
  PROVE  /\ <<>> \in DOMAIN SubAt(g, l) /\ SubAt(g, l)[<<>>] = NodeAt(g, l)
         /\ Args(g, l) = {i \in Nat : <<i>> \in DOMAIN SubAt(g, l)}
         /\ \A i \in Args(g, l) : SubAt(g, Arg(l, i)) = Sub(SubAt(g, l), <<i>>)
<1> DEFINE x == g[l[1]]
           p == l[2]
           y == SubAt(g, l)
<1>1. l[1] \in DOMAIN g /\ p \in DOMAIN x /\ p \in Position /\ DOMAIN x \subseteq Position
  BY LocationIs
<1>2. DOMAIN y = {q \in Position : p \o q \in DOMAIN x} /\ \A q \in DOMAIN y : y[q] = x[p \o q]
  BY <1>1, SubIs DEF SubAt
<1>3. <<>> \in DOMAIN y /\ y[<<>>] = NodeAt(g, l)
  <2>1. p \o <<>> = p /\ <<>> \in Position
    BY <1>1, ConcatEmptySeq, EmptyIsPrefix DEF Position
  <2> HIDE DEF y
  <2> QED BY <2>1, <1>1, <1>2 DEF NodeAt
<1>4. \A i \in Nat : <<i>> \in Position
  BY DEF Position
<1>5. Args(g, l) = {i \in Nat : <<i>> \in DOMAIN y}
  <2>1. Args(g, l) = {i \in Nat : p \o <<i>> \in DOMAIN x}
    BY ArgsIs
  <2> HIDE DEF y, x, p
  <2> QED BY <2>1, <1>2, <1>4
<1>6. ASSUME NEW i \in Args(g, l) PROVE SubAt(g, Arg(l, i)) = Sub(SubAt(g, l), <<i>>)
  <2>1. <<i>> \in Position
    BY <1>4, <1>5
  <2>2. Sub(Sub(x, p), <<i>>) = Sub(x, p \o <<i>>)
    BY <2>1, <1>1, SubSub
  <2>3. Arg(l, i)[1] = l[1] /\ Arg(l, i)[2] = p \o <<i>>
    BY DEF Arg
  <2> QED BY <2>2, <2>3 DEF SubAt
<1> QED BY <1>3, <1>5, <1>6

\* Deinline and Factorize keep the types: where a node is replaced by the name
\* of a rule, the rule has it as its body.
LEMMA FactoredAlike ==
  ASSUME NEW g, IsGrammar(g), NoCycles(g), NEW new, NEW fresh, NewRules(g, new, fresh), NEW last \in DOMAIN g
  PROVE  Alike(g, Factored(g, new, fresh, last))
<1> DEFINE E == Extended(g, new, fresh)
           N == Named(g, new, fresh, last)
           G == Factored(g, new, fresh, last)
<1>1. /\ DOMAIN G = DOMAIN E /\ \A n \in DOMAIN E : G[n] = replace_nodes(N, E[n])
      /\ DOMAIN g \subseteq DOMAIN E /\ \A n \in DOMAIN g : E[n] = g[n]
  <2>1. \A n \in DOMAIN g : E[n] = g[n]
    BY ExtendedIs
  <2> QED BY <2>1 DEF Factored, Extended
<1>2. \A n \in DOMAIN E : IsBody(E[n])
  BY ExtendedBodies
<1>3. \A x \in DOMAIN N : N[x] \in DOMAIN E /\ E[N[x]] = x
  BY NamedIs
<1>4. IsGrammar(G) /\ NoCycles(G)
  BY FactoredGrammar, FactoredAcyclic
<1>5. TypesOK(g) /\ TypesOK(G)
  BY <1>4, GrammarTypes
<1> HIDE DEF E, N, G
<1> DEFINE R == {o \in Locations(g) \X Locations(G) : SubAt(g, o[1]) = SubAt(E, o[2])}
           U == Up(g, G, R)
<1>6. ASSUME NEW n \in DOMAIN g PROVE n \in DOMAIN G /\ <<<<n, <<>>>>, <<n, <<>>>>>> \in R
  <2> DEFINE l == <<n, <<>>>>
  <2>1. n \in DOMAIN G /\ l \in Locations(g) /\ l \in Locations(G)
    BY <1>1, <1>5, IsLocation DEF TypesOK
  <2>2. SubAt(g, l) = SubAt(E, l)
    BY <1>1 DEF SubAt
  <2> HIDE DEF l
  <2>3. <<l, l>> \in R
    BY <2>1, <2>2
  <2> QED BY <2>1, <2>3 DEF l
<1>7. ASSUME NEW l \in Locations(g), NEW m \in Locations(G), <<l, m>> \in R PROVE Follows(g, G, R, l, m)
  <2> DEFINE x == E[m[1]]
             p == m[2]
             y == G[m[1]]
             P == FoundIn(N, x)
  <2>1. m[1] \in DOMAIN E /\ p \in DOMAIN y /\ y = replace_nodes(N, x) /\ IsBody(x)
    BY <1>1, <1>2, LocationIs
  <2>2. /\ DOMAIN y = {q \in DOMAIN x : \A r \in P : ~ IsStrictPrefix(r, q)}
        /\ \A q \in DOMAIN y : y[q] = IF q \in P THEN Node("Symbol", N[Sub(x, q)], <<>>) ELSE x[q]
    <3> DEFINE w == replace_nodes(N, x)
    <3>1. /\ DOMAIN w = {q \in DOMAIN x : \A r \in P : ~ IsStrictPrefix(r, q)}
          /\ \A q \in DOMAIN w : w[q] = IF q \in P THEN Node("Symbol", N[Sub(x, q)], <<>>) ELSE x[q]
      <4> HIDE DEF x
      <4> QED BY ReplaceIs
    <3>2. y = w
      BY <2>1
    <3> HIDE DEF w, x, y, P
    <3> QED BY <3>1, <3>2
  <2>3. m \in Locations(E) /\ DOMAIN x \subseteq Position /\ p \in DOMAIN x /\ p \in Position
    <3>1. p \in DOMAIN x /\ DOMAIN x \subseteq Position
      BY <2>1, <2>2 DEF IsBody, Position
    <3>2. <<m[1], p>> \in Locations(E) /\ m = <<m[1], p>>
      BY <3>1, <2>1, LocationIs, IsLocation
    <3> QED BY <3>1, <3>2
  <2>4. SubAt(g, l) = SubAt(E, m) /\ DOMAIN g[l[1]] \subseteq Position
    <3>1. DOMAIN g[l[1]] \subseteq Position
      BY <1>5, LocationIs DEF TypesOK
    <3> QED BY <3>1, <1>7
  <2>5. NodeAt(g, l) = NodeAt(E, m) /\ Args(g, l) = Args(E, m)
    <3>1. NodeAt(g, l) = SubAt(g, l)[<<>>] /\ Args(g, l) = {i \in Nat : <<i>> \in DOMAIN SubAt(g, l)}
      BY <2>4, SubAtIs
    <3>2. NodeAt(E, m) = SubAt(E, m)[<<>>] /\ Args(E, m) = {i \in Nat : <<i>> \in DOMAIN SubAt(E, m)}
      BY <2>3, SubAtIs
    <3> QED BY <3>1, <3>2, <2>4
  <2>6. CASE p \in P
    <3> DEFINE z == Sub(x, p)
               k == <<N[z], <<>>>>
    <3>1. NodeAt(G, m) = Node("Symbol", N[z], <<>>)
      BY <2>1, <2>2, <2>6 DEF NodeAt
    <3>2. Abbreviation(G, m) = {k}
      BY <3>1 DEF Abbreviation, Node
    <3>3. z \in DOMAIN N
      BY <2>6 DEF FoundIn
    <3>4. N[z] \in DOMAIN E /\ E[N[z]] = z
      BY <3>3, <1>3
    <3>5. k \in Locations(G)
      BY <3>2, <1>5, ExpandIs
    <3>6. SubAt(E, k) = SubAt(E, m)
      <4>1. <<>> \in Position /\ p \o <<>> = p
        BY <2>3, EmptyIsPrefix, ConcatEmptySeq DEF Position
      <4>2. Sub(Sub(x, p), <<>>) = Sub(x, p \o <<>>)
        <5> HIDE DEF x, p
        <5> QED BY <4>1, <2>3, SubSub
      <4>3. SubAt(E, k) = Sub(z, <<>>)
        BY <3>4 DEF SubAt
      <4> QED BY <4>1, <4>2, <4>3 DEF SubAt
    <3> HIDE DEF k
    <3>7. <<l, k>> \in R
      BY <3>5, <3>6, <2>4
    <3>8. <<l, k>> \in U
      <4> HIDE DEF R
      <4> QED BY <3>5, <3>7, UpIs
    <3> QED BY <3>2, <3>8 DEF Follows
  <2>7. CASE p \notin P
    <3>1. NodeAt(G, m) = NodeAt(E, m)
      BY <2>1, <2>2, <2>7 DEF NodeAt
    <3>2. DOMAIN y \subseteq Position
      BY <2>2, <2>3
    <3>3. Args(G, m) = {i \in Nat : p \o <<i>> \in DOMAIN y} /\ Args(E, m) = {i \in Nat : p \o <<i>> \in DOMAIN x}
      BY <2>3, <3>2, ArgsIs
    <3>4. ASSUME NEW i \in Nat, p \o <<i>> \in DOMAIN x PROVE p \o <<i>> \in DOMAIN y
      <4> SUFFICES ASSUME NEW r \in P, IsStrictPrefix(r, p \o <<i>>) PROVE FALSE
        BY <2>2, <3>4
      <4>1. r \in Position
        BY <2>3 DEF FoundIn, Open
      <4>2. r = p \/ IsStrictPrefix(r, p)
        BY <4>1, <2>3, LeafAbove
      <4> QED BY <4>2, <2>1, <2>2, <2>7
    <3>5. Args(G, m) = Args(E, m)
      BY <3>3, <3>4, <2>2
    <3>6. ASSUME NEW i \in Args(g, l) PROVE <<Arg(l, i), Arg(m, i)>> \in U
      <4>1. Arg(l, i) \in Locations(g) /\ Arg(m, i) \in Locations(G)
        BY <1>5, <2>5, <3>5, ArgPlace
      <4>2. SubAt(g, Arg(l, i)) = SubAt(E, Arg(m, i))
        <5>1. SubAt(g, Arg(l, i)) = Sub(SubAt(g, l), <<i>>)
          BY <2>4, SubAtIs
        <5>2. SubAt(E, Arg(m, i)) = Sub(SubAt(E, m), <<i>>)
          BY <2>3, <2>5, SubAtIs
        <5> QED BY <5>1, <5>2, <2>4
      <4>3. <<Arg(l, i), Arg(m, i)>> \in R
        BY <4>1, <4>2
      <4> HIDE DEF R
      <4> QED BY <4>1, <4>3, UpIs
    <3> HIDE DEF R
    <3> QED BY <3>1, <3>5, <3>6, <2>5, <1>5, <1>6, Lockstep
  <2> QED BY <2>6, <2>7
<1> HIDE DEF R
<1>8. Alike(g, G)
  BY <1>5, <1>6, <1>7, Upto
<1> QED BY <1>8 DEF G

LEMMA ConcatStrict ==
  ASSUME NEW p \in Position, NEW t \in Position, t # <<>>
  PROVE  IsStrictPrefix(p, p \o t)
<1>1. IsPrefix(p, p \o t)
  BY ConcatRest
<1>2. p \o t # p
  BY ConcatEqualIffEmpty DEF Position
<1> QED BY <1>1, <1>2 DEF IsStrictPrefix

LEMMA NumberIs ==
  ASSUME NEW i \in Nat
  PROVE  <<i>> \in Position /\ <<i>> # <<>>
BY DEF Position

LEMMA LeafArgs ==
  ASSUME NEW g, NEW l \in Locations(g), IsBody(g[l[1]]), NodeAt(g, l).op \notin Constructors \cup {"Alias"}
  PROVE  Args(g, l) = {}
<1> DEFINE x == g[l[1]]
           p == l[2]
<1>1. p \in DOMAIN x /\ DOMAIN x \subseteq Position /\ p \in Position
  BY LocationIs DEF IsBody, Position
<1>2. \A q, r \in DOMAIN x : IsStrictPrefix(q, r) => x[q].op \in Constructors \cup {"Alias"}
  BY DEF IsBody
<1>3. Args(g, l) = {i \in Nat : p \o <<i>> \in DOMAIN x}
  BY <1>1, ArgsIs
<1>4. ASSUME NEW i \in Nat, p \o <<i>> \in DOMAIN x PROVE FALSE
  <2>1. IsStrictPrefix(p, p \o <<i>>)
    <3> HIDE DEF p
    <3> QED BY <1>1, NumberIs, ConcatStrict
  <2> HIDE DEF x, p
  <2>2. x[p].op \in Constructors \cup {"Alias"}
    BY <2>1, <1>1, <1>2, <1>4
  <2> QED BY <2>2 DEF NodeAt, x, p
<1> QED BY <1>3, <1>4

\* A name has the type of the rule it leads to.
LEMMA LeadsType ==
  ASSUME IsGrammar(rules), NoCycles(rules), NEW n \in DOMAIN rules
  PROVE  /\ resolve(rules)[n] \in DOMAIN rules
         /\ Expand(rules, <<resolve(rules)[n], <<>>>>) = Expand(rules, <<n, <<>>>>)
<1> DEFINE at(k) == <<k, <<>>>>
           R == {k \in DOMAIN rules : Expand(rules, at(k)) = Expand(rules, at(n))}
<1>1. TypesOK(rules)
  BY GrammarTypes
<1>2. ASSUME NEW k \in DOMAIN rules PROVE at(k) \in Locations(rules) /\ NodeAt(rules, at(k)) = Root(rules[k])
  <2>1. at(k) \in Locations(rules)
    BY <1>1, IsLocation DEF TypesOK
  <2> QED BY <2>1 DEF NodeAt, Root
<1>3. ASSUME NEW k \in R, NEW j \in Leads[k] PROVE j \in R
  <2>1. k \in DOMAIN rules /\ Root(rules[k]).op = "Symbol" /\ j = Root(rules[k]).name /\ j \in DOMAIN rules
    <3>1. j \in DOMAIN rules
      BY LeadsOn DEF RelationOn
    <3> QED BY <3>1 DEF Leads
  <2>2. at(j) \in Abbreviation(rules, at(k))
    BY <2>1, <1>2 DEF Abbreviation
  <2>3. Expand(rules, at(j)) = Expand(rules, at(k))
    <3>1. at(k) \in Locations(rules)
      BY <1>2
    <3> HIDE DEF at
    <3> QED BY <3>1, <2>2, <1>1, ExpandIs
  <2> QED BY <2>1, <2>3
<1>4. n \in R /\ R \cap DOMAIN rules = R
  OBVIOUS
<1>5. Closed(Leads, R \cap DOMAIN rules)
  <2> HIDE DEF R
  <2> QED BY <1>3, <1>4 DEF Closed
<1>6. resolve(rules)[n] \in R
  <2> HIDE DEF R
  <2> QED BY <1>4, <1>5, ResolveIs
<1> QED BY <1>6

\* What Inline makes of the rules.
InlinedRules(uses) == [n \in DOMAIN rules |-> rewrite_body(resolve(rules), uses, rules[n])]

LEMMA TuplesBodies ==
  ASSUME IsGrammar(rules), NoCycles(rules), NEW uses, NEW n \in DOMAIN rules,
         NEW p \in tuple_args(resolve(rules), uses, rules[n])
  PROVE  LET k == resolve(rules)[rules[n][p].name]
         IN  /\ rules[n][p].name \in DOMAIN rules /\ k \in DOMAIN rules
             /\ Tuple(resolve(rules), rules[n], p) = rules[k] /\ IsBody(rules[k])
<1>1. \A k \in DOMAIN rules : IsBody(rules[k]) /\ Uses(rules[k], Ref, {}) \subseteq DOMAIN rules
  BY DEF IsGrammar, Ref
<1>2. rules[n][p].name \in Deps(rules[n])
  BY <1>1, ArgIs
<1>3. Deps(rules[n]) \subseteq Uses(rules[n], Ref, {})
  BY UsesMore DEF Deps, Ref
<1>4. rules[n][p].name \in DOMAIN rules
  BY <1>1, <1>2, <1>3
<1>5. resolve(rules)[rules[n][p].name] \in DOMAIN rules
  BY <1>4, ResolveIs
<1> QED BY <1>1, <1>4, <1>5 DEF Tuple

LEMMA InlinedTypes ==
  ASSUME IsGrammar(rules), NoCycles(rules), NEW uses
  PROVE  TypesOK(InlinedRules(uses))
<1> DEFINE res == resolve(rules)
           h == InlinedRules(uses)
<1>1. DOMAIN h = DOMAIN rules /\ \A n \in DOMAIN rules : h[n] = rewrite_body(res, uses, rules[n])
  BY DEF InlinedRules
<1>2. Acyclic([n \in DOMAIN h |-> Uses(h[n], Ref3, {"Alias", "Choice"})])
  <2> DEFINE after == [n \in DOMAIN rules |-> Uses(rewrite_body(resolve(rules), uses, rules[n]), Ref3, {"Alias", "Choice"})]
  <2>1. Acyclic(after)
    BY InlinedAcyclic
  <2>2. [n \in DOMAIN h |-> Uses(h[n], Ref3, {"Alias", "Choice"})] = after
    BY <1>1
  <2> QED BY <2>1, <2>2
<1> HIDE DEF h
<1>3. \A k \in DOMAIN rules : IsBody(rules[k]) /\ Uses(rules[k], Ref, {}) \subseteq DOMAIN rules
  BY DEF IsGrammar, Ref
<1>4. ASSUME NEW n \in DOMAIN rules
      PROVE  IsFiniteSet(DOMAIN h[n]) /\ DOMAIN h[n] \subseteq Position /\ <<>> \in DOMAIN h[n]
  <2> DEFINE x == rules[n]
             P == tuple_args(res, uses, x)
             at == [p \in P |-> {p \o q : q \in DOMAIN Tuple(res, x, p)}]
             W == Grafted(res, uses, x)
  <2>1. \A p \in P : p \in DOMAIN x /\ p \in Position /\ IsBody(Tuple(res, x, p))
    <3>1. \A p \in P : IsBody(Tuple(res, x, p))
      BY TuplesBodies
    <3>2. \A p \in P : p \in DOMAIN x /\ p \in Position
      BY <1>3, ArgIs
    <3> QED BY <3>1, <3>2
  <2>2. W = UNION {at[p] : p \in P}
    BY DEF Grafted
  <2>3. DOMAIN h[n] = DOMAIN x \cup W
    <3>1. Rewritten(res, uses, x, rewrite_body(res, uses, x), Grafted(res, uses, x))
      BY <2>1, <1>3, RewriteIs
    <3> QED BY <3>1, <1>1 DEF Rewritten
  <2>4. IsFiniteSet(DOMAIN x) /\ DOMAIN x \subseteq Position /\ <<>> \in DOMAIN x
    BY <1>3 DEF IsBody, Position
  <2>5. ASSUME NEW p \in P PROVE IsFiniteSet(at[p]) /\ at[p] \subseteq Position
    <3> DEFINE D == DOMAIN Tuple(res, x, p)
               f == [q \in D |-> p \o q]
               V == {f[q] : q \in D}
    <3>1. IsFiniteSet(D) /\ D \subseteq Position /\ p \in Position
      BY <2>1 DEF IsBody, Position
    <3>2. at[p] = V
      OBVIOUS
    <3>3. IsFiniteSet(V)
      <4> HIDE DEF D, f
      <4> QED BY <3>1, ImageFinite
    <3>4. \A q \in D : p \o q \in Position
      <4> HIDE DEF D, P
      <4> QED BY <3>1, ConcatRest
    <3>5. V \subseteq Position
      <4> HIDE DEF D
      <4> QED BY <3>4
    <3> QED BY <3>2, <3>3, <3>5
  <2> HIDE DEF at
  <2>6. P \in SUBSET DOMAIN x
    BY <2>1
  <2>7. IsFiniteSet(P)
    <3> HIDE DEF P, x
    <3> QED BY <2>4, <2>6, FS_Subset
  <2>8. IsFiniteSet({at[p] : p \in P})
    <3> HIDE DEF P
    <3> QED BY <2>7, ImageFinite
  <2>9. IsFiniteSet(UNION {at[p] : p \in P})
    <3> HIDE DEF P
    <3> QED BY <2>5, <2>8, FS_UNION
  <2>10. W \subseteq Position
    <3> HIDE DEF P
    <3> QED BY <2>2, <2>5
  <2> HIDE DEF W, x, P
  <2>11. IsFiniteSet(DOMAIN x \cup W)
    BY <2>2, <2>4, <2>9, FS_Union
  <2> QED BY <2>3, <2>4, <2>10, <2>11
<1>5. ASSUME NEW n \in DOMAIN rules PROVE Uses(h[n], Ref3, {}) \subseteq DOMAIN rules
  <2> SUFFICES ASSUME NEW m \in Uses(rewrite_body(res, uses, rules[n]), Ref3, {}) PROVE m \in DOMAIN rules
    BY <1>1
  <2>1. res \in [DOMAIN rules -> DOMAIN rules]
    BY ResolveType
  <2> HIDE DEF res
  <2>2. ASSUME NEW k \in DOMAIN rules PROVE Carried(res, rules[k], {}) \subseteq DOMAIN rules
    BY <2>1, <1>3 DEF Carried
  <2>3. Deps(rules[n]) \subseteq DOMAIN rules
    <3>1. Deps(rules[n]) \subseteq Uses(rules[n], Ref, {})
      BY UsesMore DEF Deps, Ref
    <3> QED BY <3>1, <1>3
  <2>4. m \in Carried(res, rules[n], {}) \/ \E k \in Deps(rules[n]) : m \in Carried(res, rules[res[k]], {})
    BY <2>1, RewriteUses
  <2> QED BY <2>1, <2>2, <2>3, <2>4
<1>6. IsFiniteSet(DOMAIN rules)
  BY DEF IsGrammar
<1>7. TypesOK(h)
  BY <1>1, <1>2, <1>4, <1>5, <1>6 DEF TypesOK
<1> QED BY <1>7 DEF h

\* A place that was there has the arguments it had, and one that is replaced
\* is an argument of the root.
LEMMA InlineKept ==
  ASSUME IsGrammar(rules), NoCycles(rules), NEW uses, NEW n \in DOMAIN rules,
         NEW r \in DOMAIN rules[n] \ Grafted(resolve(rules), uses, rules[n])
  PROVE  /\ r \in DOMAIN InlinedRules(uses)[n]
         /\ InlinedRules(uses)[n][r] = rewrite_node(resolve(rules), rules[n][r])
         /\ \A i \in Nat : /\ r \o <<i>> \in DOMAIN InlinedRules(uses)[n] <=> r \o <<i>> \in DOMAIN rules[n]
                           /\ r \o <<i>> \in Grafted(resolve(rules), uses, rules[n]) =>
                                r \o <<i>> \in tuple_args(resolve(rules), uses, rules[n])
<1> DEFINE res == resolve(rules)
           x == rules[n]
           P == tuple_args(res, uses, x)
           y == InlinedRules(uses)[n]
           W == Grafted(res, uses, x)
<1>1. IsBody(x) /\ \A p \in P : IsBody(Tuple(res, x, p))
  BY TuplesBodies DEF IsGrammar
<1>2. Rewritten(res, uses, x, y, W)
  <2>1. Rewritten(res, uses, x, rewrite_body(res, uses, x), Grafted(res, uses, x))
    BY <1>1, RewriteIs
  <2> QED BY <2>1 DEF InlinedRules
<1>3. \A p \in P : p \in DOMAIN x /\ p \in Position /\ x[p].op = "Symbol"
  BY <1>1, ArgIs
<1>4. \A s \in W : \E p \in P : \E q \in DOMAIN Tuple(res, x, p) : s = p \o q
  BY DEF Grafted
<1>5. ASSUME NEW p \in P PROVE p \in W
  <2>1. <<>> \in DOMAIN Tuple(res, x, p) /\ p \o <<>> = p
    <3>1. <<>> \in DOMAIN Tuple(res, x, p)
      BY <1>1 DEF IsBody
    <3>2. p \in Seq(Nat)
      BY <1>3 DEF Position
    <3> HIDE DEF P
    <3> QED BY <3>1, <3>2, ConcatEmptySeq
  <2>2. \A q \in DOMAIN Tuple(res, x, p) : p \o q \in W
    BY <1>2 DEF Rewritten
  <2> QED BY <2>1, <2>2
<1>6. /\ DOMAIN x \subseteq Position
      /\ \A s, t \in DOMAIN x : IsStrictPrefix(s, t) => x[s].op \in Constructors \cup {"Alias"}
  BY <1>1 DEF IsBody, Position
<1>7. DOMAIN y = DOMAIN x \cup W /\ y[r] = rewrite_node(res, x[r])
  BY <1>2 DEF Rewritten
<1> HIDE DEF res, x, P, y, W
<1>8. r \in DOMAIN x /\ r \notin W /\ r \in Position
  BY <1>6 DEF x, W, res
<1>9. ASSUME NEW i \in Nat, r \o <<i>> \in W PROVE r \o <<i>> \in P
  <2> DEFINE s == r \o <<i>>
  <2>1. PICK p \in P : \E q \in DOMAIN Tuple(res, x, p) : s = p \o q
    BY <1>4, <1>9
  <2>2. PICK q \in DOMAIN Tuple(res, x, p) : s = p \o q
    BY <2>1
  <2>3. p \in Position /\ q \in Position /\ p \in DOMAIN x /\ x[p].op = "Symbol"
    BY <1>1, <1>3 DEF IsBody, Position
  <2>4. CASE q = <<>>
    <3>1. p \o q = p
      BY <2>3, <2>4, ConcatEmptySeq DEF Position
    <3> QED BY <3>1, <2>2
  <2>5. CASE q # <<>>
    <3>1. IsStrictPrefix(p, p \o q)
      BY <2>3, <2>5, ConcatStrict
    <3>2. IsStrictPrefix(p, r \o <<i>>)
      BY <3>1, <2>2
    <3>3. p = r \/ IsStrictPrefix(p, r)
      BY <3>2, <1>8, <2>3, LeafAbove
    <3>4. p # r
      BY <1>5, <1>8
    <3>5. x[p].op \in Constructors \cup {"Alias"}
      BY <3>3, <3>4, <1>6, <1>8, <2>3
    <3> QED BY <3>5, <2>3 DEF Constructors
  <2> QED BY <2>4, <2>5
<1>10. ASSUME NEW i \in Nat PROVE r \o <<i>> \in DOMAIN y <=> r \o <<i>> \in DOMAIN x
  BY <1>3, <1>7, <1>9
<1> QED BY <1>7, <1>8, <1>9, <1>10 DEF res, x, P, y, W

\* The places of a tuple that is put into a variant have the arguments they
\* have in its rule.
LEMMA InlinePut ==
  ASSUME IsGrammar(rules), NoCycles(rules), NEW uses, NEW n \in DOMAIN rules,
         NEW p \in tuple_args(resolve(rules), uses, rules[n]),
         NEW t, t = Tuple(resolve(rules), rules[n], p), NEW q \in DOMAIN t
  PROVE  /\ p \o q \in DOMAIN InlinedRules(uses)[n]
         /\ InlinedRules(uses)[n][p \o q] = rewrite_node(resolve(rules), t[q])
         /\ \A i \in Nat : /\ (p \o q) \o <<i>> = p \o (q \o <<i>>)
                           /\ (p \o q) \o <<i>> \in DOMAIN InlinedRules(uses)[n] <=> q \o <<i>> \in DOMAIN t
<1> DEFINE res == resolve(rules)
           x == rules[n]
           P == tuple_args(res, uses, x)
           W == Grafted(res, uses, x)
           y == InlinedRules(uses)[n]
<1>1. IsBody(x) /\ \A o \in P : IsBody(Tuple(res, x, o))
  BY TuplesBodies DEF IsGrammar
<1>2. Rewritten(res, uses, x, y, W)
  <2>1. Rewritten(res, uses, x, rewrite_body(res, uses, x), Grafted(res, uses, x))
    BY <1>1, RewriteIs
  <2> QED BY <2>1 DEF InlinedRules
<1>3. \A o \in P : o \in DOMAIN x /\ o \in Position /\ Len(o) = 1 /\ x[o].op = "Symbol"
  BY <1>1, ArgIs
<1>4. \A s \in W : \E o \in P : \E k \in DOMAIN Tuple(res, x, o) : s = o \o k
  BY DEF Grafted
<1>5. /\ DOMAIN x \subseteq Position
      /\ \A s, k \in DOMAIN x : IsStrictPrefix(s, k) => x[s].op \in Constructors \cup {"Alias"}
      /\ \A o \in P : DOMAIN Tuple(res, x, o) \subseteq Position
  BY <1>1 DEF IsBody, Position
<1>6. /\ DOMAIN y = DOMAIN x \cup W
      /\ \A k \in DOMAIN t : p \o k \in W /\ y[p \o k] = rewrite_node(res, t[k])
  BY <1>2 DEF Rewritten
<1>7. p \in P /\ t = Tuple(res, x, p)
  OBVIOUS
<1> HIDE DEF res, x, P, y, W
<1>8. p \in DOMAIN x /\ p \in Position /\ Len(p) = 1 /\ x[p].op = "Symbol" /\ q \in Position /\ DOMAIN t \subseteq Position
  BY <1>3, <1>5, <1>7
<1>9. ASSUME NEW i \in Nat
      PROVE  (p \o q) \o <<i>> = p \o (q \o <<i>>) /\ ((p \o q) \o <<i>> \in DOMAIN y <=> q \o <<i>> \in DOMAIN t)
  <2> DEFINE k == q \o <<i>>
  <2>1. k \in Position /\ k # <<>>
    BY <1>8, NumberIs, ConcatRest, ConcatEqualIffEmpty DEF Position
  <2>2. (p \o q) \o <<i>> = p \o k
    BY <1>8, NumberIs, ConcatAssociative DEF Position
  <2> HIDE DEF k
  <2>3. k \in DOMAIN t => p \o k \in DOMAIN y
    BY <1>6
  <2>4. p \o k \notin DOMAIN x
    <3> SUFFICES ASSUME p \o k \in DOMAIN x PROVE FALSE
      OBVIOUS
    <3>1. IsStrictPrefix(p, p \o k)
      BY <2>1, <1>8, ConcatStrict
    <3>2. x[p].op \in Constructors \cup {"Alias"}
      BY <3>1, <1>5, <1>8
    <3> QED BY <3>2, <1>8 DEF Constructors
  <2>5. ASSUME p \o k \in W PROVE k \in DOMAIN t
    <3>1. PICK o \in P : \E j \in DOMAIN Tuple(res, x, o) : p \o k = o \o j
      BY <1>4, <2>5
    <3>2. PICK j \in DOMAIN Tuple(res, x, o) : p \o k = o \o j
      BY <3>1
    <3>3. o \in Position /\ Len(o) = 1 /\ j \in Position
      BY <1>3, <1>5
    <3> DEFINE s == p \o k
    <3>4. <<Head(s)>> = p /\ Tail(s) = k
      BY <2>1, <1>8, HeadBelow
    <3>5. s = o \o j
      BY <3>2
    <3>6. <<Head(o \o j)>> = o /\ Tail(o \o j) = j
      BY <3>3, HeadBelow
    <3> HIDE DEF s
    <3>7. o = p /\ j = k
      BY <3>4, <3>5, <3>6
    <3> QED BY <3>7, <1>7
  <2> QED BY <2>2, <2>3, <2>4, <2>5, <1>6 DEF k
<1>10. p \o q \in DOMAIN y /\ y[p \o q] = rewrite_node(res, t[q])
  BY <1>6
<1> QED BY <1>9, <1>10 DEF y, res

\* A place whose node is what Inline makes of another one has its type, if
\* they have related arguments: a name that leads to a token has the type of
\* that token.
LEMMA RewrittenFollows ==
  ASSUME IsGrammar(rules), NoCycles(rules), NEW h, TypesOK(h), NEW R,
         \A n \in DOMAIN rules : n \in DOMAIN h /\ <<<<n, <<>>>>, <<n, <<>>>>>> \in R,
         NEW l \in Locations(rules), NEW m \in Locations(h),
         NodeAt(h, m) = rewrite_node(resolve(rules), NodeAt(rules, l)), Args(rules, l) = Args(h, m),
         \A i \in Args(rules, l) : <<Arg(l, i), Arg(m, i)>> \in Up(rules, h, R)
  PROVE  Follows(rules, h, R, l, m)
<1> DEFINE res == resolve(rules)
           node == NodeAt(rules, l)
           U == Up(rules, h, R)
<1>1. TypesOK(rules)
  BY GrammarTypes
<1>2. CASE NodeAt(h, m) = node
  BY <1>1, <1>2, Lockstep
<1>3. CASE NodeAt(h, m) # node
  <2> DEFINE j == res[node.name]
             y == Root(rules[j])
             e == <<j, <<>>>>
  <2>1. node.op = "Symbol"
    BY <1>3 DEF rewrite_node
  <2>2. <<node.name, <<>>>> \in Locations(rules) /\ Expand(rules, <<node.name, <<>>>>) = Expand(rules, l)
    <3>1. <<node.name, <<>>>> \in Abbreviation(rules, l)
      BY <2>1 DEF Abbreviation
    <3> HIDE DEF node
    <3> QED BY <3>1, <1>1, ExpandIs
  <2>3. node.name \in DOMAIN rules
    <3>1. <<node.name, <<>>>>[1] \in DOMAIN rules
      BY <2>2, LocationIs
    <3> QED BY <3>1
  <2>4. j \in DOMAIN rules /\ Expand(rules, e) = Expand(rules, l)
    <3> HIDE DEF node
    <3> QED BY <2>2, <2>3, LeadsType
  <2>5. NodeAt(h, m) = CASE y.op = "Constant" -> y [] y.op = "Token" -> TokenType(y.name) [] OTHER -> node
    BY <2>1 DEF rewrite_node
  <2>6. e \in Locations(rules) /\ NodeAt(rules, e) = y /\ e[1] = j
    <3>1. e \in Locations(rules)
      BY <2>4, <1>1, IsLocation DEF TypesOK
    <3> QED BY <3>1 DEF NodeAt, Root
  <2>7. Args(rules, l) = {}
    <3>1. IsBody(rules[l[1]])
      BY LocationIs DEF IsGrammar
    <3> QED BY <3>1, <2>1, LeafArgs DEF Constructors
  <2> HIDE DEF y, node
  <2>8. CASE y.op = "Constant"
    <3>1. NodeAt(h, m) = y
      BY <2>5, <2>8
    <3>2. Abbreviation(h, m) = {} /\ Abbreviation(rules, e) = {}
      BY <3>1, <2>6, <2>8 DEF Abbreviation
    <3>3. Expand(rules, l) = e
      <4> HIDE DEF e
      <4> QED BY <3>2, <2>4, <2>6, <1>1, ExpandIs
    <3>4. Args(rules, e) = {}
      <4>1. IsBody(rules[e[1]])
        BY <2>4, <2>6 DEF IsGrammar
      <4> HIDE DEF e
      <4> QED BY <4>1, <2>6, <2>8, LeafArgs DEF Constructors
    <3> HIDE DEF e
    <3>5. Constructor(rules, e) = Constructor(h, m)
      BY <3>1, <3>4, <2>6, <2>7 DEF Constructor
    <3>6. Match(rules, h, U, Expand(rules, l), m)
      BY <3>3, <3>4, <3>5 DEF Match
    <3> QED BY <3>2, <3>6 DEF Follows
  <2>9. CASE y.op = "Token"
    <3>1. NodeAt(h, m) = TokenType(y.name)
      BY <2>5, <2>9
    <3>2. y.name = j
      <4>1. rules[j] = Token(j)
        BY <2>4, <2>9 DEF IsGrammar, y
      <4> HIDE DEF j
      <4> QED BY <4>1 DEF y, Root, Token, Leaf, Node
    <3>3. Abbreviation(h, m) = {e}
      BY <3>1, <3>2 DEF Abbreviation, TokenType, Node
    <3>4. <<e, e>> \in R
      BY <2>4
    <3> HIDE DEF e
    <3>5. e \in Locations(h)
      BY <3>3, ExpandIs
    <3>6. <<l, e>> \in U
      BY <3>4, <3>5, <2>4, <2>6, UpIs
    <3> QED BY <3>3, <3>6 DEF Follows
  <2>10. CASE y.op # "Constant" /\ y.op # "Token"
    BY <2>5, <2>10, <1>3 DEF node
  <2> QED BY <2>8, <2>9, <2>10
<1> QED BY <1>2, <1>3

\* Inline keeps the types.
LEMMA InlinedAlike ==
  ASSUME IsGrammar(rules), NoCycles(rules), NEW uses
  PROVE  Alike(rules, InlinedRules(uses))
<1> DEFINE res == resolve(rules)
           h == InlinedRules(uses)
           args(n) == tuple_args(res, uses, rules[n])
           kept(l, m) == l = m /\ m[2] \notin Grafted(res, uses, rules[m[1]])
           put(l, m, p, q) == /\ l = <<res[rules[m[1]][p].name], q>> /\ m[2] = p \o q
                              /\ q \in DOMAIN Tuple(res, rules[m[1]], p)
           R == {o \in Locations(rules) \X Locations(h) :
                   \/ kept(o[1], o[2])
                   \/ \E p \in args(o[2][1]) : \E q \in DOMAIN Tuple(res, rules[o[2][1]], p) : put(o[1], o[2], p, q)}
           U == Up(rules, h, R)
<1>1. TypesOK(rules) /\ TypesOK(h) /\ DOMAIN h = DOMAIN rules
  BY GrammarTypes, InlinedTypes DEF InlinedRules
<1>2. \A n \in DOMAIN rules : /\ IsBody(rules[n]) /\ DOMAIN rules[n] \subseteq Position /\ <<>> \in DOMAIN rules[n]
                              /\ DOMAIN h[n] \subseteq Position
  BY <1>1 DEF IsGrammar, IsBody, Position, TypesOK
<1>3. ASSUME NEW n \in DOMAIN rules, NEW p \in args(n)
      PROVE  /\ p \in DOMAIN rules[n] /\ p \in Position /\ p # <<>> /\ rules[n][p].op = "Symbol"
             /\ rules[n][p].name \in DOMAIN rules /\ res[rules[n][p].name] \in DOMAIN rules
             /\ Tuple(res, rules[n], p) = rules[res[rules[n][p].name]]
  <2>1. p \in DOMAIN rules[n] /\ p \in Position /\ p # <<>> /\ rules[n][p].op = "Symbol"
    BY <1>2, ArgIs
  <2> QED BY <2>1, TuplesBodies
<1>4. ASSUME NEW n \in DOMAIN rules PROVE <<>> \notin Grafted(res, uses, rules[n])
  <2>1. ASSUME NEW p \in args(n), NEW q \in DOMAIN Tuple(res, rules[n], p) PROVE p \o q # <<>>
    <3>1. p \in Position /\ q \in Position /\ p # <<>>
      BY <1>2, <1>3
    <3> QED BY <3>1, ConcatRest
  <2> QED BY <2>1 DEF Grafted
<1>5. ASSUME NEW n \in DOMAIN rules PROVE n \in DOMAIN h /\ <<<<n, <<>>>>, <<n, <<>>>>>> \in R
  <2> DEFINE l == <<n, <<>>>>
  <2>1. l \in Locations(rules) /\ l \in Locations(h)
    BY <1>1, IsLocation DEF TypesOK
  <2>2. kept(l, l)
    BY <1>4
  <2> HIDE DEF l, kept
  <2>3. <<l, l>> \in R
    BY <2>1, <2>2
  <2> QED BY <2>3, <1>1 DEF l
\* Where a tuple is put, the type is that of its rule.
<1>6. ASSUME NEW n \in DOMAIN rules, NEW p \in args(n), <<n, p>> \in Locations(h) PROVE <<<<n, p>>, <<n, p>>>> \in U
  <2> DEFINE m == <<n, p>>
             j == res[rules[n][p].name]
             k == <<j, <<>>>>
  <2>1. /\ p \in DOMAIN rules[n] /\ rules[n][p].op = "Symbol" /\ p \in Position
        /\ j \in DOMAIN rules /\ Tuple(res, rules[n], p) = rules[j] /\ rules[n][p].name \in DOMAIN rules
    BY <1>3
  <2>2. m \in Locations(rules) /\ k \in Locations(rules)
    BY <2>1, <1>2, IsLocation
  <2>3. Expand(rules, k) = Expand(rules, m)
    <3>1. <<rules[n][p].name, <<>>>> \in Abbreviation(rules, m)
      BY <2>1 DEF Abbreviation, NodeAt
    <3>2. Expand(rules, <<rules[n][p].name, <<>>>>) = Expand(rules, m)
      <4> HIDE DEF m
      <4> QED BY <3>1, <2>2, <1>1, ExpandIs
    <3> QED BY <3>2, <2>1, LeadsType
  <2>4. put(k, m, p, <<>>) /\ <<>> \in DOMAIN Tuple(res, rules[n], p)
    <3>1. p \o <<>> = p
      BY <2>1, ConcatEmptySeq DEF Position
    <3> QED BY <3>1, <2>1, <1>2
  <2>5. <<k, m>> \in R
    <3>1. m[1] = n /\ m \in Locations(h)
      BY <1>6
    <3> HIDE DEF m, k, put
    <3> QED BY <3>1, <2>2, <2>4
  <2> HIDE DEF m, k, R
  <2>6. m \in Locations(h)
    BY <1>6 DEF m
  <2>7. <<m, m>> \in U
    BY <2>2, <2>3, <2>5, <2>6, UpIs
  <2> QED BY <2>7 DEF m
<1>7. ASSUME NEW l \in Locations(rules), NEW m \in Locations(h), kept(l, m) PROVE Follows(rules, h, R, l, m)
  <2> DEFINE n == m[1]
             r == m[2]
  <2>1. n \in DOMAIN rules /\ r \in DOMAIN rules[n] \ Grafted(res, uses, rules[n]) /\ l = m /\ m = <<n, r>>
    <3>1. m[1] \in DOMAIN h /\ m = <<m[1], m[2]>>
      BY LocationIs
    <3>2. m[2] \in DOMAIN rules[m[1]] /\ l = m
      BY <1>7, LocationIs
    <3> QED BY <3>1, <3>2, <1>1, <1>7
  <2> HIDE DEF n, r
  <2>2. /\ h[n][r] = rewrite_node(res, rules[n][r])
        /\ \A i \in Nat : /\ r \o <<i>> \in DOMAIN h[n] <=> r \o <<i>> \in DOMAIN rules[n]
                          /\ r \o <<i>> \in Grafted(res, uses, rules[n]) => r \o <<i>> \in args(n)
    BY <2>1, InlineKept
  <2>3. NodeAt(h, m) = rewrite_node(res, NodeAt(rules, l))
    BY <2>1, <2>2 DEF NodeAt
  <2>4. Args(rules, l) = {i \in Nat : r \o <<i>> \in DOMAIN rules[n]} /\ Args(h, m) = {i \in Nat : r \o <<i>> \in DOMAIN h[n]}
    BY <2>1, <1>2, ArgsIs
  <2>5. Args(rules, l) = Args(h, m)
    BY <2>2, <2>4
  <2>6. ASSUME NEW i \in Args(rules, l) PROVE <<Arg(l, i), Arg(m, i)>> \in U
    <3> DEFINE a == <<n, r \o <<i>>>>
    <3>1. Arg(l, i) = a /\ Arg(m, i) = a /\ i \in Nat
      BY <2>1, <2>4 DEF Arg
    <3>2. a \in Locations(rules) /\ a \in Locations(h)
      BY <3>1, <2>5, <1>1, ArgPlace
    <3>3. CASE r \o <<i>> \in Grafted(res, uses, rules[n])
      <4>1. r \o <<i>> \in args(n)
        BY <3>1, <3>3, <2>2
      <4>2. <<a, a>> \in U
        BY <4>1, <3>2, <2>1, <1>6
      <4> QED BY <3>1, <4>2
    <3>4. CASE r \o <<i>> \notin Grafted(res, uses, rules[n])
      <4>1. kept(a, a)
        BY <3>4
      <4> HIDE DEF a, kept
      <4>2. <<a, a>> \in R
        BY <4>1, <3>2
      <4> HIDE DEF R
      <4>3. <<a, a>> \in U
        BY <4>2, <3>2, UpIs
      <4> QED BY <3>1, <4>3
    <3> QED BY <3>3, <3>4
  <2> HIDE DEF R, h, kept
  <2> QED BY <2>3, <2>5, <2>6, <1>1, <1>5, RewrittenFollows
<1>8. ASSUME NEW l \in Locations(rules), NEW m \in Locations(h), NEW p \in args(m[1]),
             NEW q \in DOMAIN Tuple(res, rules[m[1]], p), put(l, m, p, q)
      PROVE  Follows(rules, h, R, l, m)
  <2> DEFINE n == m[1]
             j == res[rules[n][p].name]
             t == rules[j]
  <2>1. n \in DOMAIN rules /\ p \in args(n) /\ m = <<n, p \o q>>
    <3>1. m[1] \in DOMAIN h /\ m = <<m[1], m[2]>>
      BY LocationIs
    <3> QED BY <3>1, <1>1, <1>8
  <2>2. l = <<j, q>> /\ q \in DOMAIN t /\ Tuple(res, rules[n], p) = t /\ j \in DOMAIN rules
    BY <2>1, <1>3, <1>8
  <2> HIDE DEF n, j, args
  <2>3. /\ h[n][p \o q] = rewrite_node(res, t[q])
        /\ \A i \in Nat : /\ (p \o q) \o <<i>> = p \o (q \o <<i>>)
                          /\ (p \o q) \o <<i>> \in DOMAIN h[n] <=> q \o <<i>> \in DOMAIN t
    BY <2>1, <2>2, InlinePut DEF args
  <2>4. NodeAt(h, m) = rewrite_node(res, NodeAt(rules, l))
    BY <2>1, <2>2, <2>3 DEF NodeAt
  <2>5. Args(rules, l) = {i \in Nat : q \o <<i>> \in DOMAIN t} /\ Args(h, m) = {i \in Nat : (p \o q) \o <<i>> \in DOMAIN h[n]}
    <3>1. l[1] = j /\ l[2] = q /\ m[1] = n /\ m[2] = p \o q
      BY <2>1, <2>2
    <3>2. DOMAIN rules[l[1]] \subseteq Position /\ DOMAIN h[m[1]] \subseteq Position
      BY <3>1, <2>1, <2>2, <1>2
    <3>3. /\ Args(rules, l) = {i \in Nat : l[2] \o <<i>> \in DOMAIN rules[l[1]]}
          /\ Args(h, m) = {i \in Nat : m[2] \o <<i>> \in DOMAIN h[m[1]]}
      BY <3>2, ArgsIs
    <3> QED BY <3>1, <3>3
  <2>6. Args(rules, l) = Args(h, m)
    BY <2>3, <2>5
  <2>7. ASSUME NEW i \in Args(rules, l) PROVE <<Arg(l, i), Arg(m, i)>> \in U
    <3> DEFINE a == <<j, q \o <<i>>>>
               b == <<n, p \o (q \o <<i>>)>>
    <3>1. Arg(l, i) = a /\ Arg(m, i) = b /\ i \in Nat /\ q \o <<i>> \in DOMAIN t
      BY <2>1, <2>2, <2>3, <2>5 DEF Arg
    <3>2. a \in Locations(rules) /\ b \in Locations(h)
      BY <3>1, <2>6, <1>1, ArgPlace
    <3>3. put(a, b, p, q \o <<i>>) /\ q \o <<i>> \in DOMAIN Tuple(res, rules[n], p)
      BY <3>1, <2>2 DEF j
    <3>4. b[1] = n
      OBVIOUS
    <3> HIDE DEF a, b, put
    <3>5. <<a, b>> \in R
      BY <3>2, <3>3, <3>4, <2>1
    <3> HIDE DEF R
    <3>6. <<a, b>> \in U
      BY <3>2, <3>5, UpIs
    <3> QED BY <3>1, <3>6
  <2> HIDE DEF R, h
  <2> QED BY <2>4, <2>6, <2>7, <1>1, <1>5, RewrittenFollows
<1>9. ASSUME NEW l \in Locations(rules), NEW m \in Locations(h), <<l, m>> \in R PROVE Follows(rules, h, R, l, m)
  <2>1. kept(l, m) \/ \E p \in args(m[1]) : \E q \in DOMAIN Tuple(res, rules[m[1]], p) : put(l, m, p, q)
    <3> HIDE DEF kept, put, args
    <3> QED BY <1>9
  <2> HIDE DEF kept, put, args, R
  <2> QED BY <2>1, <1>7, <1>8
<1> HIDE DEF R, h
<1>10. Alike(rules, h)
  BY <1>1, <1>5, <1>9, Upto
<1> QED BY <1>10 DEF h

-----------------------------------------------------------------------------
(* The passes *)

LEMMA DepsOn ==
  ASSUME NEW g, IsGrammar(g)
  PROVE  /\ RelationOn([n \in DOMAIN g |-> Deps(g[n])], DOMAIN g)
         /\ RelationOn(Abbreviates(g), DOMAIN g)
         /\ RelationOn([n \in DOMAIN g |-> Uses(g[n], {"Symbol", "Alias"}, {})], DOMAIN g)
         /\ \A n \in DOMAIN g : Unguarded(g[n]) \subseteq Deps(g[n])
<1>1. IsFiniteSet(DOMAIN g) /\ \A n \in DOMAIN g : IsBody(g[n]) /\ Uses(g[n], Ref, {}) \subseteq DOMAIN g
  BY DEF IsGrammar, Ref
<1>2. ASSUME NEW n \in DOMAIN g PROVE Deps(g[n]) \subseteq Uses(g[n], Ref, {}) /\ Unguarded(g[n]) \subseteq Deps(g[n])
  <2>1. Uses(g[n], Ref, {"Alias"}) \subseteq Uses(g[n], Ref, {})
    BY UsesMore
  <2>2. Uses(g[n], Ref, {"Alias", "Choice"}) \subseteq Uses(g[n], Ref, {"Alias"})
    BY UsesMore
  <2> QED BY <2>1, <2>2 DEF Deps, Unguarded, Ref
<1>3. \A n \in DOMAIN g : /\ Deps(g[n]) \in SUBSET DOMAIN g /\ Unguarded(g[n]) \in SUBSET DOMAIN g
                          /\ Uses(g[n], Ref, {}) \in SUBSET DOMAIN g
  BY <1>1, <1>2
<1> QED BY <1>1, <1>2, <1>3 DEF RelationOn, Abbreviates, Ref

\* What Topo_sort makes of a grammar.
LEMMA TsortIs ==
  ASSUME NEW g, IsGrammar(g)
  PROVE  SortedBy(g, tsort_rules(g))
<1> DEFINE uses == [n \in DOMAIN g |-> Deps(g[n])]
           order == tsort_rules(g)
<1>1. RelationOn(uses, DOMAIN g) /\ \A n \in DOMAIN g : uses[n] = Deps(g[n])
  BY DepsOn
<1>2. DOMAIN order = DOMAIN g /\ \A n \in DOMAIN g : order[n] = Reach(uses, uses[n])
  BY DEF tsort_rules, tsort
<1> HIDE DEF uses, order
<1>3. ASSUME NEW n \in DOMAIN g
      PROVE  /\ uses[n] \subseteq order[n] /\ order[n] \subseteq DOMAIN g
             /\ \A k \in order[n] : uses[k] \subseteq order[n]
  <2>1. uses[n] \in SUBSET DOMAIN g
    BY <1>1 DEF RelationOn
  <2>2. uses[n] \subseteq order[n] /\ order[n] \subseteq DOMAIN g /\ Closed(uses, order[n])
    BY <2>1, <1>1, <1>2, Reached
  <2> QED BY <2>2 DEF Closed
<1>4. SortedBy(g, order)
  BY <1>1, <1>2, <1>3 DEF SortedBy
<1> QED BY <1>4 DEF order

\* What Rectypes makes of it: the order is still good, and there is no cycle.
LEMMA RectypesIs ==
  ASSUME NEW g, IsGrammar(g)
  PROVE  LET order == tsort_rules(g)
             h == prevent_cyclic_type_abbreviations(g, order)
         IN  DOMAIN h = DOMAIN g /\ IsGrammar(h) /\ NoCycles(h) /\ SortedBy(h, order)
<1> DEFINE uses == [n \in DOMAIN g |-> Deps(g[n])]
           order == tsort_rules(g)
           cyclic(n) == is_rectype(Abbreviates(g), order, n)
           h == prevent_cyclic_type_abbreviations(g, order)
<1>1. /\ RelationOn(uses, DOMAIN g) /\ RelationOn(Abbreviates(g), DOMAIN g)
      /\ \A n \in DOMAIN g : Abbreviates(g)[n] \subseteq uses[n] /\ Abbreviates(g)[n] = Unguarded(g[n])
  BY DepsOn DEF Abbreviates
<1>2. DOMAIN h = DOMAIN g /\ \A n \in DOMAIN g : h[n] = IF cyclic(n) THEN Rectype(g[n]) ELSE g[n]
  BY DEF prevent_cyclic_type_abbreviations, Abbreviates
<1>3. order = tsort(uses)
  BY DEF tsort_rules
<1>4. SortedBy(g, order)
  BY TsortIs
<1>5. \A n \in DOMAIN g : /\ IsBody(g[n]) /\ Uses(g[n], Ref, {}) \subseteq DOMAIN g
                          /\ Root(g[n]).op = "Token" => g[n] = Token(n)
  BY DEF IsGrammar, Ref
<1> HIDE DEF uses, order, h
<1>6. ASSUME NEW n \in DOMAIN g
      PROVE  /\ IsBody(h[n]) /\ Uses(h[n], Ref, {}) \subseteq DOMAIN g
             /\ Root(h[n]).op = "Token" => h[n] = Token(n)
             /\ Deps(h[n]) \subseteq Deps(g[n])
             /\ Unguarded(h[n]) \subseteq IF cyclic(n) THEN {} ELSE Abbreviates(g)[n]
  <2>1. CASE cyclic(n)
    <3>1. h[n] = Rectype(g[n]) /\ IsBody(g[n])
      BY <2>1, <1>2, <1>5
    <3>2. /\ IsBody(h[n]) /\ Uses(h[n], Ref, {}) \subseteq Uses(g[n], Ref, {}) /\ Deps(h[n]) \subseteq Deps(g[n])
          /\ Unguarded(h[n]) = {} /\ Root(h[n]).op = "Choice"
      BY <3>1, RectypeBody DEF Ref
    <3> QED BY <3>2, <1>5
  <2>2. CASE ~ cyclic(n)
    <3>1. h[n] = g[n]
      BY <2>2, <1>2
    <3> QED BY <3>1, <2>2, <1>1, <1>5
  <2> QED BY <2>1, <2>2
<1>7. IsGrammar(h)
  <2>1. IsFiniteSet(DOMAIN h)
    BY <1>2 DEF IsGrammar
  <2> QED BY <2>1, <1>2, <1>6 DEF IsGrammar, Ref
<1>8. NoCycles(h)
  <2>1. DOMAIN Abbreviates(h) = DOMAIN g /\ \A n \in DOMAIN g : Abbreviates(h)[n] = Unguarded(h[n])
    BY <1>2 DEF Abbreviates
  <2>2. \A n \in DOMAIN g :
          Abbreviates(h)[n] \subseteq IF is_rectype(Abbreviates(g), tsort(uses), n) THEN {} ELSE Abbreviates(g)[n]
    BY <2>1, <1>3, <1>6
  <2>3. Acyclic(Abbreviates(h))
    BY <2>1, <2>2, <1>1, RectypesBreak
  <2> QED BY <2>3 DEF NoCycles
<1>9. SortedBy(h, order)
  BY <1>2, <1>4, <1>6 DEF SortedBy
<1> QED BY <1>2, <1>7, <1>8, <1>9 DEF h, order

\* What is true after each pass.
Inlined ==
  /\ TypesOK(rules)
  /\ DOMAIN sorted = DOMAIN rules /\ \A n \in DOMAIN rules : sorted[n] \subseteq DOMAIN rules
  /\ \A n \in DOMAIN rules : Uses(rules[n], Ref3, {"Alias"}) \subseteq sorted[n] \ inlined

PassesInv ==
  /\ pass \in {"translated", "converted", "deinlined", "factorized", "inlined"}
  /\ pass # "inlined" => IsGrammar(rules) /\ inlined = {}
  /\ pass \in {"translated", "converted", "deinlined"} => DOMAIN rules \cap NewNames = {}
  /\ pass \in {"translated", "converted"} => {entrypoint} \cup extras \subseteq DOMAIN rules
  /\ pass \in {"converted", "deinlined", "factorized"} => NoCycles(rules) /\ SortedBy(rules, sorted)
  /\ pass = "converted" => parser = rules
  /\ pass = "inlined" => Inlined

LEMMA PassesInit ==
  ASSUME Init PROVE PassesInv
BY RearrangeAssumption DEF Init, PassesInv

LEMMA PassesStep ==
  ASSUME PassesInv, [Next]_vars PROVE PassesInv'
<1>1. CASE of_tree_sitter
  <2>1. /\ pass = "translated" /\ pass' = "converted" /\ sorted' = tsort_rules(rules)
        /\ rules' = prevent_cyclic_type_abbreviations(rules, tsort_rules(rules))
        /\ parser' = rules' /\ inlined' = inlined /\ extras' = extras
    BY <1>1 DEF of_tree_sitter
  <2>2. IsGrammar(rules) /\ inlined = {} /\ DOMAIN rules \cap NewNames = {} /\ {entrypoint} \cup extras \subseteq DOMAIN rules
    BY <2>1 DEF PassesInv
  <2>3. DOMAIN rules' = DOMAIN rules /\ IsGrammar(rules') /\ NoCycles(rules') /\ SortedBy(rules', sorted')
    BY <2>1, <2>2, RectypesIs
  <2> QED BY <2>1, <2>2, <2>3 DEF PassesInv
<1>2. CASE deinline_rules
  <2>1. pass = "converted" /\ pass' = "deinlined" /\ \E last \in DOMAIN rules : factorize_rules({}, last)
    BY <1>2 DEF deinline_rules
  <2>2. IsGrammar(rules) /\ inlined = {} /\ DOMAIN rules \cap NewNames = {} /\ NoCycles(rules)
    BY <2>1 DEF PassesInv
  <2>3. /\ IsGrammar(rules') /\ NoCycles(rules') /\ DOMAIN rules' = DOMAIN rules
        /\ sorted' = tsort_rules(rules') /\ inlined' = inlined
    BY <2>1, <2>2, FactorizeStep
  <2>4. SortedBy(rules', sorted')
    BY <2>3, TsortIs
  <2> QED BY <2>1, <2>2, <2>3, <2>4 DEF PassesInv
<1>3. CASE Factorize
  <2>1. pass = "deinlined" /\ pass' = "factorized" /\ \E last \in DOMAIN rules : factorize_rules(Chosen(rules), last)
    BY <1>3 DEF Factorize
  <2>2. IsGrammar(rules) /\ inlined = {} /\ DOMAIN rules \cap NewNames = {} /\ NoCycles(rules)
    BY <2>1 DEF PassesInv
  <2>3. IsGrammar(rules') /\ NoCycles(rules') /\ sorted' = tsort_rules(rules') /\ inlined' = inlined
    BY <2>1, <2>2, FactorizeStep
  <2>4. SortedBy(rules', sorted')
    BY <2>3, TsortIs
  <2> QED BY <2>1, <2>2, <2>3, <2>4 DEF PassesInv
<1>4. CASE inline_rules
  <2>1. /\ pass = "factorized" /\ pass' = "inlined" /\ sorted' = sorted
        /\ rules' = [n \in DOMAIN rules |-> rewrite_body(resolve(rules), times_used, rules[n])]
        /\ inlined' = (DOMAIN rules \ {entrypoint}) \ UNION {Marked(rules'[n]) : n \in DOMAIN rules}
    BY <1>4 DEF inline_rules
  <2>2. IsGrammar(rules) /\ NoCycles(rules) /\ SortedBy(rules, sorted)
    BY <2>1 DEF PassesInv
  <2>3. DOMAIN rules' = DOMAIN rules /\ \A n \in DOMAIN rules : rules'[n] = rewrite_body(resolve(rules), times_used, rules[n])
    BY <2>1
  <2>4. TypesOK(rules')
    <3>1. TypesOK(InlinedRules(times_used))
      BY <2>2, InlinedTypes
    <3>2. rules' = InlinedRules(times_used)
      BY <2>1 DEF InlinedRules
    <3> QED BY <3>1, <3>2
  <2>5. ASSUME NEW n \in DOMAIN rules PROVE Uses(rules'[n], Ref3, {"Alias"}) \subseteq sorted[n] \ inlined'
    <3>1. Uses(rules'[n], Ref3, {"Alias"}) \subseteq sorted[n]
      BY <2>2, <2>3, InlinedSorted
    <3>2. Uses(rules'[n], Ref3, {"Alias"}) \subseteq Marked(rules'[n])
      <4>1. Uses(rules'[n], Ref3, {"Alias"}) \subseteq Uses(rules'[n], Ref3, {})
        BY UsesMore
      <4> QED BY <4>1 DEF Marked, Ref3
    <3> QED BY <3>1, <3>2, <2>1
  <2>6. DOMAIN sorted = DOMAIN rules /\ \A n \in DOMAIN rules : sorted[n] \subseteq DOMAIN rules
    BY <2>2 DEF SortedBy
  <2>7. Inlined'
    BY <2>1, <2>3, <2>4, <2>5, <2>6 DEF Inlined
  <2> QED BY <2>1, <2>7 DEF PassesInv
<1>5. CASE UNCHANGED vars
  BY <1>5 DEF PassesInv, Inlined, vars
<1> QED BY <1>1, <1>2, <1>3, <1>4, <1>5 DEF Next

\* Whatever the grammar, the passes keep it one (all that is used is a rule,
\* and a rule that is a token has its name), without a cycle of abbreviations
\* and in an order that is good for what the bodies have become.
THEOREM PassesSafe == Spec => []PassesInv
<1>1. Init => PassesInv
  BY PassesInit
<1>2. PassesInv /\ [Next]_vars => PassesInv'
  BY PassesStep
<1> QED BY <1>1, <1>2, PTL DEF Spec

LEMMA RulesTypes ==
  ASSUME PassesInv, pass # "translated"
  PROVE  TypesOK(rules)
<1>1. CASE pass = "inlined"
  BY <1>1 DEF PassesInv, Inlined
<1>2. CASE pass # "inlined"
  BY <1>2, GrammarTypes DEF PassesInv
<1> QED BY <1>1, <1>2

\* No rule is its own abbreviation after any pass: OCaml accepts the types.
THEOREM NeverCyclic == Spec => []NoCyclicAbbreviation
<1>1. PassesInv => NoCyclicAbbreviation
  <2> SUFFICES ASSUME PassesInv, pass # "translated" PROVE NoCyclicAbbreviation
    BY DEF NoCyclicAbbreviation
  <2> DEFINE next == [n \in DOMAIN rules |-> Uses(rules[n], Ref3, {"Alias", "Choice"})]
  <2>1. TypesOK(rules)
    BY RulesTypes
  <2>2. ASSUME NEW n \in DOMAIN rules PROVE next[n] \in SUBSET DOMAIN rules
    <3>1. Uses(rules[n], Ref3, {"Alias", "Choice"}) \subseteq Uses(rules[n], Ref3, {})
      BY UsesMore
    <3> QED BY <3>1, <2>1 DEF TypesOK
  <2>3. Acyclic(next)
    BY <2>1 DEF TypesOK
  <2>4. RelationOn(next, DOMAIN rules)
    <3>1. next \in [DOMAIN rules -> SUBSET DOMAIN rules]
      BY <2>2
    <3> HIDE DEF next
    <3> QED BY <3>1, <2>1 DEF RelationOn, TypesOK
  <2> HIDE DEF next
  <2>5. \A n \in DOMAIN rules : n \notin Reach(next, next[n])
    BY <2>3, <2>4, AcyclicReach
  <2> QED BY <2>5 DEF NoCyclicAbbreviation, next, Ref3
<1> QED BY <1>1, PassesSafe, PTL

\* Types and functions are defined before they are used, or with what uses
\* them: in the parser, made of the grammar as it was, and in the types and
\* the boilerplate, made of the one that was rearranged.
THEOREM AlwaysDefined == Spec => []DefinedBeforeUse
<1>1. PassesInv => DefinedBeforeUse
  <2> SUFFICES ASSUME PassesInv PROVE DefinedBeforeUse
    OBVIOUS
  <2>1. ASSUME pass = "converted", NEW n \in detect_used({entrypoint} \cup extras, parser), NEW m \in Deps(rules[n])
        PROVE  m \in detect_used({entrypoint} \cup extras, parser) /\ Precedes(m, n)
    <3> DEFINE next == [k \in DOMAIN rules |-> Uses(rules[k], {"Symbol", "Alias"}, {})]
               from == {entrypoint} \cup extras
    <3>1. /\ IsGrammar(rules) /\ inlined = {} /\ from \subseteq DOMAIN rules
          /\ SortedBy(rules, sorted) /\ parser = rules
      BY <2>1 DEF PassesInv
    <3>2. RelationOn(next, DOMAIN rules) /\ detect_used(from, parser) = Reach(next, from)
      BY <3>1, DepsOn DEF detect_used
    <3>3. from \in SUBSET DOMAIN rules
      BY <3>1
    <3> HIDE DEF next, from
    <3>4. Reach(next, from) \subseteq DOMAIN rules /\ Closed(next, Reach(next, from))
      BY <3>2, <3>3, Reached
    <3>5. n \in Reach(next, from) /\ n \in DOMAIN rules
      BY <2>1, <3>2, <3>4 DEF from
    <3>6. m \in next[n]
      <4>1. Deps(rules[n]) \subseteq Uses(rules[n], {"Symbol", "Alias"}, {})
        BY UsesMore DEF Deps
      <4> QED BY <4>1, <3>5, <2>1 DEF next
    <3>7. m \in Reach(next, from)
      BY <3>4, <3>5, <3>6 DEF Closed
    <3>8. m \in sorted[n]
      BY <2>1, <3>1, <3>5 DEF SortedBy
    <3> QED BY <3>1, <3>2, <3>7, <3>8 DEF Precedes, from
  <2>2. ASSUME pass = "inlined", NEW n \in DOMAIN rules, NEW m \in Uses(rules[n], Ref3, {"Alias"}) PROVE Precedes(m, n)
    BY <2>2 DEF PassesInv, Inlined, Precedes
  <2> QED BY <2>1, <2>2 DEF DefinedBeforeUse, Ref3
<1> QED BY <1>1, PassesSafe, PTL

\* The rules the parser was generated from have the types they had.
TypesInv ==
  /\ PassesInv
  /\ pass # "translated" => TypesOK(parser) /\ Alike(parser, rules)

LEMMA TypesStep ==
  ASSUME TypesInv, [Next]_vars PROVE TypesInv'
<1>1. PassesInv'
  BY PassesStep DEF TypesInv
<1>2. CASE of_tree_sitter
  <2>1. pass' = "converted" /\ parser' = rules'
    BY <1>2 DEF of_tree_sitter
  <2>2. IsGrammar(rules') /\ NoCycles(rules')
    BY <1>1, <2>1 DEF PassesInv
  <2>3. TypesOK(rules')
    BY <2>2, GrammarTypes
  <2>4. Alike(rules', rules')
    BY <2>3, AlikeSelf
  <2> QED BY <1>1, <2>1, <2>3, <2>4 DEF TypesInv
<1>3. ASSUME pass # "translated", TypesOK(rules), Alike(rules, rules'), parser' = parser PROVE TypesInv'
  <2>1. TypesOK(parser) /\ Alike(parser, rules)
    BY <1>3 DEF TypesInv
  <2>2. Alike(parser, rules')
    BY <2>1, <1>3, AlikeTrans
  <2> QED BY <2>1, <2>2, <1>1, <1>3 DEF TypesInv
<1>4. ASSUME pass \in {"converted", "deinlined"}, NEW new, new \in {{}, Chosen(rules)},
             \E last \in DOMAIN rules : factorize_rules(new, last)
      PROVE  TypesInv'
  <2>1. IsGrammar(rules) /\ DOMAIN rules \cap NewNames = {} /\ NoCycles(rules)
    BY <1>4 DEF TypesInv, PassesInv
  <2>2. PICK last \in DOMAIN rules : factorize_rules(new, last)
    BY <1>4
  <2>3. parser' = parser /\ \E fresh : NewRules(rules, new, fresh) /\ rules' = Factored(rules, new, fresh, last)
    BY <1>4, <2>1, <2>2, FactorizeStep
  <2>4. PICK fresh : NewRules(rules, new, fresh) /\ rules' = Factored(rules, new, fresh, last)
    BY <2>3
  <2>5. TypesOK(rules) /\ Alike(rules, rules')
    BY <2>1, <2>4, GrammarTypes, FactoredAlike
  <2> QED BY <1>3, <1>4, <2>3, <2>5
<1>5. CASE deinline_rules
  BY <1>4, <1>5 DEF deinline_rules
<1>6. CASE Factorize
  BY <1>4, <1>6 DEF Factorize
<1>7. CASE inline_rules
  <2>1. pass = "factorized" /\ parser' = parser /\ rules' = InlinedRules(times_used)
    BY <1>7 DEF inline_rules, InlinedRules
  <2>2. IsGrammar(rules) /\ NoCycles(rules)
    BY <2>1 DEF TypesInv, PassesInv
  <2>3. TypesOK(rules) /\ Alike(rules, rules')
    BY <2>1, <2>2, GrammarTypes, InlinedAlike
  <2> QED BY <1>3, <2>1, <2>3
<1>8. CASE UNCHANGED vars
  BY <1>1, <1>8 DEF TypesInv, vars
<1> QED BY <1>2, <1>5, <1>6, <1>7, <1>8 DEF Next

\* The types that are written after the rules were rearranged are, for every
\* rule and under every constructor, those that the functions of the parser
\* are annotated with: whatever is shared, named or put in place of a name.
THEOREM TypesStaySame == Spec => []SameTypes
<1>1. Init => TypesInv
  BY PassesInit DEF Init, TypesInv
<1>2. TypesInv /\ [Next]_vars => TypesInv'
  BY TypesStep
<1>3. TypesInv => SameTypes
  <2>1. CASE pass = "translated"
    BY <2>1 DEF SameTypes
  <2>2. CASE pass # "translated"
    BY <2>2, RulesTypes, AlikeTypes DEF TypesInv
  <2> QED BY <2>1, <2>2
<1> QED BY <1>1, <1>2, <1>3, PTL DEF Spec
=============================================================================
