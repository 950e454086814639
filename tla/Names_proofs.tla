---------------------------- MODULE Names_proofs ----------------------------
(***************************************************************************)
(* Proofs about the names of a grammar: about the two ways of making names *)
(* unique, for every way of building candidates, every list of names,      *)
(* every set of reserved words that create accepts and every sequence of   *)
(* calls, and about the two translations that are composed.  Nothing is    *)
(* assumed of Cat but Cat(p, 0) = p for given names: candidates of         *)
(* different names may overlap in any way.                                 *)
(***************************************************************************)
EXTENDS GrammarNames, TLAPS

-----------------------------------------------------------------------------
(* Fresh *)

AllPrefixes == Prefix \cup UNION {{g[i] : i \in 1..Len(g)} : g \in Given}

Entry == [prefix : AllPrefixes, n : Nat, name : {Cat(p, n) : p \in AllPrefixes, n \in Nat}]

ScopeTypeOK == given \in Given /\ issued \in Seq(Entry)

\* The table of names is the set of names returned.
InvNames == names = {issued[i].name : i \in 1..Len(issued)}

\* A counter says that the candidates before it are taken.
InvCounters ==
  /\ DOMAIN prefixes = {issued[i].prefix : i \in 1..Len(issued)}
  /\ \A p \in DOMAIN prefixes :
       prefixes[p] \in Nat /\ \A m \in 0..(prefixes[p] - 1) : Cat(p, m) \in names

InvUnique == \A i, j \in 1..Len(issued) : issued[i].name = issued[j].name => i = j

InvLeast ==
  \A i \in 1..Len(issued) : \A m \in 0..(issued[i].n - 1) :
    \E j \in 1..(i - 1) : issued[j].name = Cat(issued[i].prefix, m)

Core == ScopeTypeOK /\ InvNames /\ InvCounters /\ InvUnique /\ InvLeast

\* What init_scope has done so far.
Upto == {i \in 1..Len(given) : i <= Len(issued)}

InvGiven ==
  /\ \A i \in Upto : issued[i].prefix = given[i]
  /\ duplicates = {given[i] : i \in {j \in Upto : issued[j].name # given[j]}}
  /\ (\A i, j \in Upto : given[i] = given[j] => i = j) =>
       \A i \in Upto : issued[i].name = given[i]

IInv == Core /\ InvGiven

-----------------------------------------------------------------------------
(* One call of create_name *)

LEMMA CreateCore ==
  ASSUME Core, NEW p \in AllPrefixes, NEW n \in Nat, create_name(p, n), given' = given
  PROVE  Core'
<1> DEFINE e == [prefix |-> p, n |-> n, name |-> Cat(p, n)]
<1>1. /\ e \in Entry /\ issued \in Seq(Entry) /\ issued' = Append(issued, e)
      /\ names' = names \cup {Cat(p, n)} /\ Cat(p, n) \notin names
  BY DEF Core, ScopeTypeOK, Entry, create_name, Return
<1>2. /\ issued' \in Seq(Entry) /\ Len(issued') = Len(issued) + 1 /\ Len(issued) \in Nat
      /\ \A i \in 1..Len(issued) : issued'[i] = issued[i]
      /\ issued'[Len(issued) + 1] = e
  BY <1>1
<1>3. e.prefix = p /\ e.n = n /\ e.name = Cat(p, n)
  OBVIOUS
<1> HIDE DEF e
<1>4. ScopeTypeOK'
  BY <1>2 DEF Core, ScopeTypeOK
<1>5. InvNames'
  BY <1>1, <1>2, <1>3 DEF Core, InvNames
<1>6. InvUnique'
  BY <1>1, <1>2, <1>3 DEF Core, InvNames, InvUnique
<1>7. \A m \in 0..(n - 1) : Cat(p, m) \in names
  BY DEF Core, InvCounters, create_name, counter
<1>8. InvCounters'
  <2>1. prefixes' = [q \in DOMAIN prefixes \cup {p} |-> IF q = p THEN n + 1 ELSE prefixes[q]]
    BY DEF create_name, Return
  <2>2. DOMAIN prefixes' = {issued'[i].prefix : i \in 1..Len(issued')}
    BY <1>2, <1>3, <2>1 DEF Core, InvCounters
  <2>3. ASSUME NEW q \in DOMAIN prefixes'
        PROVE  prefixes'[q] \in Nat /\ \A m \in 0..(prefixes'[q] - 1) : Cat(q, m) \in names'
    <3>1. CASE q = p
      BY <1>1, <1>7, <2>1, <3>1
    <3>2. CASE q # p
      BY <1>1, <2>1, <2>3, <3>2 DEF Core, InvCounters
    <3> QED BY <3>1, <3>2
  <2> QED BY <2>2, <2>3 DEF InvCounters
<1>9. InvLeast'
  <2> SUFFICES ASSUME NEW i \in 1..Len(issued'), NEW m \in 0..(issued'[i].n - 1)
               PROVE  \E j \in 1..(i - 1) : issued'[j].name = Cat(issued'[i].prefix, m)
    BY DEF InvLeast
  <2>1. CASE i \in 1..Len(issued)
    <3>1. PICK j \in 1..(i - 1) : issued[j].name = Cat(issued[i].prefix, m)
      BY <1>2, <2>1 DEF Core, InvLeast
    <3> QED BY <1>2, <2>1, <3>1
  <2>2. CASE i = Len(issued) + 1
    <3>1. Cat(p, m) \in names
      BY <1>2, <1>3, <1>7, <2>2
    <3>2. PICK j \in 1..Len(issued) : issued[j].name = Cat(p, m)
      BY <3>1 DEF Core, InvNames
    <3> QED BY <1>2, <1>3, <2>2, <3>2
  <2> QED BY <1>2, <2>1, <2>2
<1> QED BY <1>4, <1>5, <1>6, <1>8, <1>9 DEF Core

LEMMA InitCore == create_scope => IInv
<1> SUFFICES ASSUME create_scope PROVE IInv
  OBVIOUS
<1>1. /\ given \in Given /\ names = {} /\ DOMAIN prefixes = {} /\ duplicates = {}
      /\ issued = <<>> /\ issued \in Seq(Entry) /\ Len(issued) = 0
  BY DEF create_scope
<1>2. ScopeTypeOK /\ InvNames /\ InvCounters /\ InvUnique /\ InvLeast
  BY <1>1 DEF ScopeTypeOK, InvNames, InvCounters, InvUnique, InvLeast
<1>3. Len(given) \in Nat
  BY <1>1, FreshAssumption
<1>4. InvGiven
  BY <1>1, <1>3 DEF InvGiven, Upto
<1> QED BY <1>2, <1>4 DEF IInv, Core

\* A list given to init_scope is a sequence of names that are their own first
\* candidates, and all of them are prefixes of the theory.
LEMMA GivenFacts ==
  ASSUME NEW g \in Given
  PROVE  /\ Len(g) \in Nat
         /\ \A i \in 1..Len(g) : g[i] \in AllPrefixes /\ Cat(g[i], 0) = g[i]
<1>1. Len(g) \in Nat
  BY FreshAssumption
<1>2. ASSUME NEW i \in 1..Len(g) PROVE g[i] \in AllPrefixes
  BY DEF AllPrefixes
<1> QED BY <1>1, <1>2, FreshAssumption

\* One name of the list: while the names are different the counter of the
\* next one is still 0 and nothing has taken its first candidate.
LEMMA AddGiven ==
  ASSUME IInv, NEW n \in Nat, add_unique_name(n)
  PROVE  IInv'
<1> DEFINE k == Len(issued) + 1
           name == given[k]
<1>1. /\ given' = given /\ given \in Given /\ issued \in Seq(Entry)
      /\ Len(issued) \in Nat /\ Len(given) \in Nat /\ k \in 1..Len(given)
  BY GivenFacts DEF IInv, Core, ScopeTypeOK, add_unique_name
<1>2. name \in AllPrefixes /\ Cat(name, 0) = name
  BY <1>1, GivenFacts
<1>3. /\ create_name(name, n)
      /\ duplicates' = duplicates \cup IF Duplicate(name, n) THEN {name} ELSE {}
  BY DEF add_unique_name
<1>4. Core'
  BY <1>1, <1>2, <1>3, CreateCore DEF IInv
<1> DEFINE e == [prefix |-> name, n |-> n, name |-> Cat(name, n)]
<1>5. e \in Entry /\ issued' = Append(issued, e) /\ e.prefix = name /\ e.n = n /\ e.name = Cat(name, n)
  BY <1>2, <1>3 DEF Entry, create_name, Return
<1> HIDE DEF e
<1>6. /\ Len(issued') = k
      /\ \A i \in 1..Len(issued) : issued'[i] = issued[i]
      /\ issued'[k] = e
  BY <1>1, <1>5
<1> HIDE DEF k
<1>7. /\ Upto = 1..Len(issued) /\ Upto' = 1..k /\ k \in Nat
      /\ 1..k = (1..Len(issued)) \cup {k} /\ k \notin 1..Len(issued)
  BY <1>1, <1>6 DEF Upto, k
<1>8. \A i \in Upto' : issued'[i].prefix = given'[i]
  BY <1>1, <1>5, <1>6, <1>7 DEF IInv, InvGiven
<1>9. duplicates' = {given'[i] : i \in {j \in Upto' : issued'[j].name # given'[j]}}
  BY <1>1, <1>3, <1>5, <1>6, <1>7 DEF IInv, InvGiven, Duplicate
<1>10. ASSUME \A i, j \in Upto' : given'[i] = given'[j] => i = j
       PROVE  \A i \in Upto' : issued'[i].name = given'[i]
  <2>1. \A i \in Upto : issued[i].name = given[i] /\ issued[i].prefix = given[i] /\ given[i] # name
    BY <1>1, <1>7, <1>10 DEF IInv, InvGiven
  <2>2. name \notin names /\ name \notin DOMAIN prefixes
    BY <1>7, <2>1 DEF IInv, Core, InvNames, InvCounters
  <2>3. counter(name) = 0
    BY <2>2 DEF counter
  <2>4. n = 0
    <3>1. \A m \in 0..(n - 1) : Cat(name, m) \in names
      BY <1>3, <2>3 DEF create_name
    <3> QED BY <1>2, <2>2, <3>1
  <2> QED BY <1>1, <1>2, <1>5, <1>6, <1>7, <2>1, <2>4
<1> QED BY <1>4, <1>8, <1>9, <1>10 DEF IInv, InvGiven

\* A later call leaves what init_scope has done alone.
LEMMA CreateGiven ==
  ASSUME IInv, NEW p \in Prefix, NEW n \in Nat, Create(p, n)
  PROVE  IInv'
<1>1. /\ given' = given /\ duplicates' = duplicates /\ create_name(p, n)
      /\ Len(issued) \in Nat /\ Len(given) \in Nat /\ Len(issued) >= Len(given)
      /\ p \in AllPrefixes /\ given \in Given /\ issued \in Seq(Entry)
  BY GivenFacts DEF Create, AllPrefixes, IInv, Core, ScopeTypeOK
<1>2. Core'
  BY <1>1, CreateCore DEF IInv
<1> DEFINE e == [prefix |-> p, n |-> n, name |-> Cat(p, n)]
<1>3. e \in Entry /\ issued' = Append(issued, e)
  BY <1>1 DEF Entry, create_name, Return
<1> HIDE DEF e
<1>4. Len(issued') = Len(issued) + 1 /\ \A i \in 1..Len(issued) : issued'[i] = issued[i]
  BY <1>1, <1>3
<1>5. Upto = 1..Len(given) /\ Upto' = Upto /\ \A i \in Upto : issued'[i] = issued[i]
  BY <1>1, <1>4 DEF Upto
<1>6. InvGiven'
  <2>1. \A i \in Upto' : issued'[i].prefix = given'[i]
    BY <1>1, <1>5 DEF IInv, InvGiven
  <2>2. duplicates' = {given'[i] : i \in {j \in Upto' : issued'[j].name # given'[j]}}
    BY <1>1, <1>5 DEF IInv, InvGiven
  <2>3. (\A i, j \in Upto' : given'[i] = given'[j] => i = j) =>
          \A i \in Upto' : issued'[i].name = given'[i]
    BY <1>1, <1>5 DEF IInv, InvGiven
  <2> QED BY <2>1, <2>2, <2>3 DEF InvGiven
<1> QED BY <1>2, <1>6 DEF IInv

LEMMA StutterGiven == IInv /\ UNCHANGED scopeVars => IInv'
<1> SUFFICES ASSUME IInv, UNCHANGED scopeVars PROVE IInv'
  OBVIOUS
<1>1. /\ given' = given /\ names' = names /\ prefixes' = prefixes
      /\ duplicates' = duplicates /\ issued' = issued
  BY DEF scopeVars
<1>2. ScopeTypeOK' /\ InvNames' /\ InvUnique' /\ InvLeast'
  BY <1>1 DEF IInv, Core, ScopeTypeOK, InvNames, InvUnique, InvLeast
<1>3. InvCounters'
  BY <1>1 DEF IInv, Core, InvCounters
<1>4. InvGiven'
  BY <1>1 DEF IInv, InvGiven, Upto
<1> QED BY <1>2, <1>3, <1>4 DEF IInv, Core

\* The induction: the counters, the table of names and the history of the
\* calls stay consistent with each other.
THEOREM ScopeInvariant == ScopeSpec => []IInv
<1>1. IInv /\ [ScopeNext]_scopeVars => IInv'
  <2> SUFFICES ASSUME IInv, [ScopeNext]_scopeVars PROVE IInv'
    OBVIOUS
  <2>1. ASSUME NEW n \in 0..MaxNames, add_unique_name(n) PROVE IInv'
    BY <2>1, AddGiven, FreshAssumption
  <2>2. ASSUME NEW n \in 0..MaxNames, NEW p \in Prefix, Create(p, n) PROVE IInv'
    BY <2>2, CreateGiven, FreshAssumption
  <2>3. CASE UNCHANGED scopeVars
    BY <2>3, StutterGiven
  <2> QED BY <2>1, <2>2, <2>3 DEF ScopeNext
<1> QED BY InitCore, <1>1, PTL DEF ScopeSpec

-----------------------------------------------------------------------------
(* The properties the run checks *)

LEMMA IssuedDomain == IInv => DOMAIN issued = 1..Len(issued) /\ Len(issued) \in Nat
BY DEF IInv, Core, ScopeTypeOK

\* No name is returned twice by a scope of Fresh.
THEOREM NamesAreUnique == ScopeSpec => []Unique
<1>1. IInv => Unique
  BY IssuedDomain DEF IInv, Core, InvUnique, Unique
<1> QED BY <1>1, ScopeInvariant, PTL

\* No suffix is skipped by the counters.
THEOREM SuffixesAreLeast == ScopeSpec => []LeastFree
<1>1. IInv => LeastFree
  BY IssuedDomain DEF IInv, Core, InvLeast, LeastFree
<1> QED BY <1>1, ScopeInvariant, PTL

\* init_scope returns Ok for the lists without a repeated name, and for them
\* only, and then it renames nothing.
THEOREM InitScopeIsRight == ScopeSpec => []InitOk
<1>1. IInv => InitOk
  <2> SUFFICES ASSUME IInv, Len(issued) >= Len(given) PROVE
        /\ duplicates = {} <=> \A i, j \in DOMAIN given : given[i] = given[j] => i = j
        /\ duplicates = {} => \A i \in DOMAIN given : issued[i].name = given[i]
    BY DEF InitOk
  <2>1. /\ Len(given) \in Nat /\ DOMAIN given = 1..Len(given)
        /\ Len(issued) \in Nat
    BY FreshAssumption DEF IInv, Core, ScopeTypeOK
  <2>2. Upto = DOMAIN given /\ DOMAIN given \subseteq 1..Len(issued)
    BY <2>1 DEF Upto
  <2>3. duplicates = {} => \A i \in DOMAIN given : issued[i].name = given[i]
    BY <2>2 DEF IInv, InvGiven
  <2>4. (\A i \in DOMAIN given : issued[i].name = given[i]) => duplicates = {}
    BY <2>2 DEF IInv, InvGiven
  <2>5. (\A i \in DOMAIN given : issued[i].name = given[i]) =>
          \A i, j \in DOMAIN given : given[i] = given[j] => i = j
    BY <2>2 DEF IInv, Core, InvUnique
  <2>6. (\A i, j \in DOMAIN given : given[i] = given[j] => i = j) =>
          \A i \in DOMAIN given : issued[i].name = given[i]
    BY <2>2 DEF IInv, InvGiven
  <2> QED BY <2>3, <2>4, <2>5, <2>6
<1> QED BY <1>1, ScopeInvariant, PTL

-----------------------------------------------------------------------------
(* Protect_ident *)

\* What one candidate does: it is added to both tables when neither knows it
\* and it is not reserved, and else the tables are left alone.
LEMMA TryCases ==
  ASSUME NEW n, try_suffix(n)
  PROVE  LET src == call[1]
             dst == Cat(Preferred(src), n)
         IN  \/ /\ dst \notin Reserved /\ src \notin DOMAIN forward /\ dst \notin DOMAIN backward
                /\ forward' = replace(forward, src, dst)
                /\ backward' = replace(backward, dst, src)
             \/ forward' = forward /\ backward' = backward
BY DEF try_suffix, Available, force_add

-----------------------------------------------------------------------------
(* The tables are inverses of each other *)

LEMMA InitBijection == MapInit => Bijection
<1> SUFFICES ASSUME MapInit PROVE Bijection
  OBVIOUS
<1>1. /\ DOMAIN forward = Reserved /\ \A r \in Reserved : forward[r] = Cat(r, 1)
      /\ DOMAIN backward = {Cat(r, 1) : r \in Reserved}
      /\ \A d \in DOMAIN backward : backward[d] = CHOOSE r \in Reserved : Cat(r, 1) = d
  BY DEF MapInit, create
<1>2. ASSUME NEW d \in DOMAIN backward
      PROVE  backward[d] \in Reserved /\ Cat(backward[d], 1) = d
  BY <1>1
<1>3. ASSUME NEW r \in Reserved PROVE backward[Cat(r, 1)] = r
  <2>1. Cat(r, 1) \in DOMAIN backward
    BY <1>1
  <2> QED BY <1>2, <2>1, ProtectIdentAssumption
<1> QED BY <1>1, <1>2, <1>3 DEF Bijection

LEMMA TryBijection ==
  ASSUME Bijection, NEW n, try_suffix(n)
  PROVE  Bijection'
<1> DEFINE src == call[1]
           dst == Cat(Preferred(src), n)
<1>1. CASE /\ dst \notin Reserved /\ src \notin DOMAIN forward /\ dst \notin DOMAIN backward
           /\ forward' = replace(forward, src, dst)
           /\ backward' = replace(backward, dst, src)
  <2> HIDE DEF src, dst
  <2>1. /\ DOMAIN forward' = DOMAIN forward \cup {src} /\ forward'[src] = dst
        /\ \A s \in DOMAIN forward : forward'[s] = forward[s]
        /\ DOMAIN backward' = DOMAIN backward \cup {dst} /\ backward'[dst] = src
        /\ \A d \in DOMAIN backward : backward'[d] = backward[d]
    BY <1>1 DEF replace
  <2> QED BY <2>1 DEF Bijection
<1>2. CASE forward' = forward /\ backward' = backward
  BY <1>2 DEF Bijection
<1> QED BY <1>1, <1>2, TryCases

\* No two sources ever have one destination, and each table finds what the
\* other one holds.
THEOREM TranslationIsOneToOne == MapSpec => []Bijection
<1>1. Bijection /\ [add_translation]_mapVars => Bijection'
  <2> SUFFICES ASSUME Bijection, [add_translation]_mapVars PROVE Bijection'
    OBVIOUS
  <2>1. ASSUME NEW n \in Suffix, try_suffix(n) PROVE Bijection'
    BY <2>1, TryBijection
  <2>2. CASE UNCHANGED <<forward, backward>>
    BY <2>2 DEF Bijection
  <2>3. ASSUME NEW s \in Src, Call(s) PROVE UNCHANGED <<forward, backward>>
    BY <2>3 DEF Call
  <2>4. CASE UNCHANGED mapVars
    BY <2>2, <2>4 DEF mapVars
  <2> QED BY <2>1, <2>2, <2>3, <2>4 DEF add_translation, Try
<1> QED BY InitBijection, <1>1, PTL DEF MapSpec

-----------------------------------------------------------------------------
(* The code implements the promise *)

LEMMA TypeInvariant == MapSpec => []MapTypeOK
<1>1. MapInit => MapTypeOK
  BY DEF MapInit, MapTypeOK, create
<1>2. MapTypeOK /\ [add_translation]_mapVars => MapTypeOK'
  <2> SUFFICES ASSUME MapTypeOK, [add_translation]_mapVars PROVE MapTypeOK'
    OBVIOUS
  <2>1. ASSUME NEW n \in Suffix, try_suffix(n) PROVE MapTypeOK'
    <3>1. call \in Src \X (0..NumGood)
      BY <2>1 DEF MapTypeOK, try_suffix
    <3>2. call' = <<>> \/ call' = <<call[1], IF call[2] < NumGood THEN call[2] + 1 ELSE call[2]>>
      BY <2>1 DEF try_suffix
    <3>3. call' # <<>> => call' \in Src \X (0..NumGood)
      BY <3>1, <3>2, ProtectIdentAssumption
    <3>4. DOMAIN forward' \subseteq Src \cup Reserved
      <4>1. \/ forward' = forward
            \/ forward' = replace(forward, call[1], Cat(Preferred(call[1]), n))
        BY <2>1, TryCases
      <4>2. DOMAIN forward' \subseteq DOMAIN forward \cup {call[1]}
        BY <4>1 DEF replace
      <4> QED BY <3>1, <4>2 DEF MapTypeOK
    <3> QED BY <3>3, <3>4 DEF MapTypeOK
  <2>2. ASSUME NEW s \in Src, Call(s) PROVE MapTypeOK'
    BY <2>2, ProtectIdentAssumption DEF MapTypeOK, Call
  <2>3. CASE UNCHANGED mapVars
    BY <2>3 DEF MapTypeOK, mapVars
  <2> QED BY <2>1, <2>2, <2>3 DEF add_translation, Try
<1> QED BY <1>1, <1>2, PTL DEF MapSpec

\* The initial table is the promised one, and every candidate tried is a step
\* of the abstract map or leaves it alone: Reserved and the backward table,
\* which the code looks at, say as much as the set of destinations that are
\* taken, because the tables are inverses.
THEOREM ImplementsTheMap == MapSpec => ImplementsUniqueNames
<1>1. MapInit => U!Init
  BY DEF MapInit, U!Init
<1>2. MapTypeOK /\ Bijection /\ [add_translation]_mapVars => [U!Next]_forward
  <2> SUFFICES ASSUME MapTypeOK, Bijection, [add_translation]_mapVars
               PROVE  U!Next \/ forward' = forward
    OBVIOUS
  <2>1. ASSUME NEW n \in Suffix, try_suffix(n) PROVE U!Next \/ forward' = forward
    <3> DEFINE src == call[1]
               dst == Cat(Preferred(src), n)
    <3>1. src \in Src
      BY <2>1 DEF MapTypeOK, try_suffix
    <3>2. CASE /\ dst \notin Reserved /\ src \notin DOMAIN forward /\ dst \notin DOMAIN backward
               /\ forward' = replace(forward, src, dst)
               /\ backward' = replace(backward, dst, src)
      <4> HIDE DEF src, dst
      <4>1. /\ DOMAIN forward' = DOMAIN forward \cup {src} /\ forward'[src] = dst
            /\ \A s \in DOMAIN forward : forward'[s] = forward[s]
        BY <3>2 DEF replace
      <4>2. dst \notin U!Taken(forward)
        BY <3>2 DEF Bijection, U!Taken
      <4>3. U!Assign(src)
        BY <3>2, <4>1, <4>2 DEF U!Assign
      <4> QED BY <3>1, <4>3 DEF U!Next
    <3> QED BY <2>1, <3>2, TryCases
  <2>2. ASSUME NEW s \in Src, Call(s) PROVE forward' = forward
    BY <2>2 DEF Call
  <2>3. CASE UNCHANGED mapVars
    BY <2>3 DEF mapVars
  <2> QED BY <2>1, <2>2, <2>3 DEF add_translation, Try
<1> QED BY <1>1, <1>2, TypeInvariant, TranslationIsOneToOne, PTL
     DEF MapSpec, ImplementsUniqueNames, U!Spec

-----------------------------------------------------------------------------
(* The names of a grammar, through both translations *)

\* Two functions are inverses of each other.
Inverses(f, b) ==
  /\ \A s \in DOMAIN f : f[s] \in DOMAIN b /\ b[f[s]] = s
  /\ \A d \in DOMAIN b : b[d] \in DOMAIN f /\ f[b[d]] = d

LEMMA InversesExtend ==
  ASSUME NEW f, NEW b, Inverses(f, b), NEW src, NEW dst,
         src \notin DOMAIN f, dst \notin DOMAIN b
  PROVE  Inverses(replace(f, src, dst), replace(b, dst, src))
<1> DEFINE F == replace(f, src, dst)
           B == replace(b, dst, src)
<1>1. /\ DOMAIN F = DOMAIN f \cup {src} /\ F[src] = dst
      /\ \A s \in DOMAIN f : F[s] = f[s]
      /\ DOMAIN B = DOMAIN b \cup {dst} /\ B[dst] = src
      /\ \A d \in DOMAIN b : B[d] = b[d]
  BY DEF replace
<1>2. Inverses(F, B)
  <2> HIDE DEF F, B
  <2> QED BY <1>1 DEF Inverses
<1> QED BY <1>2

\* No destination of the second translation is a reserved word.
NoneReserved == \A s \in DOMAIN forward : forward[s] \notin Reserved

GInv == Inverses(sForward, sBackward) /\ Inverses(forward, backward) /\ NoneReserved

\* A candidate of the simplifier's translation, which has no reserved words.
LEMMA SimplifyInverses ==
  ASSUME Inverses(sForward, sBackward), NEW n, S!try_suffix(n)
  PROVE  Inverses(sForward, sBackward)'
<1> DEFINE src == sCall[1]
           dst == Cat(Visible(src), n)
<1>1. \/ /\ src \notin DOMAIN sForward /\ dst \notin DOMAIN sBackward
         /\ sForward' = replace(sForward, src, dst)
         /\ sBackward' = replace(sBackward, dst, src)
      \/ sForward' = sForward /\ sBackward' = sBackward
  BY DEF S!try_suffix, S!Available, S!force_add, S!replace, replace
<1> QED BY <1>1, InversesExtend

LEMMA CodegenStep ==
  ASSUME GInv, NEW n, try_suffix(n)
  PROVE  (Inverses(forward, backward) /\ NoneReserved)'
<1>1. CASE UNCHANGED <<forward, backward>>
  BY <1>1 DEF GInv, NoneReserved
<1>2. CASE \E src, dst : /\ dst \notin Reserved
                         /\ src \notin DOMAIN forward /\ dst \notin DOMAIN backward
                         /\ forward' = replace(forward, src, dst)
                         /\ backward' = replace(backward, dst, src)
  <2>1. PICK src, dst : /\ dst \notin Reserved
                        /\ src \notin DOMAIN forward /\ dst \notin DOMAIN backward
                        /\ forward' = replace(forward, src, dst)
                        /\ backward' = replace(backward, dst, src)
    BY <1>2
  <2>2. Inverses(forward, backward)'
    BY <2>1, InversesExtend DEF GInv
  <2>3. NoneReserved'
    BY <2>1 DEF GInv, NoneReserved, replace
  <2> QED BY <2>2, <2>3
<1> QED BY <1>1, <1>2, TryCases

LEMMA InitGrammarNames == Init => GInv
<1> SUFFICES ASSUME Init PROVE GInv
  OBVIOUS
<1>1. Inverses(forward, backward)
  BY InitBijection DEF Init, Bijection, Inverses
<1>2. NoneReserved
  BY ProtectIdentAssumption DEF Init, MapInit, create, NoneReserved
<1>3. DOMAIN sForward = {} /\ DOMAIN sBackward = {}
  BY DEF Init, S!MapInit, S!create
<1>4. Inverses(sForward, sBackward)
  BY <1>3 DEF Inverses
<1> QED BY <1>1, <1>2, <1>4 DEF GInv

\* Two rules never share an OCaml type and none gets a reserved word, although
\* two translations with tables of their own are composed and the second one
\* knows nothing of the first: both are one to one, and the second one has
\* the reserved words.
THEOREM RulesKeepTheirTypes == Spec => []OneTypePerRule
<1>1. GInv /\ [Next]_allVars => GInv'
  <2> SUFFICES ASSUME GInv, [Next]_allVars PROVE GInv'
    OBVIOUS
  <2> DEFINE Same == UNCHANGED <<forward, backward>>
             SameS == UNCHANGED <<sForward, sBackward>>
  <2>1. Same => (Inverses(forward, backward) /\ NoneReserved)'
    BY DEF GInv, NoneReserved
  <2>2. SameS => Inverses(sForward, sBackward)'
    BY DEF GInv
  <2>3. CASE MakeNames
    BY <2>1, <2>2, <2>3 DEF MakeNames, sVars, mapVars, GInv
  <2>4. CASE Simplify
    <3>1. Inverses(sForward, sBackward)'
      <4>1. ASSUME NEW n \in S!Suffix, S!try_suffix(n) PROVE Inverses(sForward, sBackward)'
        BY <4>1, SimplifyInverses DEF GInv
      <4>2. ASSUME NEW name, S!Call(name) PROVE SameS
        BY <4>2 DEF S!Call
      <4> QED BY <2>2, <2>4, <4>1, <4>2 DEF Simplify, S!Try
    <3> QED BY <2>1, <2>4, <3>1 DEF Simplify, mapVars, GInv
  <2>5. CASE Codegen
    <3>1. (Inverses(forward, backward) /\ NoneReserved)'
      <4>1. ASSUME NEW n \in Suffix, try_suffix(n)
            PROVE  (Inverses(forward, backward) /\ NoneReserved)'
        BY <4>1, CodegenStep
      <4>2. ASSUME NEW src, Call(src) PROVE Same
        BY <4>2 DEF Call
      <4> QED BY <2>1, <2>5, <4>1, <4>2 DEF Codegen, Try
    <3> QED BY <2>2, <2>5, <3>1 DEF Codegen, sVars, GInv
  <2>6. CASE UNCHANGED allVars
    BY <2>1, <2>2, <2>6 DEF allVars, sVars, mapVars, GInv
  <2> QED BY <2>3, <2>4, <2>5, <2>6 DEF Next
<1>2. GInv => OneTypePerRule
  BY DEF GInv, Inverses, NoneReserved, OneTypePerRule
<1> QED BY InitGrammarNames, <1>1, <1>2, PTL DEF Spec
=============================================================================
