------------------------------- MODULE Fresh --------------------------------
(***************************************************************************)
(* Fresh.ml: unique names with a given prefix.  A scope holds the names    *)
(* taken and, for every prefix asked for, the number of the next suffix to *)
(* try, so that a call does not try again what an earlier one has found    *)
(* taken.                                                                  *)
(***************************************************************************)
EXTENDS Suffixes, Sequences

CONSTANTS
  Given,      (* lists of names init_scope is called with                  *)
  Prefix,     (* the prefixes create_name is called with after that        *)
  MaxNames    (* bound of the number of calls                              *)

ASSUME FreshAssumption ==
  /\ MaxNames \in Nat
  /\ \A g \in Given : /\ g \in Seq({g[i] : i \in 1..Len(g)})
                      /\ \A i \in 1..Len(g) : Cat(g[i], 0) = g[i]

VARIABLES
  given,       (* the list of names init_scope is called with              *)
  names,       (* the names taken                                          *)
  prefixes,    (* the counters, a function on the prefixes asked for       *)
  duplicates,  (* what add_unique_names has found                          *)
  issued       (* the calls of create_name and what they returned, so far  *)

scopeVars == <<given, names, prefixes, duplicates, issued>>

create_scope ==
  /\ given \in Given
  /\ names = {}
  /\ prefixes = [p \in {} |-> 0]
  /\ duplicates = {}
  /\ issued = <<>>

counter(p) == IF p \in DOMAIN prefixes THEN prefixes[p] ELSE 0

\* The counter of p is past n, Cat(p, n) is taken and returned.
Return(p, n) ==
  /\ names' = names \cup {Cat(p, n)}
  /\ prefixes' = [q \in DOMAIN prefixes \cup {p} |-> IF q = p THEN n + 1 ELSE prefixes[q]]
  /\ issued' = Append(issued, [prefix |-> p, n |-> n, name |-> Cat(p, n)])

\* Mutant: what other prefixes have taken is not looked at.
create_name_unchecked(p, n) == n = counter(p) /\ Return(p, n)

\* try_next: the first suffix from the counter on whose name is not taken.
create_name(p, n) ==
  /\ n >= counter(p) /\ Cat(p, n) \notin names
  /\ \A m \in counter(p)..(n - 1) : Cat(p, m) \in names
  /\ Return(p, n)

\* Mutant: a name is a duplicate when it has been given just before.
DuplicateAdjacent(name, n) == issued # <<>> /\ issued[Len(issued)].prefix = name

Duplicate(name, n) == Cat(name, n) # name

\* init_scope, one name at a time.
add_unique_name(n) ==
  /\ Len(issued) < Len(given)
  /\ LET name == given[Len(issued) + 1]
     IN  /\ create_name(name, n)
         /\ duplicates' = duplicates \cup IF Duplicate(name, n) THEN {name} ELSE {}
  /\ UNCHANGED given

\* init_scope has returned Ok scope, and a caller asks for a name.
Create(p, n) ==
  /\ Len(issued) \in Len(given)..(MaxNames - 1) /\ duplicates = {}
  /\ create_name(p, n)
  /\ UNCHANGED <<given, duplicates>>

\* As many suffixes as calls are enough: every one skipped is another name.
ScopeNext == \E n \in 0..MaxNames : add_unique_name(n) \/ \E p \in Prefix : Create(p, n)

ScopeSpec == create_scope /\ [][ScopeNext]_scopeVars

-----------------------------------------------------------------------------
(* Properties *)

\* No name is returned twice, whatever mixture of rule names and prefixes is
\* asked for.
Unique ==
  \A i, j \in DOMAIN issued : issued[i].name = issued[j].name => i = j

\* The counters lose nothing: a name is the first candidate for its prefix
\* that no earlier call has returned, so a scope made of the names of another
\* one goes on like it.  Names_proofs proves it of every scope.
LeastFree ==
  \A i \in DOMAIN issued : \A m \in 0..(issued[i].n - 1) :
    \E j \in 1..(i - 1) : issued[j].name = Cat(issued[i].prefix, m)

\* init_scope says Ok if and only if the names it is given are different, and
\* then each of them is the name of itself.
InitOk ==
  Len(issued) >= Len(given) =>
    /\ duplicates = {} <=> \A i, j \in DOMAIN given : given[i] = given[j] => i = j
    /\ duplicates = {} => \A i \in DOMAIN given : issued[i].name = given[i]
=============================================================================
