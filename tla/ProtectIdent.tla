---------------------------- MODULE ProtectIdent ----------------------------
(***************************************************************************)
(* Protect_ident.ml: a translation of identifiers that avoids reserved     *)
(* words and collisions by trying suffixes.  A call of add_translation is  *)
(* taken one candidate at a time, because nothing bounds their number.     *)
(***************************************************************************)
EXTENDS Suffixes

CONSTANTS
  Preferred(_),  (* what the caller would have a source translated to      *)
  Src,           (* the sources translated                                 *)
  Reserved,      (* reserved_dst                                           *)
  NumGood,       (* the number of good_suffixes                            *)
  Random         (* the suffixes Random.bits may give                      *)

\* What create does not accept is not a state of a program that runs.
ASSUME ProtectIdentAssumption ==
  /\ NumGood \in Nat /\ Random \subseteq Nat
  /\ \A r \in Reserved : Cat(r, 1) \notin Reserved
  /\ \A r, s \in Reserved : Cat(r, 1) = Cat(s, 1) => r = s

VARIABLES
  forward, backward,  (* the two tables, as functions                      *)
  call                (* <<>>, or the source of the call in progress and   *)
                      (* the number of suffixes it has tried               *)

mapVars == <<forward, backward, call>>

create == [r \in Reserved |-> Cat(r, 1)]

MapInit ==
  /\ forward = create
  /\ backward = [d \in {Cat(r, 1) : r \in Reserved} |-> CHOOSE r \in Reserved : Cat(r, 1) = d]
  /\ call = <<>>

replace(table, a, b) == [x \in DOMAIN table \cup {a} |-> IF x = a THEN b ELSE table[x]]

\* Mutant: two sources may get one destination.
AvailableForward(src, dst) == dst \notin Reserved /\ src \notin DOMAIN forward

Available(src, dst) ==
  dst \notin Reserved /\ src \notin DOMAIN forward /\ dst \notin DOMAIN backward

\* Mutant: a translation made before is not recognized.
ValidNever(src, dst) == FALSE

Valid(src, dst) ==
  /\ dst \notin Reserved
  /\ src \in DOMAIN forward /\ dst \in DOMAIN backward
  /\ backward[dst] = src /\ forward[src] = dst

\* Mutant: the table of destinations is forgotten.
force_addForward(src, dst) ==
  /\ forward' = replace(forward, src, dst)
  /\ UNCHANGED backward

force_add(src, dst) ==
  /\ forward' = replace(forward, src, dst)
  /\ backward' = replace(backward, dst, src)

Call(src) ==
  /\ call = <<>>
  /\ call' = <<src, 0>>
  /\ UNCHANGED <<forward, backward>>

\* good_suffixes first, random numbers after them.
Suffixes(k) == IF k < NumGood THEN {k} ELSE Random

try_suffix(n) ==
  /\ call # <<>> /\ n \in Suffixes(call[2])
  /\ LET src == call[1]
         dst == Cat(Preferred(src), n)
     IN  \/ /\ Available(src, dst)
            /\ force_add(src, dst)
            /\ call' = <<>>
         \/ /\ Valid(src, dst)
            /\ call' = <<>>
            /\ UNCHANGED <<forward, backward>>
         \/ /\ ~Available(src, dst) /\ ~Valid(src, dst)
            /\ call' = <<src, IF call[2] < NumGood THEN call[2] + 1 ELSE call[2]>>
            /\ UNCHANGED <<forward, backward>>

Suffix == 0..NumGood \cup Random
Try == \E n \in Suffix : try_suffix(n)

add_translation == Try \/ \E src \in Src : Call(src)

MapSpec == MapInit /\ [][add_translation]_mapVars

-----------------------------------------------------------------------------
(* Properties *)

MapTypeOK ==
  /\ DOMAIN forward \subseteq Src \cup Reserved
  /\ call # <<>> => call \in Src \X (0..NumGood)

\* The two tables are inverses of each other: no two identifiers of a grammar
\* become one identifier of the generated code.
Bijection ==
  /\ \A s \in DOMAIN forward : forward[s] \in DOMAIN backward /\ backward[forward[s]] = s
  /\ \A d \in DOMAIN backward : backward[d] \in DOMAIN forward /\ forward[backward[d]] = d

U == INSTANCE UniqueNames WITH map <- forward, Fixed <- create

\* "This translation is remembered": the forward table is a map of unique
\* names that only grows, whatever is asked for and in which order.
ImplementsUniqueNames == U!Spec
=============================================================================
