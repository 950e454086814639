---------------------------- MODULE UniqueNames -----------------------------
(***************************************************************************)
(* What Protect_ident promises: "a 1:1 map of translations from 'src' to   *)
(* 'dst', ensuring 'dst' is not reserved or already taken by a different   *)
(* translation", each remembered once it is made.                          *)
(***************************************************************************)
CONSTANTS
  Src,       (* what is translated                                         *)
  Reserved,  (* destinations that no source may have                       *)
  Fixed      (* the translations made in advance, those of reserved words  *)

VARIABLE map (* a function on the sources translated so far                *)

Taken(m) == {m[s] : s \in DOMAIN m}

Init == map = Fixed

\* A new source gets a destination that is neither reserved nor taken.
Assign(src) ==
  /\ src \notin DOMAIN map
  /\ DOMAIN map' = DOMAIN map \cup {src}
  /\ \A s \in DOMAIN map : map'[s] = map[s]
  /\ map'[src] \notin Reserved \cup Taken(map)

Next == \E src \in Src : Assign(src)

Spec == Init /\ [][Next]_map
=============================================================================
