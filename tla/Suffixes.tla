------------------------------ MODULE Suffixes ------------------------------
(***************************************************************************)
(* Candidates for a unique name, as Fresh.ml and Protect_ident.ml make     *)
(* them: the name itself, with "_" appended, then with "2", "3"...  The    *)
(* candidates of different names overlap: x_ is the second candidate of x  *)
(* and the first of x_.                                                    *)
(***************************************************************************)
EXTENDS Naturals

CONSTANT Cat(_, _)   (* Cat(p, n) is the n-th candidate for p, from 0      *)
=============================================================================
