----------------------------- MODULE MCRelease -----------------------------
(***************************************************************************)
(* typescript, whose grammar has two dialects with a repository each; two  *)
(* commits of the grammar and two versions of tree-sitter.                 *)
(***************************************************************************)
EXTENDS Release

MCCommits  == {"c0", "c1"}
MCVersions == {"v0", "v1"}
MCDialects == {"typescript", "tsx"}
=============================================================================
