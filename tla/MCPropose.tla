------------------------------ MODULE MCPropose -----------------------------
(***************************************************************************)
(* Bounds for Propose.                                                     *)
(***************************************************************************)
EXTENDS Propose, TLC

CONSTANTS php, ruby, here, there

TwoLangs  == {php, ruby}
OneClone  == {here}
TwoClones == {here, there}

OpenPRs == {{"open_pr"}}
Modes   == {{}, {"open_pr"}, {"dry_run"}, {"open_pr", "dry_run"}}

\* An agent that edits a test and core/ or creates a file, of a language that
\* may be its own; one that edits what it likes.
SomeEdits == {{<<php, "tests">>, Core}, {<<ruby, "created">>}}
AllEdits  == LET x == {<<php, "tests">>}
                 y == {<<ruby, "created">>, Elsewhere}
             IN  {{}, x, y, x \cup y}
=============================================================================
