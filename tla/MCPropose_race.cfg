SPECIFICATION FairSpec
CONSTANTS
  php = php
  ruby = ruby
  here = here
  there = there
  Lang <- TwoLangs
  Clone <- TwoClones
  Args <- OpenPRs
  Edits <- SomeEdits
  Fresh = TRUE
  Inherited = FALSE
  IndexLock = FALSE
  MaxRuns = 2
INVARIANTS
  UpdatedMeansPR
PROPERTIES
  OneProposal
  PushedIsTested
  RunsEnd
CHECK_DEADLOCK FALSE
