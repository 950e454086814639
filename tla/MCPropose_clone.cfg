SPECIFICATION Spec
CONSTANTS
  php = php
  ruby = ruby
  here = here
  there = there
  Lang <- TwoLangs
  Clone <- OneClone
  Args <- Modes
  Edits <- AllEdits
  Fresh = FALSE
  Inherited = TRUE
  IndexLock = TRUE
  MaxRuns = 2
INVARIANTS
  Restored
PROPERTIES
  CarriedOver
CHECK_DEADLOCK FALSE
