SPECIFICATION FairSpec
CONSTANTS
  TokenCap = 3
  TurnCap = 2
  MaxTokens = 4
  MaxEvents = 4
INVARIANTS
  OneCancellation
  ReasonJustified
  CleanReturn
PROPERTIES
  UsageKeptAfterCap
  Returns
CHECK_DEADLOCK FALSE
