SPECIFICATION MTFairSpec
CONSTANTS
  Kind <- MCKind
  Exp <- MCExp
  RootExp <- MCRootExp
  Input <- MCInput
  Ways <- MCWays
INVARIANTS
  IndexesInBounds
  TokensConserved
  ChoicesNested
  FirstWay
PROPERTIES
  ImplementsMatcher
  Terminates
CHECK_DEADLOCK FALSE
