SPECIFICATION FairSpec
CONSTANTS
  Cat <- MCCat
  Visible <- MCVisible
  Preferred <- Itself
  Given <- MCGiven
  Prefix <- MCPrefix
  MaxNames = 5
  Src <- MCSrc
  Reserved <- MCReserved
  NumGood = 6
  Random = {77}
INVARIANTS
  Unique
  InitOk
  Bijection
  OneTypePerRule
PROPERTIES
  ImplementsUniqueNames
  Answers
CHECK_DEADLOCK FALSE
