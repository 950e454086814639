SPECIFICATION Spec
CONSTANTS
  Inputs <- MCInputs
  entrypoint = "p"
  Extras <- MCExtras
  NewNames <- MCNewNames
  MinUses = 2
  MinSize = 3
INVARIANTS
  NoCyclicAbbreviation
  DefinedBeforeUse
  SameTypes
CHECK_DEADLOCK FALSE
