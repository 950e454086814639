SPECIFICATION Spec
CONSTANTS
  Grammars <- MCGrammars
  MaxDepth = 3
  MaxRepeat = 2
  MaxEdits = 2
INVARIANTS
  Translated
  NoException
  ExtrasRight
  ErrorsReported
  Lossless
CHECK_DEADLOCK FALSE
