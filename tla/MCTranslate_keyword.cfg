SPECIFICATION Spec
CONSTANTS
  Grammars <- KeywordGrammars
  MaxDepth = 3
  MaxRepeat = 2
  MaxEdits = 1
INVARIANT
  Translated
CHECK_DEADLOCK FALSE
