SPECIFICATION UpdateSpec
CONSTANTS
  Grammars = {}
  MaxDepth = 2
  MaxRepeat = 2
  MaxEdits = 0
  MaxUpdates = 2
INVARIANTS
  UpstreamParsed
  ConstructsKept
  Lossless
CHECK_DEADLOCK FALSE
