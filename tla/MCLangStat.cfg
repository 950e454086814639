SPECIFICATION Spec
CONSTANTS
  ProjectLists <- MCProjectLists
  Leftovers <- MCLeftovers
  MaxLength = 4
  normal_max_length = 2
  highlight_max_length = 3
  lines_before = 1
  lines_after = 1
INVARIANTS
  ErrorsLocated
  RowsAddUp
  ClustersAddUp
CHECK_DEADLOCK FALSE
