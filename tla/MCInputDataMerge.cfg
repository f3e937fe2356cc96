SPECIFICATION Spec
CONSTANTS
  Readers = {x1}
  Days = {d1, d2}
  Files <- MCFiles
  Wanted <- MCWanted
  Overlap = TRUE
  MaxCalls = 5
PROPERTY MergeKeepsColumns
CHECK_DEADLOCK FALSE
