SPECIFICATION Spec
CONSTANTS
  Readers = {x1, x2}
  Days = {d1, d2}
  Files <- MCFiles
  Wanted <- MCWanted
  Overlap = FALSE
  MaxCalls = 5
SYMMETRY Perms
INVARIANTS TypeOK DeletedOnce ColumnsTrue NamesDistinct
CHECK_DEADLOCK FALSE
