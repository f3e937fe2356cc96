SPECIFICATION Spec
CONSTANTS
  Size = 8
  Lens = {2, 3}
  MaxSeq = 4
  MaxEpoch = 2
INVARIANTS
  TypeOK
  FindsNext
  LastIntact
CHECK_DEADLOCK FALSE
