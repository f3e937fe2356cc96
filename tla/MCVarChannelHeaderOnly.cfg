SPECIFICATION Spec
CONSTANTS
  Size = 8
  Lens = {1, 2}
  MaxSeq = 8
  MaxEpoch = 1
INVARIANT FindsNext
CHECK_DEADLOCK FALSE
