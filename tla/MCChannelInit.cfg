SPECIFICATION Spec
CONSTANTS
  Days = {1}
  Modes = {"primaryPub"}
  N = 2
  MaxIdx = 2
  MaxEpoch = 1
INVARIANT PollSeesInit
CHECK_DEADLOCK FALSE
