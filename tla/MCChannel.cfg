SPECIFICATION FairSpec
CONSTANTS
  Days = {1, 2}
  Modes = {"primaryPub", "tube"}
  N = 2
  MaxIdx = 2
  MaxEpoch = 2
INVARIANTS
  TypeOK
  WindowRetained
PROPERTIES
  HeaderStays
  VisitNeverStale
  SubscriberCatchesUp
CHECK_DEADLOCK FALSE
