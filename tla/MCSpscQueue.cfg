SPECIFICATION FairSpec
CONSTANTS
  Values = {v1, v2}
  Raw = Raw
  Capacity = 3
INVARIANTS
  TypeOK
  NoDataRace
  SlotLifetimes
  HeldIsLive
PROPERTIES
  ImplementsFifo
  EmplaceReturns
