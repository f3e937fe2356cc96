SPECIFICATION TapSpec
CONSTANTS
    Size = 2
    MaxBlocks = 3
    Value = {1, 2}
INVARIANT KeepsItsRing
CHECK_DEADLOCK FALSE
