CONSTANTS
    Ids <- MCIds
    MaxSeq = 3
    MaxTime = 2
    Settings <- MCSettings
    RingCap = 2
SPECIFICATION Spec
INVARIANTS LooksInv
PROPERTIES AmongPicksAsWhole
CHECK_DEADLOCK FALSE
