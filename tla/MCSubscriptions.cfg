CONSTANTS
    Ids = {1, 2}
    Vals <- MCVals
    Shape <- MCShape
    MaxSeq = 3
    MaxTime = 2
    Settings <- MCSettings
    RingCap = 1
SPECIFICATION LiveSpec
INVARIANTS StreamInv AsleepIsTold
PROPERTIES Converges
CHECK_DEADLOCK FALSE
