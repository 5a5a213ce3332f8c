SPECIFICATION Spec
CONSTANTS
    Requests = {r1, r2}
    Started <- MCStarted
    MaxSweeps = 1
    MaxFail = 1
INVARIANTS ServerInv StopsSynced
PROPERTIES ReachesDisk StopEnds
CHECK_DEADLOCK FALSE
