SPECIFICATION Spec
CONSTANTS
    Tenants = {t1}
    Nodes = {n1}
    Elsewhere = elsewhere
    Restarting = {n1}
    Answered = 1
    Terms = {2}
    Share = 2
    MaxTime = 4
    MaxProc = 0
    MaxGrant = 2
    MaxReading = 4
INVARIANTS OnePrimary WithheldTracked LeaseInv
CHECK_DEADLOCK FALSE
