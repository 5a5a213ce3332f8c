SPECIFICATION RoutersSpec
CONSTANTS
    Tenants = {t1}
    Nodes = {n1}
    Elsewhere = elsewhere
    Restarting = {}
    Answered = 2
    Terms = {1,2}
    Share = 2
    MaxTime = 4
    MaxProc = 1
    MaxGrant = 2
    MaxReading = 2
INVARIANTS OnePrimary RecordCovers
CHECK_DEADLOCK FALSE
