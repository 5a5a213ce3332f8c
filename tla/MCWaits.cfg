CONSTANTS
    r1 = r1
    r2 = r2
    r3 = r3
    Requests = {r1, r2, r3}
    Claims <- MCClaims
    Rows = {1, 2}
    Passes <- MCPasses
    RankOf <- MCRanks
    Racers = 1
    MaxTime = 1
    Settings <- MCSettings
SPECIFICATION LiveSpec
INVARIANTS WaitsInv NothingMissed
PROPERTIES GivenToFirst Served AllAnswered
CHECK_DEADLOCK FALSE
