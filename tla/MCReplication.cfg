CONSTANTS
    a = a
    b = b
    c = c
    Servers = {a, b, c}
    Settings <- MCSettings
SPECIFICATION MCSpec
INVARIANTS HistoryInv Prefix NoneAhead
PROPERTY CatchesUp
CHECK_DEADLOCK FALSE
