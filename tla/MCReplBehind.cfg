CONSTANTS
    a = a
    b = b
    c = c
    Servers = {a, b, c}
    Settings <- BehindSettings
SPECIFICATION MCSpec
INVARIANTS Prefix
CHECK_DEADLOCK FALSE
