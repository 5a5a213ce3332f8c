CONSTANTS
    t1 = t1
    t2 = t2
    t3 = t3
    Threads = {t1, t2, t3}
    Settings <- SchemaSettings
SPECIFICATION Spec
INVARIANTS FrozenStill
CHECK_DEADLOCK FALSE
