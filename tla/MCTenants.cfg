CONSTANTS
    t1 = t1
    t2 = t2
    t3 = t3
    Threads = {t1, t2, t3}
    Settings <- MCSettings
SPECIFICATION Spec
INVARIANTS RegistryInv AnsweredKept StoppedSynced FrozenButSwept PromotionStands
PROPERTY OpsEnd
CHECK_DEADLOCK FALSE
