SPECIFICATION FairSpec
CONSTANTS
    Players = {p1, p2}
    Tokens = {t1, t2}
    Writers = {w1, w2}
    Inodes = {i1, i2}
    MaxPerTick = 2
    MaxTime = 1
    Clients = {"p1", "p2"}
    Slots <- MCSlots
    Limit = 2
    Window = 1
    FailLimit = 1
    FailWindow = 1
    MaxSources = 1
    MaxDelay = 1
    None = None
INVARIANTS
    LimitsTypeOK
    CacheIsCurrent
PROPERTIES
    ImplementsRegistry
    WindowsRespected
    ServedAgain
CHECK_DEADLOCK FALSE
