SPECIFICATION MCSpec
CONSTANTS
    p1 = p1
    f1 = f1
    x1 = x1
    Profiles = {p1, f1, x1}
    Full = {f1}
    ExtraCore = {}
    Invalid = {x1}
    FullTag = 1
    Lists <- Parts
    Group = Group
    None = None
    MaxSessions = 2
    PoolSize = 2
    Started = {p1}
    MaxOutside = 1
    MaxTested = 3
INVARIANTS
    TestsInTurn
    CounterIsAlive
    ResultsInv
    StopInv
PROPERTIES
    TestsEnd
CHECK_DEADLOCK FALSE
