SPECIFICATION MCFairSpec
CONSTANTS
    p1 = p1
    p2 = p2
    p3 = p3
    Proxies = {p1, p2, p3}
    Skipped = {p3}
    LeftOut = {}
    Outcomes <- Mixed
    None = None
    Count = 1
    PoolSize = 1
    RetryCount = 2
    Cycles = {c1, c2}
    Checks = {h1}
    MaxOutside = 3
INVARIANTS
    PoolInv
    FlagIsCleared
PROPERTIES
    StartsWorking
    AllAreTested
    SettlesOnPassing
CHECK_DEADLOCK FALSE
