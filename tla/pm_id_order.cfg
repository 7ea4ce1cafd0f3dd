SPECIFICATION MCSpec
CONSTANTS
    MaxId = 2
    MaxGid = 1
    MaxJobs = 1
    KeyBase = 2
    MaxOps = 5
    MaxExits = 2
    None = None
    Corrupt = Corrupt
INVARIANTS
    SortedById
CHECK_DEADLOCK FALSE
