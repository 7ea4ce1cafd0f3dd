SPECIFICATION MCSpec
CONSTANTS
    MaxId = 2
    MaxGid = 1
    MaxJobs = 1
    KeyBase = 8
    MaxOps = 5
    MaxExits = 2
    None = None
    Corrupt = Corrupt
INVARIANTS
    CatalogueInv
    NewIdsFresh
    RecordsFollow
    SurvivesRestart
PROPERTIES
    DeleteGroupLeavesOnlyStarted
CHECK_DEADLOCK FALSE
