SPECIFICATION MCSpec
CONSTANTS
    Ids = {p1, p2}
    Boxes = {b1, b2}
    None = None
    MaxClicks = 2
    MaxFaults = 2
    MaxOutside = 3
INVARIANTS
    WindowInv
    CoreIsUsedInTurn
    StopHasProfile
    UserStopHonoured
PROPERTIES
    NothingHangs
CHECK_DEADLOCK FALSE
