SPECIFICATION FilterSpec
CONSTANTS
    Types = {1, 2, 3}
    Addressless = {2, 3}
    Custom = 3
    Addresses = {1, 2, 3}
    Beans = {1, 2}
    Keys <- AllKeys

INVARIANTS
    OneIsKept
    KeepsFirstOfEach

CHECK_DEADLOCK FALSE
