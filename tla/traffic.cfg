SPECIFICATION MCSpec
CONSTANTS
    g = g
    a = a
    b = b
    c = c
    Profiles = {a, b, c, g}
    Chains = {c}
    Way <- Shared
    Startable = {a, c, g}
    Tested = {c}
    Deleted = {a}
    MaxCarried = 2
    None = None
    MaxOutside = 4
INVARIANTS
    TypeOK
    StopFindsItems
    
    
CHECK_DEADLOCK FALSE
