SPECIFICATION MCFairSpec
CONSTANTS
    a = a
    b = b
    f = f
    x = x
    Profiles = {a, b, f, x}
    Full = {f}
    LeftOut = {x}
    Groups <- Mixed
    Calls = 2
    MaxPosted = 1
    MaxStops = 1
    Zero = a
    None = None

    
PROPERTIES
    SavedInCommon
    TestsEnd
CHECK_DEADLOCK FALSE
