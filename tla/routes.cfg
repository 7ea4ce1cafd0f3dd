SPECIFICATION MCSpec
CONSTANTS
    MaxChains = 3
    MaxNews = 2
    MaxStarts = 1
INVARIANTS
    RoutesInv
    CurrentExists
CHECK_DEADLOCK FALSE
