SPECIFICATION MCFairSpec
CONSTANTS
    s1 = s1
    s2 = s2
    s3 = s3
    g1 = g1
    g2 = g2
    g3 = g3
    Servers = {s1, s2, s3}
    AddressOf <- Addresses
    Invalid = {s1}
    Groups = {g1, g2, g3}
    Order <- ThreeOrder
    Skipped = {g2}
    Catalogues <- Pairs
    Downloads <- FewDownloads
    SubClear = FALSE
    RmDuplicates = TRUE
    RmInvalid = TRUE
    Updates = {u1, u2}
    MaxEnts = 14
    None = None
    MaxOutside = 2
INVARIANTS
    TypeOK
PROPERTIES
    RemoteOrder
    KeptOrGone
    RoundVisitsAll
    RoundEnds
CHECK_DEADLOCK FALSE
