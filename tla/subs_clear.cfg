SPECIFICATION MCSpec
CONSTANTS
    s1 = s1
    s2 = s2
    s3 = s3
    g1 = g1
    g2 = g2
    g3 = g3
    Servers = {s1, s2, s3}
    AddressOf <- Addresses
    Invalid = {s1}
    Groups = {g1}
    Order <- OneOrder
    Skipped = {}
    Catalogues <- Triples
    Downloads <- OneDownload
    SubClear = TRUE
    RmDuplicates = TRUE
    RmInvalid = FALSE
    Updates = {u1}
    MaxEnts = 10
    None = None
    MaxOutside = 2
PROPERTIES
    ClearClears
CHECK_DEADLOCK FALSE
