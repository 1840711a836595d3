CONSTANTS
    k1 = k1
    k2 = k2
    a = a
    b = b
    Keys <- MCKeys
    Members <- MCMembers
    from_utf8_lossy <- MCUtf8
    Clients = {c1}
    SaddArgs <- MCSaddArgs
    SremArgs <- MCSremArgs
    Queries <- MCQueries
    Destinations = {k2}
    MayMoveToSelf = FALSE
    CountModulus = 16
    MaxVersion = 4
SPECIFICATION Spec
INVARIANTS
    
    SetsAsExpected

