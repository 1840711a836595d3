CONSTANTS
    Keys = {k1, k2}
    Members = {a, b}
    Kinds = {"set", "hash", "vector"}
    FaultyKinds = {"set", "hash"}
    MaxSteps = 5
    MaxTtl = 2
    MayRetime = FALSE
SPECIFICATION Spec
INVARIANTS
    
    GarbageCollected
