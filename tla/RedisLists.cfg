SPECIFICATION Spec
CONSTANTS
    Keys = {k1, k2}
    Values = {"a", "b"}
    PushArgs <- MCPushArgs
    Ranges <- MCRanges
    Readers = {r1}
    MaxLength = 4
    MaxVersion = 4
SYMMETRY ListSymmetry
CHECK_DEADLOCK FALSE
INVARIANTS
    
    IndexesAgree
    ElementsWereThere
