SPECIFICATION Spec
CONSTANTS
    MaxIndex = 4
    MaxLeader = 2
    MayLosePower = TRUE
CHECK_DEADLOCK FALSE
INVARIANTS
    LogIsContiguous
    LeadersAreOrdered
    MemoryIsStored
PROPERTIES ImplementsRaftLog
