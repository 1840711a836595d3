CONSTANTS
    Keys = {1, 2, 3}
    MaxCount = 20
    I64Min <- MCI64Min
    I64Max = 5
    FloatMax = 6
    StringMax = 3
    BitOffsetMax = 15
    MicrosPerMilli = 1
    MicrosPerSecond = 2
    U64Max = 20
    Instances = {1}
    key_to_slot_id <- MCSlots
    MaxSafePopCount = 4
    ClusterFlushAllowed = TRUE
    VectorEnabled = TRUE
    VectorClusterAllowed = TRUE
    VectorConfig <- MCVectorConfig
    Focuses <- MCFocuses
    Setup <- MCSetup
    WriteLines <- MCWriteLines
    Lines <- MCLines
    BadLines <- MCBadLines
    MaxVersion <- MCMaxVersion
    MaxLength = 3
    MaxScore = 4
    MaxDrift = 3
    MaxNow = 3

SPECIFICATION Spec

INVARIANTS
    CommandsAnswer
    ScansAreComplete

CHECK_DEADLOCK FALSE
