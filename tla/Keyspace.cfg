CONSTANTS
    Keys = {1, 2, 3, 4, 5}
    MaxCount = 20
    I64Min <- MCI64Min
    I64Max = 30
    FloatMax = 20
    StringMax = 4
    BitOffsetMax = 15
    MicrosPerMilli = 2
    MicrosPerSecond = 4
    U64Max = 61
    Instances = {1, 2}
    key_to_slot_id <- MCSlots
    MaxSafePopCount = 4
    ClusterFlushAllowed = TRUE
    VectorEnabled = TRUE
    VectorClusterAllowed = FALSE
    VectorConfig = NoVectors
    Focuses <- MCFocuses
    Setup <- MCSetup
    WriteLines <- MCWriteLines
    Lines <- MCLines
    BadLines <- MCBadLines
    MaxVersion <- MCMaxVersion
    MaxLength = 3
    MaxScore = 4
    MaxDrift = 2
    MaxNow = 5

SPECIFICATION Spec

INVARIANTS
    CommandsAnswer
    ScansAreComplete
    

PROPERTIES
    ExpiredIsCleaned

CHECK_DEADLOCK FALSE
