SPECIFICATION Spec
CONSTANTS
    Callers = {c1, c2}
    Passes = {s1}
    MaxRetries = 1
    QueueSize = 1
    PassSize = 1
    BreakerThreshold = 2
    RecoveryThreshold = 2
PROPERTIES
    CallsEnd
    Recovers
CHECK_DEADLOCK FALSE
