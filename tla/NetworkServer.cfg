SPECIFICATION Spec
CONSTANTS
    c1 = c1
    c2 = c2
    Conns = {c1, c2}
    DbKeys <- MCKeys
    Scenarios <- MCScenarios
    max_inline_len = 8
    max_bulk_len = 9
    max_buffer_len = 200
    max_aggregate_len = 9
    max_nesting_depth = 2
    max_decoded_nodes = 20
    max_parse_work = 400
    I64Max = 999
    MAX_BATCH_SIZE = 2
    MAX_UNAUTHENTICATED_BUFFER_SIZE = 150
    MaxRetries = 1
    BufferSize = 1
    ThresholdPercent = 100
    MaxBatchSize = 2
    MaxIds = 3
    MinConnections = 0
    TaskCapacity = 1
    compaction_trigger_threshold = 1
INVARIANTS
    SessionOrder
    RepliesDecode
    ReadYourWrites
PROPERTIES
    CommandsAnswered
    Drains
CHECK_DEADLOCK FALSE
