SPECIFICATION LoopSpec
CONSTANTS
    Workers = {w1}
    Partitions = {p1}
    p1 = p1
    p2 = p2
    None = None
    LogLen <- MCLogLen
    Reliable <- LaterRecords
    NoHandler <- NoRecords
    MaxAttempts = 3
    MayEvict = FALSE
    MaxFaults = 0
INVARIANTS
    NoRecordSkipped
CHECK_DEADLOCK FALSE
