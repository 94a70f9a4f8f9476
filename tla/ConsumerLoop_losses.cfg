SPECIFICATION LoopSpec
CONSTANTS
    Workers = {w1, w2}
    Partitions = {p1, p2}
    p1 = p1
    p2 = p2
    None = None
    LogLen <- MCLogLens
    Reliable <- LaterRecords
    NoHandler <- MiddleRecord
    MaxAttempts = 2
    MayEvict = TRUE
    MaxFaults = 2
SYMMETRY WorkerSymmetry
INVARIANTS
    LoopTypeOK
    LossAccounted
PROPERTIES
    CommitMonotone
CHECK_DEADLOCK FALSE
