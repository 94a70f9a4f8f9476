SPECIFICATION FairSpec
CONSTANTS
    p1 = p1
    p2 = p2
    c1 = c1
    c2 = c2
    k1 = k1
    k2 = k2
    A = A
    B = B
    NoData = NoData
    Workers = {w1, w2}
    Partitions = {p1}
    Configs = {c1, c2}
    Hashes = {k1}
    NameOf <- OwnNames
    StreamIDs = {A, B}
    Projected = {A, B}
    N = 2
    Log <- TwoConfigs
    LogLen <- MCLogLen
    Records <- MCRecords
    ConfigOf <- MCConfigOf
    PayloadOf <- MCPayloadOf
    KeyDef <- SingleField
    Sha256 <- MCSha256
    StreamOf <- MCStreamOf
    Malformed <- NoRecords
    BitsOf <- ExactBits
    HasRedis = TRUE
    HasTTL = FALSE
    PartialEgress = FALSE
    Corrections = FALSE
    HasDelay = TRUE
    MaxAttempts = 2
    MayEvict = FALSE
    MaxFaults = 2
    MaxCallFaults = 0
INVARIANTS
    NoStrandedJoin
    NoRecordSkipped
    PollsOnlyWhenCommitted
PROPERTIES
    DeletedOnlyAfterEgress
    Drained
    JoinPublished
CHECK_DEADLOCK FALSE
