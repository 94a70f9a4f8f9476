SPECIFICATION FairSpec
CONSTANTS
    p1 = p1
    p2 = p2
    c1 = c1
    c2 = c2
    k1 = k1
    k2 = k2
    A = A
    B = B
    NoData = NoData
    Workers = {w1, w2}
    Partitions = {p1, p2}
    Configs = {c1}
    Hashes = {k1, k2}
    NameOf <- OwnNames
    StreamIDs = {A, B}
    Projected = {A, B}
    N = 2
    Log <- TwoPartitions
    LogLen <- MCLogLen
    Records <- MCRecords
    ConfigOf <- MCConfigOf
    PayloadOf <- MCPayloadOf
    KeyDef <- Composite
    Sha256 <- MCSha256
    StreamOf <- MCStreamOf
    Malformed <- NoRecords
    BitsOf <- ExactBits
    HasRedis = FALSE
    HasTTL = FALSE
    PartialEgress = FALSE
    Corrections = FALSE
    HasDelay = TRUE
    MaxAttempts = 3
    MayEvict = FALSE
    MaxFaults = 0
    MaxCallFaults = 0
INVARIANTS
    NothingRepeated
    JoinsAgree
PROPERTIES
    JoinPublished
CHECK_DEADLOCK FALSE
