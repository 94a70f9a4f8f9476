SPECIFICATION FairSpec
CONSTANTS
    p1 = p1
    p2 = p2
    c1 = c1
    c2 = c2
    k1 = k1
    k2 = k2
    A = A
    B = B
    NoData = NoData
    Workers = {w1, w2}
    Partitions = {p1}
    Configs = {c1}
    Hashes = {k1}
    NameOf <- OwnNames
    StreamIDs = {A, B}
    Projected = {A, B}
    N = 2
    Log <- OneRound
    LogLen <- MCLogLen
    Records <- MCRecords
    ConfigOf <- MCConfigOf
    PayloadOf <- MCPayloadOf
    KeyDef <- SingleField
    Sha256 <- MCSha256
    StreamOf <- MCStreamOf
    Malformed <- NoRecords
    BitsOf <- ExactBits
    HasRedis = TRUE
    HasTTL = TRUE
    PartialEgress = TRUE
    Corrections = TRUE
    HasDelay = FALSE
    MaxAttempts = 3
    MayEvict = FALSE
    MaxFaults = 1
    MaxCallFaults = 0
INVARIANTS
    TypeOK
    PartialsFollowedUp
PROPERTIES
    ScheduledAnswered
CHECK_DEADLOCK FALSE
