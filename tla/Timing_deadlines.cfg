SPECIFICATION TimingSpec
CONSTANTS
    k1 = k1
    k2 = k2
    A = A
    B = B
    Keys = {k1, k2}
    StreamIDs = {A, B}
    N = 2
    BitsOf <- SharedBits
    Second = 2
    TTL = 5
    PollInterval = 2
    BatchSize = 1
    RowTTL = 16
    Rounds = 1
    ArriveBy = 5
    MaxTime = 22
    MaxRefusals = 1
    MaxCrashes = 1
    MaxDown = 2
INVARIANTS
    AnsweredInTime
    NoEventExpires
    JoinedWhenInTime
CHECK_DEADLOCK FALSE
