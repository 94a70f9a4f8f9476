SPECIFICATION TimingSpec
CONSTANTS
    k1 = k1
    k2 = k2
    A = A
    B = B
    Keys = {k1}
    StreamIDs = {A, B}
    N = 2
    BitsOf <- SharedBits
    Second = 2
    TTL = 5
    PollInterval = 2
    BatchSize = 1
    RowTTL = 16
    Rounds = 2
    ArriveBy = 9
    MaxTime = 26
    MaxRefusals = 0
    MaxCrashes = 0
    MaxDown = 2
INVARIANTS
    NoEventExpires
CHECK_DEADLOCK FALSE
