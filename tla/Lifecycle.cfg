SPECIFICATION FairSpec
CONSTANTS
    w1 = w1
    w2 = w2
    None = None
    Files <- MCFiles
    Workers = {w1, w2}
    ConfigOf <- MCConfigOf
    MaxDur = 4
    Backoff = 1
    MaxBackoff = 2
    AttemptTime = 1
    MaxOutages = 1
    MaxFaults = 1
INVARIANTS
    RunsOnlyPrepared
    GivesUpInTime
PROPERTIES
    ReachableIsAwaited
    KeepsRunning
CHECK_DEADLOCK FALSE
