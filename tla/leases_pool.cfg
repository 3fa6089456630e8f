CONSTANTS
    a = a
    b = b
    NoRun = NoRun
    Run <- TwoRuns
    Stream = {1, 2, 3, 4}
    Selections <- Everything
    Threads = 2
    MaxParallel = 2
    Stale = 2
    Interval = 1
    MaxGap = 1
    MaxMissed = 0
    Signals = 1
SPECIFICATION FairSpec
CHECK_DEADLOCK FALSE
INVARIANTS
    CapRespected
    OverlapOnlyInShutdown
PROPERTIES
    LiveLeaseKeepsOwner
    RunEnds
