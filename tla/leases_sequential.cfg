CONSTANTS
    a = a
    b = b
    NoRun = NoRun
    Run <- TwoRuns
    Stream = {1, 2}
    Selections <- NonEmpty
    Threads = 1
    MaxParallel = 2
    Stale = 4
    Interval = 1
    MaxGap = 1
    MaxMissed = 1
    Signals = 1
SPECIFICATION FairSpec
CHECK_DEADLOCK FALSE
INVARIANTS
    NoDoubleRun
    WorkingLeaseIsLive
PROPERTIES
    EndedRunHoldsNoLease
    DeadLeaseExpires
