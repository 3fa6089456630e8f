CONSTANTS
    a = a
    b = b
    NoRun = NoRun
    NotRead = NotRead
    Run <- TwoRuns
    Stream = {1}
    Shared = 1
    Selections <- Everything
    Threads = 1
    MaxParallel = 1
    Stale = 1
    Interval = 1
    MaxGap = 2
    MaxMissed = 0
    Signals = 1
    MaxRow = 3
SPECIFICATION SharedSpec
CHECK_DEADLOCK FALSE
INVARIANTS
    NothingSkipped
