CONSTANTS
    r1 = r1
    r2 = r2
    r3 = r3
    r4 = r4
    None = None
    Row <- MCRow
    CursorOf <- TiedCursor
    Initial = 0
    Inclusive = FALSE
    Lookback = 2
    Lateness = 2
    MinBatchRows = 2
    MaxBatch = 2
    FlushInterval = 2
    SinceValues = {0}
    SinceAhead = FALSE
    MaxSetbacks = 2
SPECIFICATION FairSpec
PROPERTIES
    DataAndCursorFlipTogether
    ImplementsPromise
    Delivered
