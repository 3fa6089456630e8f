CONSTANTS
    k1 = k1
    k2 = k2
    None = None
    Key <- MCKey
    Payload <- MCPayload
    MaxAttempts = 2
    MaxBatch = 2
    MaxRun = 2
    MaxFault = 3
SPECIFICATION FairSpec
CHECK_DEADLOCK FALSE
INVARIANTS
    NoSpareCopies
    AckedRowsStay
    ReplaceIsSnapshot
PROPERTIES
    ImplementsWholeBatches
    WriteEnds
