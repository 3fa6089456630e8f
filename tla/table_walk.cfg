CONSTANTS
    None = None
    Pk <- MCPk
    Lookback = 2
    Lateness = 1
    Bulk = FALSE
    Sweeps = {TRUE, FALSE}
    PageSize = 2
    MaxPages = 1
    MinBatchRows = 3
    MaxStamp = 4
    MaxSetbacks = 1
SPECIFICATION FairSpec
INVARIANTS
    PassedRowsLanded
PROPERTIES
    SweepKeepsGround
    CatchesUp
