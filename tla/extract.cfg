SPECIFICATION FairSpec
CONSTANTS
    Rows = {1, 2}
    Broken = {2}
    Parts = {1, 2}
    PartOf <- MCPartOf
    Horizon = 4
    Lookback = 1
    Lag = 1
    Span = 3
    Cap = 1
    Streams <- MCStreams
    MaxChanges = 2
    MaxKills = 1
INVARIANTS
    PassedIsLanded
    SteadyRunIsExact
PROPERTIES
    CatchesUp
