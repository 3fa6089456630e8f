CONSTANTS
    duckdb = duckdb
    bigquery = bigquery
    N = 4
    Dests = {duckdb, bigquery}
    DestOf <- MCDestOf
    OwnCap <- MCOwnCap
    Fragile = {1, 3}
    MaxThreads = 3
    MaxFaults = 1
    MaxSignals = 2
SPECIFICATION SweepSpec
INVARIANTS
    CapsHold
    AnswersMatchRecords
    OnlySignalsStopTheSweep
PROPERTIES
    SweepEnds
