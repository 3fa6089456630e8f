SPECIFICATION FairSpec
CONSTANTS
    Rows <- MCRows
    PageSize = 2
    MaxRetries = 2
    Apis <- MCApis
    MaxChanges = 1
    MaxRevoked = 1
CHECK_DEADLOCK FALSE
INVARIANTS
    WalkIsExact
    OnlyRevocationLocksOut
    TroubleIsOutlasted
PROPERTIES
    EveryWalkEnds
