SPECIFICATION FairPurchaseSpec
CONSTANTS
    Customers <- MCCustomers
    Offsets <- MCOffsets
    Initial = 2
    HotFor = 2
    HealReach = 1
    Share = 1
    ColdPerRun = 1
    Settings <- MCSettings
    MaxKills = 1
    Quiet = 3
    End = 8
INVARIANT NoCheckpointIsPassed
PROPERTY PurchasesAreFound
