SPECIFICATION Spec
CONSTANTS
    Build = {b1, b2}
    Columns = {"x", "y"}
    Batches <- MCBatches
    Declarations <- MCDeclarations
    Configurations <- MCConfigurations
    Partitions = {"none", "day"}
    MaxBatches = 2
INVARIANTS
    NoUnknownColumn
    ValuesSurviveOrAreReported
PROPERTIES
    TableOnlyGrows
