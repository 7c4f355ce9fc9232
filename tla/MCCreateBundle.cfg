SPECIFICATION MCCreateSpec
CONSTANTS
    Windows = {0, 3}
    GapWindowSize = 3
    Values <- TwoGaps
    NrPartitions = 2
    Place <- Crossed
    Limits = {"all", "first"}
    MaxOffset = 3
INVARIANTS
    BundleFresh
    BundleExact
PROPERTY CreateFinishes
CHECK_DEADLOCK FALSE
