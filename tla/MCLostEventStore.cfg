CONSTANTS
    a = a
    b = b
    Threads <- MCThreads
    Nobody = Nobody
    CompressAfterDays = 1
    DeleteAfterDays = 2
    MaxWrites = 3
    MaxDay = 3
    MaxFaults = 2
SPECIFICATION StoreSpec
SYMMETRY MCSymmetry
CHECK_DEADLOCK FALSE
INVARIANT PayloadsKept
INVARIANT RetentionHolds
