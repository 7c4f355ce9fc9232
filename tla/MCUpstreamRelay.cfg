SPECIFICATION StopSpec
CONSTANTS
    p1 = p1
    p2 = p2
    Partitions = {p1, p2}
    LogEnd <- ThreeAndOne
    Traits <- MixedTraits
    DeliverNumbers <- TwoOfThree
    LostEventGuard = TRUE
    Encryption = TRUE
    RetryLimits = {0, 2}
    MaxCrashes = 1
    MaxLostCommits = 1
    MaxStops = 1
INVARIANTS
    NoRecordSkipped
    SentInOrder
    DuplicatesNeedFault
PROPERTIES
    SigtermEndsProcess
    AllCommitted
