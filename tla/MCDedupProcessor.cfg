SPECIFICATION Spec
CONSTANTS
    WindowSize = 2
    MaxWindows = 2
    Records <- ThreeWindows
    MaxRaw = 4
    MaxRestarts = 1
INVARIANTS
    TypeOK
    NoRecordLost
    AtMostOnceInRange
    GapTopicBounded
    LegacyRecordsTracked
PROPERTIES
    EmitReportsTheGaps
CHECK_DEADLOCK FALSE
