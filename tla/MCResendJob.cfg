SPECIFICATION FairSpec
CONSTANTS
    Partitions = {0, 1}
    Configs <- SomeConfigs
    Logs <- SomeLogs
    NrOffsets = 2
    MaxReaders = 2
    MaxOffset = 3
    MaxChanges = 2
INVARIANTS
    OnlyRequestedSent
    AllRequestedSent
PROPERTIES
    JobEnds
CHECK_DEADLOCK FALSE
