SPECIFICATION FairSpec
CONSTANTS
    NrSlots = 2
    Automatic = TRUE
    Aging = TRUE
    NrKeys = 4
    NrIdentities = 3
    MaxPins = 3
    MaxRotationRecords = 3
    MaxEdits = 2
    MaxAdmin = 1
    MaxFaults = 2
CHECK_DEADLOCK FALSE
INVARIANTS
    SessionsAuthorized
    InstalledOnce
    IdentityTrusted
PROPERTY RotationCompletes
