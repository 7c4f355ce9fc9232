SPECIFICATION Spec
CONSTANTS
    m1 = m1
    m2 = m2
    w1 = w1
    w2 = w2
    Ids = {m1}
    Length <- TwoFull
    PartSizes = {2}
    Encrypted = {}
    Workers = {w1, w2}
    MaxEntries = 1
    MaxNrMessages = 4
    MaxSends = 1
    MaxReceives = 4
SYMMETRY WorkerSymmetry
INVARIANT FullEntryStored
CHECK_DEADLOCK FALSE
