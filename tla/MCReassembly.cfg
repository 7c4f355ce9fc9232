SPECIFICATION FairSpec
CONSTANTS
    m1 = m1
    m2 = m2
    w1 = w1
    w2 = w2
    Ids = {m1, m2}
    Length <- ThreeAndTwo
    PartSizes = {2, 4}
    Encrypted = {m1}
    Workers = {w1, w2}
    MaxEntries = 1
    MaxNrMessages = 4
    MaxSends = 2
    MaxReceives = 6
INVARIANTS
    StoredIntact
    ArrivedIsStored
PROPERTY EntriesGo
CHECK_DEADLOCK FALSE
