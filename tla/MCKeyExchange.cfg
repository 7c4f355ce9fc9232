SPECIFICATION Spec
CONSTANTS
    w1 = w1
    w2 = w2
    a = a
    b = b
    Absent = Absent
    Unreadable = Unreadable
    Contents = {a, b, Absent, Unreadable}
    Senders = {"upstream"}
    Transports = {"udp", "tcp"}
    MinInterval = 0
    Workers = {w1, w2}
    Pairs = {a, b}
    NrFiles = 2
    MaxKeys = 2
    MaxTime = 1
    MaxDiskChanges = 2
    MaxCrashes = 1
    MaxEvents = 2
SYMMETRY Symmetry
INVARIANT ExchangedKeyDecrypts
PROPERTY KeyOnDiskIsFound
