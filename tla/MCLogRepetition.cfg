CONSTANTS
    m1 = m1
    m2 = m2
    sha = sha
    c1 = c1
    c2 = c2
    k1 = k1
    k2 = k2
    NoCert = NoCert
    NoKey = NoKey
    BadSign = BadSign
    NoAlg = NoAlg
    Certs <- MCCerts
    KeyOf <- MCKeyOf
    Messages <- MCMessages
    Algorithms <- MCAlgorithms
    Lost <- MCLost
    maxRepeatEntries = 1
    Intervals = {0, 2}
    ChainLengths = {1, 2}
    MaxCalls = 3
    MaxTime = 2
    MaxOptions = 4
    MaxReloads = 2
SPECIFICATION Spec
SYMMETRY MCSymmetry
CHECK_DEADLOCK FALSE
INVARIANT SignedWindowsVerify
INVARIANT BreaksAreDeclared
INVARIANT KeysAuthenticated
INVARIANT RepeatsConserved
INVARIANT SummaryInTime
