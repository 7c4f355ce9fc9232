CONSTANTS
    a = a
    b = b
    f1 = f1
    f2 = f2
    Threads <- MCThreads
    Frames <- MCFrames
    Work <- MCWork
    Conns <- MCConns
    MaxConnections = 1
    MaxEvents = 2
SPECIFICATION Spec
INVARIANT DeliveredOnce
INVARIANT NoneLostByUpstream
INVARIANT ConnectionsAccounted
INVARIANT NothingOutlivesClose
