CONSTANTS
    d1 = d1
    d2 = d2
    d3 = d3
    s1 = s1
    w1 = w1
    w2 = w2
    Datagrams <- MCDatagrams
    Sockets <- MCSockets
    Workers <- MCWorkers
    ChannelBufferSize = 1
    BatchSize = 1
    InputSize = 1
SPECIFICATION Spec
INVARIANT OrderKept
PROPERTY ImplementsOutbox
PROPERTY SigtermEndsDownstream
