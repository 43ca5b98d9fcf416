CONSTANTS
    r1 = r1
    r2 = r2
    Requests = {r1, r2}
    NULL = NULL
    KaMax = 1
    KaTimeout = 1
    RequestTimeout = 0
    StreamSize = 1
    BufferSize = 1
    TransferSteps = 0
    MaxConns = {1}
    Arrivals = 2
    Restarts = 0
SPECIFICATION FairSpec
PROPERTIES
    ReadyServed
    ShutdownEnds
    BlockedEnds
