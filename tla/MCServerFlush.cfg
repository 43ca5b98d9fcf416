CONSTANTS
    r1 = r1
    Requests = {r1}
    NULL = NULL
    KaMax = 1
    KaTimeout = 1
    RequestTimeout = 1
    StreamSize = 1
    BufferSize = 1
    TransferSteps = 1
    MaxConns = {1}
    Arrivals = 1
    Restarts = 0
SPECIFICATION Spec
INVARIANTS
    ResponseFlushed
