CONSTANTS
    r1 = r1
    r2 = r2
    Requests = {r1, r2}
    NULL = NULL
    KaMax = 1
    KaTimeout = 1
    RequestTimeout = 1
    StreamSize = 1
    BufferSize = 2
    TransferSteps = 1
    MaxConns = {1}
    Arrivals = 2
    Restarts = 1
SPECIFICATION Spec
SYMMETRY Symmetry
INVARIANTS
    ListsSeparate
    CursorOnList
    Accounting
    HandlersEquipped
    NoLeak
PROPERTIES
    AcceptWithinLimit
