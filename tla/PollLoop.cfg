SPECIFICATION FairSpec
CONSTANTS
    Requests = {r1, r2}
    NULL = NULL
    Waits = {"read", "data", "post"}
    MaxConnections = 2
    Interrupts = 1
    Server = Server
    Unknown = Unknown
INVARIANTS Watched NothingElse
PROPERTIES WakesWithCause EventWakes
CHECK_DEADLOCK FALSE
