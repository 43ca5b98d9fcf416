SPECIFICATION FairSpec
CONSTANTS
    Requests = {r1, r2}
    NULL = NULL
    Waits = {"read", "write", "buffer", "data", "file", "post"}
    MaxConnections = 1
    Interrupts = 1
    Server = Server
INVARIANTS Watched
PROPERTIES LeftOnlyByTimeout WakesWithCause EventWakes
CHECK_DEADLOCK FALSE
