SPECIFICATION FairSpec
CONSTANTS
    Streams <- TestStreams
    Lengths <- TestLengths
    StreamSize = 8
    BufferSize = 2
    MaxHeader = 3
INVARIANTS StreamBounds SplitFree
PROPERTY Served
CHECK_DEADLOCK FALSE
