SPECIFICATION FairSpec
CONSTANTS
    BufferSize = 8
    HeaderLen = 3
    Reserve = 2
    PartLen = 2
    Room = 3
    Files <- FileRanges
    OutputLen = 9
    CgiHeaders = {2, 3, 6}
INVARIANTS BufferBounds InOrder AllSent DiesOnlyAtTheEdge
PROPERTY Ends
CHECK_DEADLOCK FALSE
