CONSTANTS
    Messages <- SomeMessages
    RecvSize = 4
    MaxHeaderSize = 5
    MaxLineSize = 3
    MaxHeaderLines = 1
    MaxBodySize = 3
    MaxChunkSize = 2
    MaxTrailers = 1
SPECIFICATION Spec
INVARIANTS TypeOK RightResponse RejectsForAReason StopsAtTheEnd BufferBounded
CHECK_DEADLOCK FALSE
