SPECIFICATION Spec
CONSTANTS
    Byte = {b0, b1}
    Size = 4
    MaxChunk = 3
INVARIANT PeekedIsHead
PROPERTY ImplementsQueue
