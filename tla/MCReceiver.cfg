SPECIFICATION Spec
CONSTANTS
    Segs <- MCSegs
    CbSize = 5
    RECVBUFSIZE = 3
    RecvLens = {5}
    Drained = TRUE
    Dup = FALSE
    MaxCopies = 1
INVARIANTS
    StreamIntact
    AckedIsStored
    NoAssert
CHECK_DEADLOCK FALSE
