SPECIFICATION Spec
CONSTANTS
    Segs <- MCSegs
    CbSize = 5
    RECVBUFSIZE = 3
    RecvLens = {1, 3}
    Drained = FALSE
    Dup = TRUE
    MaxCopies = 2
INVARIANTS
    NeverBackwards
    NoneReady
    AckEverySecond
    TimerNotMuted
CHECK_DEADLOCK FALSE
