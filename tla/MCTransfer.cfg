SPECIFICATION Safety
CONSTANTS
    SMSS = 1
    MaxWnd = 6
    MaxSsthresh = 99
    Thresh = 2
    Apps = {a1}
    Timer = timer
    NoOne = noone
    MIN_SEND_SIZE = 1
    Awnd = 3
    Writes = {1, 2}
    StreamLen = 3
    CbSize = 6
    Overlaps = {TRUE}
    NulAt = {}
    NetCap = 2
    RcvSize = 3
    RECVBUFSIZE = 2
    MaxCopies = 2
INVARIANTS
    EndsAgree
    QuietIsDone
PROPERTY
    StreamSafety
CHECK_DEADLOCK FALSE
