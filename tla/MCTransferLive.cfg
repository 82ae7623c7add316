SPECIFICATION SpecTransfer
CONSTANTS
    SMSS = 1
    MaxWnd = 6
    MaxSsthresh = 99
    Thresh = 3
    Apps = {a1}
    Timer = timer
    NoOne = noone
    MIN_SEND_SIZE = 1
    Awnd = 3
    Writes = {1, 2}
    StreamLen = 2
    CbSize = 6
    Overlaps = {FALSE}
    NulAt = {}
    NetCap = 2
    RcvSize = 2
    RECVBUFSIZE = 2
    MaxCopies = 2
INVARIANT
    BothLive
PROPERTY
    AllDelivered
CHECK_DEADLOCK FALSE
