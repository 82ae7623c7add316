SPECIFICATION Spec
CONSTANTS
    SMSS = 2
    MaxWnd = 12
    MaxSsthresh = 99
    Thresh = 3
    Apps = {a1}
    Timer = timer
    NoOne = noone
    MIN_SEND_SIZE = 1
    Awnd = 5
    Writes = {2}
    StreamLen = 4
    CbSize = 8
    Overlaps = {FALSE}
    NulAt = {1}
    NetCap = 1
INVARIANTS
    WireContent
CHECK_DEADLOCK FALSE
