SPECIFICATION Spec
CONSTANTS
    SMSS = 2
    MaxWnd = 12
    MaxSsthresh = 99
    Thresh = 3
    Apps = {a1}
    Timer = timer
    NoOne = noone
    MIN_SEND_SIZE = 1
    Awnd = 5
    Writes = {2, 4}
    StreamLen = 8
    CbSize = 8
    Overlaps = {FALSE, TRUE}
    NulAt = {}
    NetCap = 1
INVARIANTS
    NoStranded
    UnackedIsHeld
    FlightBounded
    WireContent
    RexmitsOldestOnly
    NoExit
    NoEmptySegment
CHECK_DEADLOCK FALSE
