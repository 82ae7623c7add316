SPECIFICATION Spec
CONSTANTS
    Conns = {3, 4, 5}
    Apps = {a1}
    Timer = timer
    NoOne = noone
    MaxSegs = 2
    PostponeBelow = 4
    Overlap = FALSE
INVARIANTS
    TypeOK
    LowestKeeps
    AloneIsSafe
CHECK_DEADLOCK FALSE
