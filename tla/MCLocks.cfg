SPECIFICATION Spec
CONSTANTS
    a1 = a1
    a2 = a2
    Callers = {a1, a2}
    Timer = timer
    Conns = {1, 2}
    MaxTou = 2
SYMMETRY Alike
INVARIANTS TypeOK NoDeadlock
CHECK_DEADLOCK FALSE
