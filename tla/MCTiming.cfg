SPECIFICATION Spec
CONSTANTS
    MinRtt = 8
    InitTimeo = 12
    Delayed = 8
    Prompt = 20
    Wrap = 60
    Period = 6
    Ticks = {3}
    Starts = {3, 30}
    PostponeBelow = 3
    MaxSeq = 3
    MaxTimes = 2
    MaxReal = 84
INVARIANTS Punctual AckPunctual AssertsAtZero
PROPERTIES NeverEarly SamplesTrue
CHECK_DEADLOCK FALSE
