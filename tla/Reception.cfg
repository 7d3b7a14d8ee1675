CONSTANTS
    Message = {a}
    MaxPush = 2
    MaxBeat = 1
    MaxBreak = 1
SPECIFICATION Either
INVARIANTS Listening PushesKept MarksFit
CHECK_DEADLOCK FALSE
