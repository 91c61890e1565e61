SPECIFICATION FairSpec
CONSTANTS
    Callers = {c1, c2}
    Threshold = 2
    Recovery = 2
    Window = 3
    HalfOpenMax = 1
PROPERTY HalfOpenIsDecided
CHECK_DEADLOCK FALSE
