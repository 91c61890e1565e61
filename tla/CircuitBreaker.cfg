SPECIFICATION Spec
CONSTANTS
    Callers = {c1, c2, c3}
    Threshold = 3
    Recovery = 2
    Window = 3
    HalfOpenMax = 2
INVARIANTS
    TypeOK
    ClosedIsHealthy
    ProbesBounded
PROPERTIES
    RestIsKept
CHECK_DEADLOCK FALSE
