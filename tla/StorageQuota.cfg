SPECIFICATION Spec
CONSTANTS
    Streams = {s1, s2}
    Records = {r1}
    Deletes = {d1, d2}
    Bookings = {b1, b2}
    Quota = 2
    MaxSize = 2
    MaxAttempts = 2
    None = None
INVARIANTS
    TypeOK
    UsedIsCharged
    ObjectsAccountedFor
    PhotosHaveObjects
PROPERTIES
    CommitWithinQuota
CHECK_DEADLOCK FALSE
SYMMETRY Symmetry
