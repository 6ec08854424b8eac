SPECIFICATION MCSpec
CONSTANTS
    c1 = c1
    c2 = c2
    Conns = {c1, c2}
    MaxRequests = 2
    MaxSnapshots = 1
CHECK_DEADLOCK FALSE
INVARIANTS
    EndedIsReleased
    HijackedIsTracked
    EventIsTruthful
PROPERTIES
    ShutdownEndsTracked
