SPECIFICATION Spec
CONSTANTS
    e1 = e1
    e2 = e2
    e3 = e3
    Events = {e1}
    QueueSize = 1
    MaxFaults = 1
    MaxSnapshots = 2
INVARIANTS
    LatestSnapshotHeld
