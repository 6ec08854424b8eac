SPECIFICATION FairSpec
CONSTANTS
    e1 = e1
    e2 = e2
    e3 = e3
    Events = {e1, e2, e3}
    QueueSize = 2
    MaxFaults = 1
    MaxSnapshots = 1
INVARIANTS
    UploadInOrder
PROPERTIES
    CancelStops
    ReadersEnd
    EventsLeave
