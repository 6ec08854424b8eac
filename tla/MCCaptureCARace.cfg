SPECIFICATION Spec
CONSTANTS
    Procs <- MCProcs
    MaxStarts = 2
CHECK_DEADLOCK FALSE
INVARIANTS
    PersistedCAIsUsable
