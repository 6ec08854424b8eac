SPECIFICATION Spec
CONSTANTS
    Procs <- MCProcs
    MaxStarts = 4
CHECK_DEADLOCK FALSE
INVARIANTS
    AllUseTheSameCA
    MismatchNeedsRace
