SPECIFICATION Spec
CONSTANTS
    Limit = 4
    MaxBody = 6
INVARIANTS
    BodyAccepted
    ValidTextIsCaptured
