SPECIFICATION FairSpec
CONSTANTS
    r1 = r1
    r2 = r2
    Requests = {r1, r2}
    MaxPings = 2
INVARIANTS
    ExclusiveWrite
    NoHandlerAfterReturn
    AnsweredAtMostOnce
PROPERTIES
    CancelReturns
    RequestsAnswered
