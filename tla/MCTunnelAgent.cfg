SPECIFICATION FairSpec
CONSTANTS
    Second = 2
    ConfigInitialDelay = 0
    ConfigMaxDelay = 0
    MaxFaults = 6
INVARIANTS
    TicketSingleUse
    SingleAttemptWithoutReconnect
    BackoffSchedule
    WaitInRange
    TerminalAnswerIsFinal
PROPERTIES
    CancelStops
    Recovers
    ImplementsContract
