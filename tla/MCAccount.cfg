SPECIFICATION FairAccountSpec
CONSTANTS
    r1 = r1
    r2 = r2
    Requests <- MCRequests
    MaxLogins = 2
    AllowFile = TRUE
    OptionalOffline = TRUE
    Callers <- MCCallers
    ProcessOf <- MCProcessOf
    Rotates = TRUE
    MaxAging = 1
    MaxFaults = 1
INVARIANTS
    StoredIsVerified
    FirstOutcomeDecides
    ConfigAgrees
    LogoutIsFinal
PROPERTIES
    LoginEnds
