SPECIFICATION FairSpec
CONSTANTS
    Callers <- MCCallers
    ProcessOf <- MCProcessOf
    AllowFile = TRUE
    Rotates = TRUE
    MaxAging = 1
    MaxFaults = 2
INVARIANTS
    RefreshTokenUsedOnce
    SignedOutOnlyByAuthority
    
PROPERTIES
    CallsEnd
