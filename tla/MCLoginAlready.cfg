SPECIFICATION Spec
CONSTANTS
    r1 = r1
    Requests <- MCRequests
    MaxLogins = 2
    AllowFile = FALSE
    OptionalOffline = FALSE
INVARIANT
    LoginSignsIn
