SPECIFICATION FairSpec
INVARIANTS
    TunnelNeedsEverything
    NothingLeftBehind
    ZeroIsOrderly
    ProxyOutlivesChild
PROPERTIES
    SignalReturns
    PartEndReturns
