SPECIFICATION FairSpec
CONSTANTS
    None = None
    DownAfter = 1
    RestoreArrivals = 2
    FreshMaxAge = 1
    StatusHeartbeat = 2
    TrafficHold = 2
    DeclaredIdle = TRUE
    FirstAges <- Unset
    MaxCuts = 1
    MaxTurns = 1
    MaxFaults = 1
INVARIANTS
    RestoreEarned
    RowAsWritten
PROPERTIES
    CutShown
    HealShown
    RowReturns
    BandShown
