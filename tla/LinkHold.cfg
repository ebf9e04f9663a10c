SPECIFICATION Spec
CONSTANTS
    None = None
    DownAfter = 2
    RestoreArrivals = 2
    FreshMaxAge = 2
    StatusHeartbeat = 3
    TrafficHold = 2
    DeclaredIdle = FALSE
    FirstAges <- Punctual
    MaxCuts = 1
    MaxTurns = 1
    MaxFaults = 0
PROPERTIES
    BandReportedOn
