SPECIFICATION Spec
CONSTANTS
    a1 = a1
    a2 = a2
    None = None
    Assets = {a1}
    Logs <- TwoClaims
    BatchMax = 1
    Stale = 0
    Ttl = 1
    MaxTime = 2
    LastInput = 1
    MaxCrashes = 0
PROPERTIES
    GoneStaysPut
CHECK_DEADLOCK FALSE
