SPECIFICATION FairSpec
CONSTANTS
    a1 = a1
    a2 = a2
    None = None
    Assets = {a1}
    Logs <- OnlyUnsampled
    BatchMax = 1
    Stale = 0
    Ttl = 0
    MaxTime = 2
    LastInput = 1
    MaxCrashes = 0
PROPERTIES
    NeverSampledNotReporting
CHECK_DEADLOCK FALSE
