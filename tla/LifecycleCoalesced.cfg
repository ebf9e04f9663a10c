SPECIFICATION Spec
CONSTANTS
    a1 = a1
    a2 = a2
    None = None
    Assets = {a1}
    Logs <- AfterDestruction
    BatchMax = 2
    Stale = 1
    Ttl = 1
    MaxTime = 2
    LastInput = 1
    MaxCrashes = 0
INVARIANTS
    LastValueSuffices
CHECK_DEADLOCK FALSE
