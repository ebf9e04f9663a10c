SPECIFICATION FairSpec
CONSTANTS
    a1 = a1
    a2 = a2
    None = None
    Assets = {a1}
    Logs <- Histories
    BatchMax = 2
    Stale = 0
    Ttl = 0
    MaxTime = 2
    LastInput = 1
    MaxCrashes = 1
INVARIANTS
    LastClaimLands
PROPERTIES
    OnlyClaimsMoveTheGone
    GoneByClaim
    SilenceIsNoticed
CHECK_DEADLOCK FALSE
