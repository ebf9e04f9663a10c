SPECIFICATION FairSpec
CONSTANTS
    k1 = k1
    k2 = k2
    Keys = {k1, k2}
    Rows = {k1, k2}
    Mappings <- EveryMode
    BatchMax = 2
    MaxLog = 3
    MaxOutages = 1
    MaxCrashes = 1
INVARIANTS
    TypeOK
    CommittedSettled
PROPERTIES
    ImplementsAtLeastOnce
    AppendedRowsStay
    EveryMessageSettled
CHECK_DEADLOCK FALSE
