SPECIFICATION Spec
CONSTANTS
    k1 = k1
    k2 = k2
    Keys = {k1, k2}
    Rows = {k1, k2}
    Mappings <- EveryMode
    BatchMax = 2
    MaxLog = 2
    MaxOutages = 1
    MaxCrashes = 0
INVARIANTS
    ShutdownAbortsNothing
    KeyGetsItsUpsert
    NoMessageEndsTheWorker
CHECK_DEADLOCK FALSE
