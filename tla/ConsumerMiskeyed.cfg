SPECIFICATION Spec
CONSTANTS
    k1 = k1
    k2 = k2
    Keys = {k1, k2}
    Rows = {k1, k2}
    Mappings <- Miskeyed
    BatchMax = 3
    MaxLog = 3
    MaxOutages = 0
    MaxCrashes = 0
INVARIANTS
    RowHoldsLastWritten
