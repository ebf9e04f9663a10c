SPECIFICATION Spec
CONSTANTS
    array = array
    cell = cell
    u1 = u1
    u2 = u2
    None = None
    Null = Null
    Paths = {array, cell}
    Ancestors <- Below
    Snapshots <- Steps
    Labels = {u1, u2}
    Deadband = 2
    Legacy = {}
    Limits <- OneLimit
    Hysteresis = 1
    MaxFailures = 0
    MaxUnanswered = 0
    MaxCrashes = 1
    MaxPrunes = 1
    MaxRelabels = 1
    MaxBackfills = 0
INVARIANTS
    EvictedStartsOver
PROPERTIES
    RelabelledAfterRestart
