SPECIFICATION FairSpec
CONSTANTS
    array = array
    cell = cell
    u1 = u1
    u2 = u2
    None = None
    Null = Null
    Paths = {array, cell}
    Ancestors <- Below
    Snapshots <- Steps
    Labels = {u1, u2}
    Deadband = 2
    Legacy <- OldRows
    Limits <- OneLimit
    Hysteresis = 1
    MaxFailures = 0
    MaxUnanswered = 0
    MaxCrashes = 0
    MaxPrunes = 0
    MaxRelabels = 2
    MaxBackfills = 1
PROPERTIES
    RelabelledAfterBackfill
