SPECIFICATION Spec
CONSTANTS
    a1 = a1
    a2 = a2
    n1 = n1
    n2 = n2
    e1 = e1
    e2 = e2
    r1 = r1
    r2 = r2
    None = None
    Assets = {a1, a2}
    Nations = {n1, n2}
    Edges = {e1, e2}
    Regions = {r1, r2}
    Places = {0, 1, 2}
    Mappings <- TelemetryTopic
    Configs <- Deployments
    BatchMax = 2
    MaxLog = 2
    MaxCrashes = 0
    MaxPrunes = 0
INVARIANTS
    AbsentStaysAbsent
    GivenEdgeKept
CHECK_DEADLOCK FALSE
