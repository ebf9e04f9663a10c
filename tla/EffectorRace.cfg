SPECIFICATION Spec
CONSTANTS
    i1 = i1
    i2 = i2
    l1 = l1
    m1 = m1
    m2 = m2
    e1 = e1
    e2 = e2
    t1 = t1
    t2 = t2
    r1 = r1
    r2 = r2
    None = None
    Launchers = {l1}
    Types = {t1, t2}
    Results = {r1, r2}
    Instances = {i1, i2}
    Munitions = {m1}
    Events = {e1, e2}
    EffectorLogs <- RaceLogs
    TrackLogs <- OneMunition
    Timeout = 0
    Silence = 0
    MaxTime = 2
    LastInput = 1
    MaxFaults = 1
INVARIANTS
    LateIffInferred
PROPERTIES
    RealOutcomesStay
    ImplementsOutcomes
SYMMETRY Interchangeable
CHECK_DEADLOCK FALSE
