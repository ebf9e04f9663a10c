SPECIFICATION Spec
CONSTANTS
    i1 = i1
    i2 = i2
    l1 = l1
    m1 = m1
    m2 = m2
    e1 = e1
    e2 = e2
    t1 = t1
    t2 = t2
    r1 = r1
    r2 = r2
    None = None
    Launchers = {l1}
    Types = {t1, t2}
    Results = {r1, r2}
    Instances = {i1}
    Munitions = {m1}
    Events = {e1, e2}
    EffectorLogs <- OneRound
    TrackLogs <- OneSample
    Timeout = 1
    Silence = 1
    MaxTime = 3
    LastInput = 1
    MaxFaults = 0
INVARIANTS
    DetonationReachesTrack
CHECK_DEADLOCK FALSE
