SPECIFICATION Spec
CONSTANTS
    t1 = t1
    t2 = t2
    k1 = k1
    k2 = k2
    m1 = m1
    NoMatch = NoMatch
    Batch = Batch
    Idle = Idle
    Threads = {t1, t2}
    Keys = {k1, k2}
    Match = {m1}
    MaxEntries = 1
    CacheTtl = 2
    NegativeTtl = 1
    Threshold = 2
    Cooldown = 1
    MaxTime = 2
SYMMETRY EngineSymmetry
PROPERTY BrokenReadsFeedBreaker
