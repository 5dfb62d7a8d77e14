SPECIFICATION FairSpec
CONSTANTS
    t1 = t1
    t2 = t2
    k1 = k1
    k2 = k2
    m1 = m1
    NoMatch = NoMatch
    Batch = Batch
    Idle = Idle
    Threads = {t1, t2}
    Keys = {k1}
    Match = {m1}
    MaxEntries = 1
    CacheTtl = 1
    NegativeTtl = 0
    Threshold = 2
    Cooldown = 1
    MaxTime = 1
PROPERTY EveryLookupReturns
