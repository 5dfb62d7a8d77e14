SPECIFICATION USpec
CONSTANTS
    t1 = t1
    t2 = t2
    k1 = k1
    k2 = k2
    k3 = k3
    v1 = v1
    v2 = v2
    Idle = Idle
    Threads = {t1, t2}
    Keys = {k1, k2, k3}
    Values = {v1, v2}
    MaxEntries = 2
    Ttls = {0, 1, 2}
    MaxTime = 3
SYMMETRY CacheSymmetry
INVARIANTS
    TypeOK
PROPERTIES
    ImplementsMap
    KeepsWhatIsInUse
