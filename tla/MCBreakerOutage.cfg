SPECIFICATION HSpec
CONSTANTS
    w1 = w1
    w2 = w2
    w3 = w3
    Callers = {w1, w2, w3}
    Threshold = 2
    Cooldown = 3
    MaxTime = 12
SYMMETRY WorkerSymmetry
CHECK_DEADLOCK FALSE
INVARIANTS
    OpenIffThresholdReached
    ProbeRate
    OutageBudget
    ProbesAreSpaced
PROPERTIES
    ImplementsTimer
