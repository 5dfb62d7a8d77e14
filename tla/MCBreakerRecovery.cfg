SPECIFICATION FairSpec
CONSTANTS
    w1 = w1
    w2 = w2
    w3 = w3
    w4 = w4
    Callers = {w1, w2, w3, w4}
    Threshold = 3
    Cooldown = 4
PROPERTIES
    Recovers
    NeverShutForGood
