SPECIFICATION Spec
CONSTANTS
    ann = ann
    bob = bob
    Outside = Outside
    Users = {ann, bob}
    Phones = {ann}
    Calls <- MCCalls
    Wall <- MCWall
    Limit = 2
    Queues = {q1, q2, q3}
    MaxScanned = 2
SYMMETRY QueueSymmetry
INVARIANTS
    TypeOK
    SharedMissesAppear
    NobodyElsesCalls
    PersonalMissesKept
