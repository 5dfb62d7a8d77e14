SPECIFICATION Spec
CONSTANTS
    home = home
    abroad = abroad
    other = other
    e1 = e1
    e2 = e2
    Threads = {t1, t2}
    Emails = {e1, e2}
    Accounts = {home, abroad, other}
    Foreign = {abroad}
    EmailOf <- MCEmailOf
    Threshold = 2
    Cooldown = 1
    MaxTime = 2
SYMMETRY Symmetry
INVARIANTS
    TypeOK
    DirectoryDecides
    FailClosed
    OnlyOutagesLockOut
