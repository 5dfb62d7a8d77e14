SPECIFICATION Spec
CONSTANTS
    n = n
    o = o
    s = s
    w = w
    x = x
    e = e
    f = f
    l = l
    m = m
    ann = ann
    ben = ben
    cat = cat
    home = home
    away = away
    None = None
    Phones = {p1}
    Names = {n, o}
    Words = {s, w, x}
    Passwords <- MCPasswords
    Ascii = {s, w}
    Headers <- MCHeaders
    Endpoints = {e, f}
    Settings <- MCSettings
    Lines = {l, m}
    Users = {ann, ben, cat}
    TenantOf <- MCTenantOf
SYMMETRY MCSymmetry
INVARIANTS
    TypeOK
    ServedByItsLine
    NeverFalselyRefused
