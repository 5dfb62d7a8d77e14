SPECIFICATION Spec
CONSTANTS
    Phones = {p1}
    full = full
    bare = bare
    foreign = foreign
    home = home
    away = away
    i1 = i1
    i2 = i2
    i3 = i3
    Boxes = {full, bare, foreign}
    Ids <- MCIds
    Pieces = {i1, i2, i3}
    Keys <- MCKeys
    TenantOf <- MCTenantOf
    Folders <- MCFolders
    None = None
    MaxMessages = 2
SYMMETRY SameKind
INVARIANT LinksLeadBack
INVARIANT TypeOK
INVARIANT NobodyElsesBoxes
PROPERTY ListIsComplete
PROPERTY MarksAreApplied
PROPERTY NeverFalselyMissing
PROPERTY OnlyWhatWasAsked
