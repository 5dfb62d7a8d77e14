SPECIFICATION Spec
CONSTANT Recordings = {r1}
INVARIANTS
    TypeOK
    RecordingIsWhole
    ExitTellsOutcome
    NothingLingers
PROPERTIES
    StereoFromBothFeeds
    MergeEnds
CHECK_DEADLOCK FALSE
