SPECIFICATION Spec
CONSTANTS
    InitPages = 11
    MaxPages = 11
    DefaultProt = "R"
    NULL = NULL
    NEntries = 2
    LargeCap = 1
    SmallCap = 2
    Vals = {1, 2}
    MaxCpoints = 2
    MaxCrashes = 2
INVARIANT CheckpointCommits
CHECK_DEADLOCK FALSE
