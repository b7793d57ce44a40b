SPECIFICATION Spec
CONSTANTS
    InitPages = 10
    MaxPages = 30
    DefaultProt = "W"
    NULL = NULL
    NEntries = 2
    LargeCap = 1
    SmallCap = 2
    Vals = {1, 2}
    MaxCpoints = 2
    MaxCrashes = 2
INVARIANT RollbackToCheckpoint
CHECK_DEADLOCK FALSE
