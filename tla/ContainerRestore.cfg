SPECIFICATION Spec
CONSTANTS
    InitPages = 8
    MaxPages = 24
    DefaultProt = "W"
    NULL = NULL
    NEntries = 2
    LargeCap = 1
    SmallCap = 2
    Vals = {1, 2}
    MaxCpoints = 2
    MaxCrashes = 2
INVARIANTS
    CleanContainerRestorable
    RollForwardIntact
    HeadFullMeansAllFull
    NoLivePageAvailable
    NoPageShared
CHECK_DEADLOCK FALSE
