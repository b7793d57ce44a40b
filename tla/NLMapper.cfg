SPECIFICATION Spec
CONSTANTS
    InitPages = 1
    MaxPages = 6
    NULL = NULL
    MaxOpens = 2
INVARIANTS
    TypeOK
    FreeListSound
    TableMatchesKernel
    TreeHoldsUsed
CHECK_DEADLOCK FALSE
