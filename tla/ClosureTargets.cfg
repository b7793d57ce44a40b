SPECIFICATION Spec
CONSTANTS
    Vol = {a, b}
    Globals = {g}
    NULL = NULL
    PageCap = 2
    MaxPallocs = 1
    MaxMallocs = 3
    MaxStores = 3
    MaxCpoints = 2
INVARIANT NoVolatileTarget
CHECK_DEADLOCK FALSE
