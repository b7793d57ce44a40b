SPECIFICATION Spec
CONSTANTS
    Vol = {a, b}
    Globals = {g}
    NULL = NULL
    PageCap = 2
    MaxPallocs = 1
    MaxMallocs = 3
    MaxStores = 2
    MaxCpoints = 3
INVARIANTS
    TypeOK
    AtOnePlace
    MovedObjectsClosed
    RegisteredPointersFollow
    RecordsReproducePointers
    PointerPageHeld
PROPERTY CheckpointReturns
CHECK_DEADLOCK FALSE
