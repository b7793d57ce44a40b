SPECIFICATION Spec
CONSTANTS
    PAGE_SIZE = 4096
    SLAB_LARGE_ALLOC = 512
    TreeEntries = 55999888
    Ids = {0, 27, 70000, 55999887}
    NULL = NULL
INVARIANTS
    TypeOK
    BitmapApart
    ObjectsInPage
    RoomIsFound
    
CHECK_DEADLOCK FALSE
