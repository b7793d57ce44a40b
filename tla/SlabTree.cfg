SPECIFICATION Spec
CONSTANTS
    NULL = NULL
    MaxPages = 100
    SLAB_BUCKET_ENTRIES = 2
    SLAB_INNER_ENTRIES = 4
    SLAB_OUTER_ENTRIES = 2
    SLAB_DIR_ENTRIES = 2
    MaxCpoints = 1
INVARIANTS EntryById GrowthInvisible
CHECK_DEADLOCK FALSE
