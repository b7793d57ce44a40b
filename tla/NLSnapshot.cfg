SPECIFICATION Spec
CONSTANTS
    InitPages = 7
    MaxPages = 21
    NULL = NULL
    NEntries = 2
    MaxCpoints = 4
INVARIANTS BucketMapped NoMetaAvailable AddressesInUse
CHECK_DEADLOCK FALSE
