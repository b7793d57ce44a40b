SPECIFICATION Spec
CONSTANTS
    InitPages = 1
    MaxPages = 6
    DefaultProt = "R"
    NULL = NULL
INVARIANTS
    TypeOK
    FreeListSound
    PagesPartitioned
    GrowthOnDemand
    WritablePagesStayWritable
PROPERTIES
    ImplementsPagePool
