SPECIFICATION Spec
CONSTANTS
    Key = {1, 2, 3, 4, 5}
    Val = {a, b}
    Hash <- HashOf
    MinLength = 2
    None = None
INVARIANTS
    CountHolds
    LoadBounded
PROPERTY
    ImplementsDictionary
CHECK_DEADLOCK FALSE
