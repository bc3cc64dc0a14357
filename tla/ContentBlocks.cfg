CONSTANTS
    BlockIds = {b1, b2, b3}
    Texts = {t1}
    Sources = {s1}
    Pinned = {s1}
    MaxVersions = 3
    MaxOperations = 5
SPECIFICATION Spec
SYMMETRY Interchangeable
CHECK_DEADLOCK FALSE
INVARIANTS
    TypeOK
    DistinctBlockIds
    UntouchedBlocksKept
    OrderKept
    MovedBehindAnchor
