CONSTANTS
    BlockIds = {b1, b2}
    Texts = {t1}
    Sources = {s1}
    Pinned = {s1}
    MaxVersions = 2
    MaxOperations = 2
SPECIFICATION Spec
SYMMETRY Interchangeable
CHECK_DEADLOCK FALSE
INVARIANTS
    ProposedCitationsKept
