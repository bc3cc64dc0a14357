\* Three reviewer threads deciding three patches in every interleaving.
CONSTANTS
    Patches   = {p1, p2, p3}
    Reviewers = {q1, q2, q3}
SPECIFICATION Spec
SYMMETRY Symmetry
INVARIANTS
    HeadIsNewest
    LineageRooted
    ReplayFindsOwnVersion
PROPERTY ImplementsAppendOnlyHistory
\* Every patch may be decided; nothing is left to do then.
CHECK_DEADLOCK FALSE
