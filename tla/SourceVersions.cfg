\* Uploads of one source race; workers replay and rebuild; one fault.
CONSTANTS
    Nothing = Nothing
    Sources = {s1}
    Uploads = {u0, u1, u2}
    first = u0
    MaxVersions = 2
    Batches = 2
    Ingesters = {g1}
    Indexers = {x1, x2}
    MaxReplays = 1
    LongJobs = TRUE
    MaxFaults = 1
SPECIFICATION MCSpec
SYMMETRY Symmetry
INVARIANTS
    PassagesMatchHash
    UnsafeNeverServed
    ReadyIndexed
    IndexExact
    CurrentIsNewest
CHECK_DEADLOCK FALSE
