\* One version, replayed and rebuilt; two workers of a kind may die.
CONSTANTS
    Nothing = Nothing
    Sources = {s1}
    Uploads = {u0}
    first = u0
    MaxVersions = 1
    Batches = 1
    Ingesters = {g1, g2}
    Indexers = {x1, x2}
    MaxReplays = 1
    LongJobs = TRUE
    MaxFaults = 2
SPECIFICATION FairSpec
PROPERTY JobsEnd
CHECK_DEADLOCK FALSE
