\* One project; one crash, leases outlast jobs.
CONSTANTS
    Projects = {p1}
    Versions = {v1}
    Exports = {e1}
    Deletions = {d1}
    Threads = {t1, t2}
    Renderers = {x1}
    Erasers = {w1, w2}
    MaxAttempts = 3
    ForeignKeys = TRUE
    LegalHolds = TRUE
    LongJobs = FALSE
    MaxFaults = 1
SPECIFICATION FairSpec
PROPERTIES
    DeletionsEnd
    ExportsEnd
    DecidedIsFinal
CHECK_DEADLOCK FALSE
