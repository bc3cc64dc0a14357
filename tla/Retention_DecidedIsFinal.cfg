\* Two renderers, one of which may outlast its lease.
CONSTANTS
    Projects = {p1}
    Versions = {v1}
    Exports = {e1}
    Deletions = {d1}
    Threads = {t1}
    Renderers = {x1, x2}
    Erasers = {w1}
    MaxAttempts = 3
    ForeignKeys = FALSE
    LegalHolds = FALSE
    LongJobs = TRUE
    MaxFaults = 1
SPECIFICATION Spec
PROPERTY DecidedIsFinal
CHECK_DEADLOCK FALSE
