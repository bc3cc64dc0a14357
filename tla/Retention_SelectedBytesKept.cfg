\* One deletion while another project is created.
CONSTANTS
    Projects = {p1, p2}
    Versions = {v1}
    Exports = {e1}
    Deletions = {d1}
    Threads = {t1}
    Renderers = {x1}
    Erasers = {w1}
    MaxAttempts = 3
    ForeignKeys = FALSE
    LegalHolds = FALSE
    LongJobs = FALSE
    MaxFaults = 0
SPECIFICATION Spec
INVARIANT SelectedBytesKept
CHECK_DEADLOCK FALSE
