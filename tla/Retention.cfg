\* Two projects that may share a source, two requests, two retention workers.
CONSTANTS
    Projects = {p1, p2}
    Versions = {v1}
    Exports = {e1}
    Deletions = {d1, d2}
    Threads = {t1}
    Renderers = {x1}
    Erasers = {w1, w2}
    MaxAttempts = 3
    ForeignKeys = FALSE
    LegalHolds = FALSE
    LongJobs = TRUE
    MaxFaults = 1
SPECIFICATION Spec
SYMMETRY Symmetry
INVARIANTS
    CompletedMeansGone
    LiveExportsStored
PROPERTY ImplementsLifecycle
CHECK_DEADLOCK FALSE
