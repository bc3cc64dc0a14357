\* Two reviewer threads.
CONSTANTS
    Patches   = {p1, p2}
    Reviewers = {q1, q2}
SPECIFICATION Spec
INVARIANT NoSilentOverwrite
CHECK_DEADLOCK FALSE
