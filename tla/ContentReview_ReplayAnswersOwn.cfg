\* Two reviewer threads.
CONSTANTS
    Patches   = {p1, p2}
    Reviewers = {q1, q2}
SPECIFICATION Spec
INVARIANT ReplayAnswersOwn
CHECK_DEADLOCK FALSE
