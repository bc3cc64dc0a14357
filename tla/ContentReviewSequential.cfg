\* One reviewer thread: requests are handled one at a time.
CONSTANTS
    Patches   = {p1, p2, p3}
    Reviewers = {q1}
SPECIFICATION Spec
PROPERTY ImplementsCanonicalContent
CHECK_DEADLOCK FALSE
