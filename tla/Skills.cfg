\* One skill beside the starter, two projects with one key, three threads.
CONSTANTS
    Nothing = Nothing
    Ids = {k1}
    Starter = s1
    Slugs = {a}
    Packages = {good, bad}
    Sound = {good}
    Seeded = good
    MaxVersions = 2
    MaxPins = 2
    Projects = {j1, j2}
    Keys = {i1}
    Threads = {t1, t2, t3}
SPECIFICATION Spec
SYMMETRY Symmetry
INVARIANTS
    ServedIsSound
    AnswersAgree
CHECK_DEADLOCK FALSE
