\* One skill, whose draft a model writes; two threads.
CONSTANTS
    Nothing = Nothing
    Ids = {k1}
    Starter = s1
    Slugs = {a}
    Packages = {good, bad}
    Sound = {good}
    Seeded = good
    MaxVersions = 1
    MaxPins = 1
    Projects = {j1}
    Keys = {i1}
    Threads = {t1, t2}
SPECIFICATION Spec
PROPERTY PublishedBytesKept
CHECK_DEADLOCK FALSE
