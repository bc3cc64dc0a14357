\* One run whose events are a turn's and a task's; a browser that is cut off
\* twice and calls load() twice.
CONSTANTS
    Nothing = Nothing
    Runs = {1}
    Tasks = {1}
    Parent <- OneParent
    Requests = {q1}
    Workers = {w1}
    Loads = {l1, l2}
    RetryLimit = 1
    MaxFaults = 0
    MaxDrops = 2
SPECIFICATION FairSpec
INVARIANT HiddenByOlderAnswer
PROPERTY ImplementsEventLog
CHECK_DEADLOCK FALSE
