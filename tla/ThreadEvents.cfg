\* One run, two tasks, two workers, one more transaction.
CONSTANTS
    Nothing = Nothing
    Runs = {1}
    Tasks = {1, 2}
    Parent <- OneParent
    Requests = {q1}
    Workers = {w1, w2}
    Loads = {}
    RetryLimit = 1
    MaxFaults = 1
    MaxDrops = 0
SPECIFICATION FairSpec
INVARIANTS
    NumbersWithoutGap
    CompletedOnce
PROPERTIES
    TasksEnd
CHECK_DEADLOCK FALSE
