\* One call of load().
CONSTANTS
    Nothing = Nothing
    Runs = {1}
    Tasks = {1}
    Parent <- OneParent
    Requests = {q1}
    Workers = {w1}
    Loads = {l1}
    RetryLimit = 1
    MaxFaults = 0
    MaxDrops = 0
SPECIFICATION FairSpec
INVARIANT ReceivedIsShown
CHECK_DEADLOCK FALSE
