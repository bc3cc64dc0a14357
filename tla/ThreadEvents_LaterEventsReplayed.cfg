\* Two runs, and a browser that is never cut off.
CONSTANTS
    Nothing = Nothing
    Runs = {1, 2}
    Tasks = {1}
    Parent <- OneParent
    Requests = {q1}
    Workers = {w1}
    Loads = {}
    RetryLimit = 1
    MaxFaults = 0
    MaxDrops = 0
SPECIFICATION FairSpec
PROPERTY LaterEventsReplayed
CHECK_DEADLOCK FALSE
