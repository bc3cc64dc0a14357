CONSTANTS
    Runs = {r1}
    Keys = {k1, k2}
    Kinds = {"answer"}
    Threads = {t1}
    Workers = {w1}
    MaxAttempts = 2
    Deployments <- OnlyProduction
    MaxRequests = 2
    NewPreferences = FALSE
    LongTurns = FALSE
    MaxFaults = 0
    MaxEvents = 2
SPECIFICATION Spec
PROPERTY CancelledUntilResumed
CHECK_DEADLOCK FALSE
