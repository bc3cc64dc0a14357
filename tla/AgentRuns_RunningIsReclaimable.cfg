CONSTANTS
    Runs = {r1}
    Keys = {k1, k2}
    Kinds = {"answer"}
    Threads = {t1}
    Workers = {w1, w2}
    MaxAttempts = 3
    Deployments <- OnlyProduction
    MaxRequests = 2
    NewPreferences = FALSE
    LongTurns = FALSE
    MaxFaults = 0
    MaxEvents = 2
SPECIFICATION Spec
INVARIANT RunningIsReclaimable
CHECK_DEADLOCK FALSE
