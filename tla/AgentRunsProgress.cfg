\* Production; one message and no further request; workers crash twice.
CONSTANTS
    Runs = {r1}
    Keys = {k1, k2}
    Kinds = {"answer"}
    Threads = {t1}
    Workers = {w1, w2}
    MaxAttempts = 3
    Deployments <- OnlyProduction
    MaxRequests = 1
    NewPreferences = FALSE
    LongTurns = FALSE
    MaxFaults = 2
    MaxEvents = 3
SPECIFICATION FairSpec
INVARIANT WorkersTakeTurns
PROPERTIES
    CompletedIsFinal
    TurnsEnd
CHECK_DEADLOCK FALSE
