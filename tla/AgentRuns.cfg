\* Every deployment; one crash or one turn that outlasts its lease.
CONSTANTS
    Runs = {r1, r2}
    Keys = {k1, k2}
    Kinds = {"draft", "plan"}
    Threads = {t1, t2}
    Workers = {w1, w2}
    MaxAttempts = 2
    Deployments <- AllDeployments
    MaxRequests = 3
    NewPreferences = TRUE
    LongTurns = TRUE
    MaxFaults = 1
    MaxEvents = 2
SPECIFICATION Spec
SYMMETRY Symmetry
INVARIANTS
    TypeOK
    EventsGapless
    WaitingIsDecidable
    PlanNeedsApproval
CHECK_DEADLOCK FALSE
