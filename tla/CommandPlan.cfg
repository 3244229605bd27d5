CONSTANTS
    Phases = {1, 2, 3}
    Deferred = {2, 3}
    DependsOn <- Chain
    Timed = {2}
    EscalateAfter = 2
    Cached = TRUE
    MaxTasks = 2
    MaxAdds = 1
    FaultKinds = {"save", "queue", "crash", "disk"}
    MaxFaults = 1
SPECIFICATION FairSpec
INVARIANTS
    PlannedHasRow
    OneInitialPlan
PROPERTIES
    PlanSettles
CHECK_DEADLOCK FALSE
