CONSTANTS
    r1 = r1
    o1 = o1
    Required = {r1}
    Optional = {o1}
    Initial = {{r1}, {r1, o1}}
    PhaseModes = {"none", "active"}
    WorktreeModes = {TRUE, FALSE}
    MaxEdits = 1
    FaultKinds = {"cut", "crash", "publish", "merge", "stall", "enqueue", "delivery"}
    MaxFaults = 1
SPECIFICATION FairSpec
INVARIANTS
    ResultAgrees
    RowAgrees
    
PROPERTIES
    PlanStatusFinal
    CompletionSettles
CHECK_DEADLOCK FALSE
