CONSTANTS
    MaxTasks = 3
    MaxRetries = 1
    MaxEnqueue = 1
    MaxPasses = 2
    WorktreeMode = TRUE
    Setups <- FaultsOrPlanner
    FaultKinds = {"crash", "state", "queue", "marker", "command"}
SPECIFICATION Spec
INVARIANTS
    SlotKeepsMember
    StampFollowsOutcome
    DaemonRetriesWithinBudget
    CompletionIsEarned
PROPERTIES
    TaskStateFinal
