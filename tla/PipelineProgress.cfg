CONSTANTS
    MaxTasks = 2
    MaxRetries = 1
    MaxEnqueue = 1
    MaxPasses = 2
    WorktreeMode = FALSE
    Setups <- FullTwoFaults
    FaultKinds = {"queue", "state"}
SPECIFICATION FairSpec
PROPERTIES
    ResultsSettle
