SPECIFICATION MCSpec
CONSTANTS
    FaultKinds = {"crash", "write", "commit", "half rollback"}
    MaxFaults = 1
    Commands = {"c1"}
    MaxFailures = 2
    MaxUserCommits = 1
    MaxResolutions = 1
    MaxRetries = 0
    MaxPublishFaults = 2
    PublishFaultKinds = {"crash", "git", "readtree", "reset", "save"}
    EditsDuringSync = TRUE
INVARIANTS RaceIsSound
PROPERTIES IntakeOnIdleWorker RaceSettles 
CHECK_DEADLOCK FALSE
