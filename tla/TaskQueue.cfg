CONSTANTS
    t1 = t1
    t2 = t2
    w1 = w1
    Tasks = {t1, t2}
    Workers = {w1}
    OwnerOf <- OneWorkerOwner
    Dependents = {t2}
    Resumable = {t1}
    DispatchLease = 1
    GraceTTL = 1
    MaxInProgress = 2
    GraceLimit = 1
    HangCooldown = 1
    MaxAttempts = 2
    MaxProgressInterrupts = 1
    MaxResume = 1
    MaxTime = 4
    MaxFaults = 1
    FaultKinds = {"flush", "crash", "orphan"}
SPECIFICATION MCSpec
INVARIANTS
    QueueResultAgree
    OneInProgressPerWorker
    RuntimeCap
PROPERTIES
    TerminalIsFinal
    
    TasksEnd
