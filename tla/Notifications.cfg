SPECIFICATION MCSpec
CONSTANTS
    c1 = c1
    w1 = w1
    w2 = w2
    Cmds = {c1}
    Works = {w1, w2}
    Superseded = {w2}
    MaxNotify = 2
    MaxRowTries = 2
    InlineSends = 1
    MaxIterations = 2
    MaxArchives = 1
    FaultKinds = {"write", "send", "unsure", "flush", "crash"}
    MaxFaults = 1
    Workers = {"w"}
    Tasks = {"t1", "t2"}
    Threshold = 1
    MaxAttempts = 2
    CascadeBreak = 2
    MaxResolutions = 1
    MaxGen = 2
    MaxBad = 2
    SignalFaults = {"crash", "flush", "mark", "load", "preflush", "save", "guard", "signal write"}
    MaxSignalFaults = 1
    Topics = {"phase", "breaker", "conflict", "again", "marks"}
PROPERTIES AtLeastOnce SignalsReachPlanner
CHECK_DEADLOCK FALSE
