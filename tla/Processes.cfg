SPECIFICATION MCSpec
CONSTANTS
    a = a
    b = b
    m = m
    da = da
    root = root
    Tasks = {a, b, m}
    Mains = {m}
    Dirs = {da, root}
    Root = root
    NoDir = NoDir
    NoTask = NoTask
    DirOf <- Places
    InlineRetries = 1
    MaxStarts = 3
    FaultKinds = {"clear", "crash", "launch", "respawn", "probe", "wake", "silent", "enter", "ctx", "api"}
    MaxFaults = 2
    Senders = {1, 2, 3}
    Retrying = {1}
    SendRetries = 1
    Probes = 2
    LostEnters = 2
    BlindProbes = 1
    MinPrevAge = 2
    ScanEvery = 3
    ScanGap = 2
    BlockedAfter = 4
    HopelessAfter = 3
    LeaseTicks = 4
    MaxUncertainStreak = 1
    Pids = {1, 2, 3}
    Ops = {11}
    Commands = {"c"}
    MaxCalls = 3
    Overlap = FALSE
    DaemonFaults = {"crash", "pid_file", "startup", "late_reuse", "verification", "interrupt", "formation"}
    MaxDaemonFaults = 2
INVARIANTS PastedWhereMeant GuardCoversAgent MessagesArriveWhole OneDaemonKeepsData
PROPERTIES ProcessesProgress
CHECK_DEADLOCK FALSE
