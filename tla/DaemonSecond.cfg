\* A second maestro daemon is typed while the first one serves.
SPECIFICATION LifecycleSpec
CONSTANTS
    Pids = {1, 2, 3}
    Ops = {11}
    Commands = {"c"}
    MaxCalls = 3
    Overlap = FALSE
    DaemonFaults = {"manual_daemon"}
    MaxDaemonFaults = 2
PROPERTY KeepsSocket
CHECK_DEADLOCK FALSE
