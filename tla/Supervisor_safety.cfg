SPECIFICATION Spec
CONSTANTS
    MaxApps = 2
    Names = {"web", "job"}
    Streams <- OneStream
    Configs <- ReloadConfigs
    p1 = p1
    p2 = p2
    p3 = p3
    Pids <- ThreePids
    Requests <- AllRequests
    EnvSignals = {"SIGINT", "SIGUSR1"}
    Faults <- AllFaults
    OrphanBound = 1
    RestartDelay = 1
SYMMETRY PidSymmetry
INVARIANTS TypeOK ChildTracking PendingIsIdle StreamsFollowChild NoAppLeftBehind
PROPERTIES LifecycleSpec
