SPECIFICATION FairSpec
CONSTANTS
    MaxApps = 2
    Names = {"web", "job"}
    Streams <- OneStream
    Configs <- ReloadConfigs
    p1 = p1
    p2 = p2
    p3 = p3
    Pids <- TwoPids
    Requests <- NoRequests
    EnvSignals = {"SIGINT", "SIGUSR1"}
    Faults = {}
    OrphanBound = 0
    RestartDelay = 1
PROPERTIES SigintEndsNanoinit
