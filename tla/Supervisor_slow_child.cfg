SPECIFICATION FairSpec
CONSTANTS
    MaxApps = 1
    Names = {"web", "job"}
    Streams <- OneStream
    Configs <- OneApp
    p1 = p1
    p2 = p2
    p3 = p3
    Pids <- TwoPids
    Requests <- NoRequests
    EnvSignals = {"SIGTERM"}
    Faults = {"slow_child"}
    OrphanBound = 0
    RestartDelay = 1
PROPERTIES StopEndsNanoinit
