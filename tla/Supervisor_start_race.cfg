SPECIFICATION Spec
CONSTANTS
    MaxApps = 2
    Names = {"web", "job"}
    Streams <- OneStream
    Configs <- TwoApps
    p1 = p1
    p2 = p2
    p3 = p3
    Pids <- TwoPids
    Requests <- StartStop
    EnvSignals = {"SIGTERM"}
    Faults = {}
    OrphanBound = 0
    RestartDelay = 1
SYMMETRY PidSymmetry
INVARIANTS StopReachesEveryApp
