SPECIFICATION FairSpec
CONSTANTS
    PathMax = 5
    IntBits = 8
    LongTexts = {"long"}
    Behind <- MCBehind
    Openers = {0, 1, 2, 3}
    MaxRemovals = 1
    MaxPid = 3
    MaxChurn = 2
    Documents <- MCDocuments
    Objects <- MCObjects
    Formats <- MCFormats
    Environ <- MCEnviron
    Launches <- MCLaunches
    MaxReloads = 1
INVARIANTS TypeOK LoadsWhatIsWritten CutKeepsWhatPrecedes FormatInForce DispatchAsWritten OpensUnlessHindered HelperReachesSupervisor
PROPERTIES DirsOnlyAsConfigured EveryLaunchSettles
