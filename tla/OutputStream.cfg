SPECIFICATION Spec
CONSTANTS
    StreamConfigs <- SomeStreams
    FaultModes <- WithAndWithoutFaults
    ReadSize = 3
    MaxBytes = 5
    MaxStarts = 2
INVARIANTS TypeOK NothingLost InOrder PassthroughSame RotatedWholeLines OverrunIsOneLine EveryLinePrefixed
PROPERTIES RemovedOnlyWhenFullNoFaults LogOnlyGrows
