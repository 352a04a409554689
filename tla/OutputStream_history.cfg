SPECIFICATION Spec
CONSTANTS
    StreamConfigs <- OneStream
    FaultModes <- OpenFaults
    ReadSize = 3
    MaxBytes = 4
    MaxStarts = 1
PROPERTIES RemovedOnlyWhenFull
