SPECIFICATION Spec
CONSTANTS
    Instances = {1, 2, 3}
    SerialModes = {TRUE, FALSE}
    MaxReloads = 1
    MaxSetbacks = 1
INVARIANTS TypeOK RunningIsReachable OneSupervisor SomeoneServes
PROPERTIES LaunchSucceeds
