SPECIFICATION Spec
CONSTANTS
    Instances = {1, 2}
    SerialModes = {FALSE}
    MaxReloads = 1
    MaxSetbacks = 0
PROPERTIES ActiveSocketKept
