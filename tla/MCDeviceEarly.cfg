\* A request may load a STEP2 driver before the boot thread is at it.
CONSTANTS
    x = x
    y = y
    Dynamic <- XY
    Hosts <- ZeroFirst
    Infos <- BoardInfos
    DeviceIndex <- BoardDeviceIndex
    Policy <- FilesPolicy
    Preload <- BoardPreload
    Template <- XYTemplate
    QuickLoad = FALSE
    Outcomes = {"ok"}
    MaxNodes = 7
SPECIFICATION DSpec
CHECK_DEADLOCK FALSE
INVARIANTS
    EnabledIsLoaded
