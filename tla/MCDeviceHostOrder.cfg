\* No driver fails, and the host with id 1 is started first.
CONSTANTS
    x = x
    y = y
    Dynamic <- XY
    Hosts <- OneFirst
    Infos <- BoardInfos
    DeviceIndex <- BoardDeviceIndex
    Policy <- BoardPolicy
    Preload <- BoardPreload
    Template <- XYTemplate
    QuickLoad = FALSE
    Outcomes = {"ok"}
    MaxNodes = 7
SPECIFICATION DSpec
CHECK_DEADLOCK FALSE
INVARIANTS
    EnabledIsLoaded
