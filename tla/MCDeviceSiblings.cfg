\* The board boots; a driver may fail.
CONSTANTS
    x = x
    y = y
    Dynamic <- XY
    Hosts <- ZeroFirst
    Infos <- BoardInfos
    DeviceIndex <- BoardDeviceIndex
    Policy <- BoardPolicy
    Preload <- BoardPreload
    Template <- XYTemplate
    QuickLoad = FALSE
    Outcomes = {"ok", "fails"}
    MaxNodes = 5
SPECIFICATION DSpec
CHECK_DEADLOCK FALSE
PROPERTIES
    FailedLoadSparesOthers
