\* Devices come and go in any order; no driver fails.
CONSTANTS
    x = x
    y = y
    Dynamic <- XY
    Hosts <- OneHost
    Infos <- HubInfos
    DeviceIndex <- HubDeviceIndex
    Policy <- HubPolicy
    Preload <- HubPreload
    Template <- XYTemplate
    QuickLoad = FALSE
    Outcomes = {"ok"}
    MaxNodes = 7
SPECIFICATION DSpec
CHECK_DEADLOCK FALSE
INVARIANTS
    UnregisteredIsGone
