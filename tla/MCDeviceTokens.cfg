\* A device is registered and leaves; no driver fails.
CONSTANTS
    x = x
    y = y
    Dynamic <- XY
    Hosts <- OneHost
    Infos <- HubInfos
    DeviceIndex <- HubDeviceIndex
    Policy <- HubPolicy
    Preload <- HubPreload
    Template <- XYTemplate
    QuickLoad = FALSE
    Outcomes = {"ok"}
    MaxNodes = 5
SPECIFICATION DSpec
CHECK_DEADLOCK FALSE
INVARIANTS
    TokensReleased
