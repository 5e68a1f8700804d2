\* The board boots in quick mode while requests come in; devices come and go
\* in any order and any load may fail.
CONSTANTS
    x = x
    y = y
    Dynamic <- XY
    Hosts <- ZeroFirst
    Infos <- BoardInfos
    DeviceIndex <- BoardDeviceIndex
    Policy <- BoardPolicy
    Preload <- BoardPreload
    Template <- XYTemplate
    QuickLoad = TRUE
    Outcomes = {"ok", "fails"}
    MaxNodes = 5
SPECIFICATION DSpec
CHECK_DEADLOCK FALSE
INVARIANTS
    DevicesMatchNodes
    RecordsMatchNodes
    ServiceHasProvider
PROPERTIES
    ImplementsDirectory
