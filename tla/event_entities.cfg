SPECIFICATION Spec
CONSTANTS
    Digital = 2
    Ports <- MCPorts
    Serials = {serial}
    NoSource = NoSource
    AnalogInputs <- MCAnalogInputs
    MaxChanges = 3
INVARIANTS
    TypeOK
    OwnerIsRespected
    AlertsReachTheirCamera
    IdentitiesAreDistinct
PROPERTIES
    Settles
CHECK_DEADLOCK FALSE
