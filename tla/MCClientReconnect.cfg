SPECIFICATION Spec
CONSTANTS
    Devices = {p1}
    NoDevice = NoDevice
    Callers = {ui}
    InitTask = init
    MaxGen = 2
    FailureLimit = 1
    QueueCap = 1
    ListMayFail = TRUE
CHECK_DEADLOCK FALSE
INVARIANTS
    ReconnectNotSelfBlocked
