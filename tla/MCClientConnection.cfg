SPECIFICATION TargetSpec
CONSTANTS
    Devices = {p1, p2}
    NoDevice = NoDevice
    Callers = {ui}
    InitTask = init
    MaxGen = 2
    FailureLimit = 1
    QueueCap = 1
    ListMayFail = TRUE
SYMMETRY Printers
CHECK_DEADLOCK FALSE
INVARIANTS
    TypeOK
    ActiveIsServed
    NoOrphanTask
    ReconnectsToActive
