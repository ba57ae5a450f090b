SPECIFICATION SteadyPSpec
CONSTANTS
    Devices = {p1}
    NoDevice = NoDevice
    Callers = {ui}
    InitTask = init
    MaxGen = 1
    FailureLimit = 1
    QueueCap = 0
    ListMayFail = FALSE
CHECK_DEADLOCK FALSE
INVARIANTS
    LossIsNoticed
