SPECIFICATION SteadySpec
CONSTANTS
    Devices = {p1, p2}
    NoDevice = NoDevice
    Callers = {ui}
    InitTask = init
    MaxGen = 2
    FailureLimit = 1
    QueueCap = 0
    ListMayFail = FALSE
CHECK_DEADLOCK FALSE
INVARIANTS
    ActiveHasSender
PROPERTIES
    CallsReturn
    ReplacedTaskEnds
    SendLoopEnds
    ImplementsSlot
