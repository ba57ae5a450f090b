SPECIFICATION Spec
CONSTANTS
    Devices = {p1}
    Hosts = {h1, h2}
    NoHost = NoHost
    Codes = {good, bad}
    NoCode = NoCode
    GoodCode = good
    MaxRpc = 2
    MaxMoves = 0
    QueueCap = 0
CHECK_DEADLOCK FALSE
INVARIANTS
    LiveSessionHasSender
