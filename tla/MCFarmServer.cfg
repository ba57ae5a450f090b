SPECIFICATION LiveSpec
CONSTANTS
    Devices = {p1}
    Hosts = {h1, h2}
    NoHost = NoHost
    Codes = {good, bad}
    NoCode = NoCode
    GoodCode = good
    MaxRpc = 2
    MaxMoves = 1
    QueueCap = 1
CHECK_DEADLOCK FALSE
INVARIANTS
    TypeOK
    RegisteredSessionIsLive
PROPERTIES
    ConnectIsAnswered
    SessionIsReclaimed
    SettledPrinterIsReached
