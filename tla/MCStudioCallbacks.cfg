SPECIFICATION MCSpec
CONSTANTS
    Devices = {p1, p2}
    NoDevice = NoDevice
    Callers = {ui, web}
    Tasks = {task}
    Loop = loop
    Refresher = refresher
    MaxVersion = 2
CHECK_DEADLOCK FALSE
INVARIANTS
    TypeOK
    NoPrinterMissed
    LoginIsTold
    ConnectionIsTold
    SelectionIsSaved
PROPERTIES
    StudioCatchesUp
