SPECIFICATION Spec
CONSTANTS
    Jobs = {j1}
    NoJob = NoJob
    Printer = printer
    LocalFile = local
    Params <- Either
    Paths = {local}
    Contents = {c1, c2}
    NoContent = NoContent
    Unreadable = Unreadable
    Mixed = Mixed
    Slots <- AnySlot
    NoSlot = NoSlot
    Listed = {printer}
    FileLen = 2
    MaxWrites = 1
    Empty = Empty
    Blank = Blank
    Clean <- CleanStem
    DefaultStem = "print"
    PlateStem = "plate"
    NoSuffix = NoSuffix
CHECK_DEADLOCK FALSE
INVARIANTS
    PrintedFileIsWhole
