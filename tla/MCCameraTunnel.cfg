SPECIFICATION MCSpec
CONSTANTS
    Callers = {u1, u2}
    MaxStream = 3
    Depth = 2
    Chunk = 2
    MaxRequest = 3
    MaxSize = 5
    Loaders = {u1, u2}
    Opener = u1
    NSymbols = 2
CHECK_DEADLOCK FALSE
INVARIANTS
    TypeOK
    ReleasedIsStopped
    NoOrphanCamera
    EndIsTrue
    DownloadUnbroken
    AnswersAreOurs
    NoNullCall
PROPERTIES
    StoppedWorkerEnds
