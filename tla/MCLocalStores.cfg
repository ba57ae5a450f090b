SPECIFICATION Spec
CONSTANTS
    Devices = {p1, p2}
    Vals = {v1, v2}
    NoVal = NoVal
    Own = Own
    Threads = {ui, other}
SYMMETRY Interchangeable
INVARIANTS
    TypeOK
    FileFollowsMemory
    ShownUnderGivenName
    StatusNamesTheJob
