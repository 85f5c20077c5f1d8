SPECIFICATION Spec
CONSTANTS
    MaxSend = 2
    CopyBuf = 1
    Window = 1
    MaxFaults = 1
    Dumbpipe = {}
INVARIANTS
    TypeOK
    CleanEndIsComplete
PROPERTIES
    ImplementsDuplex
CHECK_DEADLOCK FALSE
