SPECIFICATION Spec
CONSTANTS
    MaxSend = 1
    CopyBuf = 1
    Window = 1
    MaxFaults = 1
    Dumbpipe = {}
INVARIANTS
    LosslessWhenGraceful
CHECK_DEADLOCK FALSE
