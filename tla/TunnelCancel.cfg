SPECIFICATION FairSpec
CONSTANTS
    MaxSend = 1
    CopyBuf = 1
    Window = 1
    MaxFaults = 1
    Dumbpipe = {}
PROPERTIES
    ConnectionDiesOnCancel
CHECK_DEADLOCK FALSE
