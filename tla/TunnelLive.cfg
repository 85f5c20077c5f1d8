SPECIFICATION FairSpec
CONSTANTS
    MaxSend = 1
    CopyBuf = 1
    Window = 1
    MaxFaults = 1
    Dumbpipe = {"server"}
PROPERTIES
    FailureStopsBoth
    EofReachesPeer
    TunnelReclaimed
    CancelStopsForwarding
CHECK_DEADLOCK FALSE
