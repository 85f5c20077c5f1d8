SPECIFICATION FairSpec
CONSTANTS
    Hellos <- MCHellos
    Reasons <- MCReasons
    PeekBuf = 14
    UrlServer <- MCUrlServer
INVARIANTS
    TypeOK
    ParsedIsSent
    ToldIsFramed
    LoginIsAnswered
    StreamIsMinecrafts
PROPERTIES
    HandlerSettles
    ServerNotStranded
    CancelDisconnects
CHECK_DEADLOCK FALSE
