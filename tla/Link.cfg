SPECIFICATION FairSpec
INVARIANTS
    TypeOK
    ConnectsForOpenedChannel
    LeftBehindIsCancelled
PROPERTIES
    ListenerResumes
    DialerResumes
    ProxyReleased
    TcpEndReleases
    GoneIsNoticed
CHECK_DEADLOCK FALSE
