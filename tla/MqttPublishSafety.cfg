CONSTANTS
    Publishers = {p1, p2}
    Yielder = y
    Nobody = nobody
    QosLevels = {0, 1}
    RepubMax = 2
    PacketIdMax = 3
    RequestTimeout = 1
    SchedDelay = 1
    ReconnectOpen = TRUE
    MaxRequests = 3
    MaxBreaks = 1
SYMMETRY PublisherSymmetry
SPECIFICATION Spec
INVARIANTS
    TypeOK
    NoDanglingIterator
    NoDoubleFree
    AcceptedNotLost
PROPERTIES
    NoResendAfterAck
    ImplementsAtLeastOnce
