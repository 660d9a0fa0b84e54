CONSTANTS
    Publishers = {p1}
    Yielder = y
    Nobody = nobody
    QosLevels = {0, 1}
    RepubMax = 1
    PacketIdMax = 2
    RequestTimeout = 1
    SchedDelay = 1
    ReconnectOpen = TRUE
    MaxRequests = 2
    MaxBreaks = 1
SPECIFICATION FairSpec
PROPERTIES
    PublishReturns
    AcceptedIsDelivered
