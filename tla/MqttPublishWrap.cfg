CONSTANTS
    Publishers = {p1}
    Yielder = y
    Nobody = nobody
    QosLevels = {0, 1}
    RepubMax = 2
    PacketIdMax = 3
    RequestTimeout = 1
    SchedDelay = 1
    ReconnectOpen = TRUE
    MaxRequests = 4
    MaxBreaks = 0
SPECIFICATION Spec
INVARIANTS
    UniqueOutstandingIds
