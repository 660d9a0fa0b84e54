CONSTANTS
    Users = {u1, u2}
    KeepAlive = 2
    ProbeMax = 2
    IntervalMin = 1
    IntervalMax = 3
    ReconnectOpen = TRUE
SPECIFICATION FairSpec
INVARIANTS
    SilentLinkGivenUp
    NoSocketLeak
    ReconnectFollowsDisconnect
    NoReconnectStorm
PROPERTIES
    Recovers
