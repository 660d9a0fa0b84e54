CONSTANTS
    Users = {u1}
    KeepAlive = 2
    ProbeMax = 3
    IntervalMin = 1
    IntervalMax = 3
    ReconnectOpen = TRUE
SPECIFICATION Spec
INVARIANTS
    ProbesBelongToConnection
