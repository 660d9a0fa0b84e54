CONSTANTS
    Users = {u1}
    Nobody = nobody
    t1 = t1
    t2 = t2
    h1 = h1
    h2 = h2
    Topics = {t1, t2}
    Handlers = {h1, h2}
    NoHandler = null
    Requests <- MCRequests
    Empty = empty
    SubMax = 2
    SubRequestMax = 2
    RequestTimeout = 1
    SchedDelay = 1
    MaxRequests = 3
    MaxBreaks = 1
SPECIFICATION Spec
INVARIANTS
    UnlinkFindsNode
    HandlersMatchSubscriptions
    RequestsAnsweredOnce
