SPECIFICATION LiveSpec
CONSTANTS
    Clients = {c1}
    Workers = {k1, k2}
    Others = {}
    Conns <- AllConns
    Requests <- NamesRequests
    Names = {a, b}
    Ids = {}
    Wids = {}
    Generated <- FreshIds
    Uninit = {TRUE}
    MaxCalls = 1
    MaxDM = 1
    None = None
    a = a
    b = b
    i1 = i1
    v1 = v1
    v2 = v2
PROPERTIES
    CallsAnswered
    ClosedFreed
INVARIANTS
    LoopAlive
    LinkCounts
    OneAnswer
    NoLostCall
    NoLostWakeup
