SPECIFICATION Spec
CONSTANTS
    Clients = {c1}
    Workers = {k1}
    Others = {o1}
    Conns <- AllConns
    Requests <- PubRequests
    Names = {a}
    Ids = {}
    Wids = {v1, v2}
    Generated <- FreshIds
    Uninit = {FALSE}
    MaxCalls = 1
    MaxDM = 2
    None = None
    a = a
    b = b
    i1 = i1
    v1 = v1
    v2 = v2
INVARIANTS
    LinkCounts
    OneAnswer
PROPERTIES
    PubReachesAll
