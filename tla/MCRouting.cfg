SPECIFICATION Spec
CONSTANTS
    Clients = {c1}
    Workers = {k1}
    Others = {o1}
    Conns <- AllConns
    Requests <- RoutingRequests
    Names = {a}
    Ids = {}
    Wids = {}
    Generated <- FreshIds
    Uninit = {FALSE}
    MaxCalls = 2
    MaxDM = 1
    None = None
    a = a
    b = b
    i1 = i1
    v1 = v1
    v2 = v2
SYMMETRY Symmetry
INVARIANTS
    LinkCounts
    OneAnswer
    RoutedToCaller
    NoLostCall
    LoopAlive
