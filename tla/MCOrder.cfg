SPECIFICATION Spec
CONSTANTS
    Clients = {c1, c2, c3}
    Workers = {k1}
    Others = {}
    Conns <- AllConns
    Requests <- OrderRequests
    Names = {a}
    Ids = {}
    Wids = {v1}
    Generated <- FreshIds
    Uninit = {FALSE}
    MaxCalls = 1
    MaxDM = 1
    None = None
    a = a
    b = b
    i1 = i1
    v1 = v1
    v2 = v2
SYMMETRY Symmetry
INVARIANTS
    PriorityOrder
    HandedOnce
    NoLostWakeup
PROPERTIES
    FirstComeFirstServed
    ImplementsBoard
