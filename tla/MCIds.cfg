SPECIFICATION Spec
CONSTANTS
    Clients = {c1, c2}
    Workers = {k1}
    Others = {}
    Conns <- AllConns
    Requests <- IdRequests
    Names = {a}
    Ids = {i1}
    Wids = {}
    Generated <- FreshIds
    Uninit = {FALSE}
    MaxCalls = 1
    MaxDM = 1
    None = None
    a = a
    b = b
    i1 = i1
    v1 = v1
    v2 = v2
SYMMETRY Symmetry
INVARIANTS
    TypeOK
    LinkCounts
    FreedUnreferenced
    OneAnswer
    HandedOnce
    NoLostCall
