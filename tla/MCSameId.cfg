SPECIFICATION Spec
CONSTANTS
    Clients = {c1, c2}
    Workers = {k1}
    Others = {o1}
    Conns <- AllConns
    Requests <- SameIdRequests
    Names = {a, b}
    Ids = {i1}
    Wids = {}
    Generated <- FreshIds
    Uninit = {FALSE}
    MaxCalls = 1
    MaxDM = 1
    None = None
    a = a
    b = b
    i1 = i1
    v1 = v1
    v2 = v2
SYMMETRY Symmetry
INVARIANTS
    LinkNotNegative
