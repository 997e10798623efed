SPECIFICATION Spec
CONSTANTS
    l1 = l1
    l2 = l2
    w1 = w1
    w2 = w2
    w3 = w3
    Threads = {l1, l2}
    Service = Service
    Timer = l1
    Workers = {w1, w2, w3}
    Home <- Homes
    NoId = {w2}
    MaxCalls = 1
    MaxDM = 1
    None = None
SYMMETRY Symmetry
INVARIANTS
    ClaimedOnce
    ListIntact
    SomeoneGoesOn
