SPECIFICATION Spec
CONSTANTS
    Loops = {l1, l2}
    l1 = l1
    l2 = l2
    Asked <- Requests
    Keys <- SomeKeys
    FirstCap = 1
    BigCap = 2
    Extra = 1
    None = None
INVARIANTS
    FindsBest
    OneQueuePerName
    GetQueueRight
    NoUseAfterFree
    ReadsInBounds
