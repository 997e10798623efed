SPECIFICATION Spec
CHECK_DEADLOCK FALSE
CONSTANTS
    Streams <- AllStreams
    HeadPieces = 2
    MaxLength = 40
    Numbers = {"1", "7"}
    None = None
INVARIANTS
    HandledAsSent
    NothingLeft
    WaitingKept
