SPECIFICATION Spec
CHECK_DEADLOCK FALSE
CONSTANTS
    Streams <- OptionStreams
    HeadPieces = 2
    MaxLength = 40
    Numbers = {"1", "7"}
    None = None
INVARIANT
    OptionAsSent
