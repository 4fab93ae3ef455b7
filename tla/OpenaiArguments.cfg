SPECIFICATION Spec
CONSTANTS
    Apis = {"responses"}
    MaxTools = 2
    MaxPieces = 2
    MaxTexts = 1
    MaxWire = 2
    Empty = Empty
INVARIANT
    ArgumentsReachTheirCall
CHECK_DEADLOCK FALSE
