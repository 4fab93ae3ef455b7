SPECIFICATION Spec
CONSTANTS
    Conns = {"c"}
    Principals = {"default"}
    Sessions = {"s"}
    MaxStreams = 2
    MaxChunks = 2
    MaxTurns = 1
    None = None
INVARIANT
    FinalsAreShown
CHECK_DEADLOCK FALSE
