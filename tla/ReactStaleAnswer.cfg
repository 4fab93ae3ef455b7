SPECIFICATION Spec
CONSTANTS
    Sessions = {s1}
    Requests = {r1, r2}
    Calls = {c1}
    NoReq = NoReq
    NoSession = NoSession
    MaxPrompts = 2
    MaxTools = 1
    MaxIterations = 2
    MaxRedrive = 1
    MaxFaults = 0
    FaultKinds <- NoFaults
    FreshCallIds = TRUE
    MidTurnClear = FALSE
INVARIANT SeesOwnPrompt
CHECK_DEADLOCK FALSE
