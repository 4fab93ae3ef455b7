SPECIFICATION Spec
CONSTANTS
    Sessions = {s1}
    Requests = {r1, r2}
    Calls = {c1}
    NoReq = NoReq
    NoSession = NoSession
    MaxPrompts = 2
    MaxTools = 1
    MaxIterations = 2
    MaxRedrive = 1
    MaxFaults = 1
    FaultKinds <- SaveOnly
    FreshCallIds = TRUE
    MidTurnClear = FALSE
PROPERTY LagLeavesWatched
CHECK_DEADLOCK FALSE
