SPECIFICATION Spec
CONSTANTS
    Sessions = {s1, s2}
    Requests = {r1, r2, r3}
    Calls = {c1, c2}
    NoReq = NoReq
    NoSession = NoSession
    MaxPrompts = 2
    MaxTools = 2
    MaxIterations = 2
    MaxRedrive = 0
    MaxFaults = 1
    FaultKinds <- BusAndRpc
    FreshCallIds = TRUE
    MidTurnClear = FALSE
SYMMETRY Symmetry
INVARIANTS
    TypeOK
    NonIdleIsWatched
    DispatchedCallsRoutable
    OpenStreamRoutable
    IterationCap
    AtMostOneFinal
    MappingsAreLive
PROPERTY
    LateEventsAreInert
CHECK_DEADLOCK FALSE
