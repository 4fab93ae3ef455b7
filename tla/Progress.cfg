SPECIFICATION AllSpec
CONSTANTS
    s1 = s1
    s2 = s2
    ReqIds = {r1, r2}
    NoReq = NoReq
    NoSession = NoSession
    MaxIterations = 2
    Calls = {c1, c2}
    src = src
    tool = tool
    capsule = capsule
    MaxSource = 2
    MaxFaults = 2
INVARIANTS
    TypeOK
    BundleSurvives
    ReceiptVouches
PROPERTIES
    CommitsCurrentSource
    ImportsFinish
    TurnsEnd
    OrphansDrain
    EveryCallAnswered
    LateYesConverges
    PromptsRecur
