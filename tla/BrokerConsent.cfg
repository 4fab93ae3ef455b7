SPECIFICATION Spec
CONSTANTS
    t1 = t1
    t2 = t2
    k1 = k1
    k2 = k2
    Calls = {c1, c2}
    Sources = {s1}
    Tools = {t1, t2}
    Capsules = {k1, k2}
    CapsuleOf <- OneEach
    Denied = {k2}
    MaxAsks = 2
    MaxFaults = 1
    FaultKinds = {"trustRead", "trustWrite", "ingressMark", "ingressTake",
                  "ingressClear", "recordRead", "recordWrite", "markerRead",
                  "markerWrite", "markerTake", "subscribe", "publish"}
SYMMETRY Symmetry
INVARIANTS
    TypeOK
    TrustNeedsPrompt
    GrantsAreWanted
    ResultsMatch
    NoResultMissed
    MarkerAwaitsAnswer
PROPERTIES
    ResumedAsDecided
CHECK_DEADLOCK FALSE
