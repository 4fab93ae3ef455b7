SPECIFICATION Spec
CONSTANTS
    t1 = t1
    t2 = t2
    k1 = k1
    k2 = k2
    Calls = {c1, c2}
    Sources = {s1}
    Tools = {t1}
    Capsules = {k1}
    CapsuleOf <- OneEach
    Denied = {}
    MaxAsks = 1
    MaxFaults = 0
    FaultKinds = {}
INVARIANT SignalIsOwn
CHECK_DEADLOCK FALSE
