SPECIFICATION Spec
CONSTANTS
    Tools = {"t"}
    Inputs = {"i"}
    MaxRules = 1
    Dispatches = {"d"}
    Peers = {"p"}
    Values = {"v"}
    Sources <- Policies
    NoValue = NoValue
INVARIANT
    OperatorDenyBinds
CHECK_DEADLOCK FALSE
