SPECIFICATION Spec
CONSTANTS
    MaxSource = 1
    MaxFaults = 3
INVARIANT
    NeverNeedsManualRecovery
