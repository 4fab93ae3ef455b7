SPECIFICATION MCSpec
CONSTANTS
    Ids = {1, 2, 3}
    Workers = {w1, w2}
    Batches = {m1, m2}
    OldBatch = OldBatch
    Patches <- MCPatches
    NoThread = NoThread
    NoAnswer = NoAnswer
    CasRetryLimit = 2
    SearchLimit = 1
    ScanBudget = 2
    PageSize = 2
    MaxOps = 3
    MaxFaults = 1
    Searching = TRUE
    StoredKinds <- AnyVersion
SYMMETRY Symmetry
INVARIANTS
    TypeOK
    RetriesMeanContention
    SearchIsComplete
PROPERTY
    HandlersImplementThreadStore
CHECK_DEADLOCK FALSE
