SPECIFICATION Spec
CONSTANTS
    None = None
    Users = {"ann", "bob"}
    Links = {"l1", "l2"}
    Contexts = {"room"}
    UserNames = {"Ann"}
    Capsules = {"p", "q"}
    Emits <- TheEmits
    Inputs <- TheInputs
    OldIds <- TheOldIds
    ToolOffers <- TheOffers
    Baked = {"p"}
    Fanouts = {"f"}
    Cap = 1
    PerReply = 2
    Retries = 2
    TTL = 1
    MaxClock = 2
    Clients = {"c1", "c2", "c3"}
    HostAsks <- TheHostAsks
    Sessions = {"s"}
    Tokens = {"t1", "t2"}
    Contributors = {"p1", "p2"}
    Size <- TheSize
    MaxContext = 10
    ToolNames = {"t"}
    Arguments = {"i", "j"}
    MaxRules = 2
    Dispatches = {"d"}
    Peers = {"p1", "p2"}
    Values = {"v1", "v2"}
    Sources <- Policies
    NoValue = None
    Chars = {"a", "b"}
    Run = "*"
    AnyOne = "?"
    MaxPattern = 3
    MaxText = 3
    Builds = {"b1", "b2"}
    Plugins = {"p1", "p2"}
    HookAnswers <- TheAnswer
    Toolers = {"t1"}
    ToolsOf <- TheTools
    MaxReplies = 1
    MaxBatch = 2
    Original = "original"
    Conns = {"c1"}
    Principals = {"default", "ann"}
    MaxStreams = 1
    MaxChunks = 2
    MaxTurns = 2
    Callers = {"s", "t"}
    Histories <- TheHistories
    Pins = {{"a"}}
    Budgets <- TheBudgets
    KeepRecent = 1
    MaxResponses = 1
    MaxCalls = 2
    NoId = None
    Apis = {"chat", "responses"}
    MaxTools = 2
    MaxPieces = 2
    MaxTexts = 1
    MaxWire = 2
    NoPiece = None
    Table <- TheTable
    ModelIds <- TheIds
    MaxListed = 3
    Modes = {"auto", "client", "native", "deny"}
    Providers = {"buttons", "confirm"}
    Forms <- TheForms
    MaxFrames = 2
    MaxElicitations = 2
    Callsigns = {"x", "y"}
    Commands = {"c1", "c2"}
    Kinds = {"run", "init", "stop", "status", "update"}
    Editions = {"x", "y"}
    Markers <- TheMarkers
    StartAsks <- Starting
    StopAsks <- Stopping
INVARIANTS
    TypeOK
    DirectoryIsSound
    
    ToolListsAreCurrent
    HooksBind
    PromptsAreSound
    RepliesAreWhole
    ChatsRenderOnce
    ConsentIsSomeonesChoice
    LaunchIsSound
PROPERTY
    SelectionMovesForCause
CHECK_DEADLOCK FALSE
