--------------------------- MODULE ReplyInstances ---------------------------
(* What a prompt's history and its reply go through, side by side: the CLI proxy,
   the context engine, the streams of the providers and their catalogs.       *)
EXTENDS Common, Naturals, Sequences

CONSTANTS
    Conns, Principals, MaxStreams, MaxChunks, MaxTurns,       \* ChatProxy
    Callers, Histories, Pins, Budgets, KeepRecent, MaxResponses, MaxCalls,
    NoId,                                                     \* Compaction
    Apis, MaxTools, MaxPieces, MaxTexts, MaxWire, NoPiece,    \* ProviderStream
    Table, ModelIds, MaxListed                                \* ProviderCatalog

VARIABLES
    conn, turn, deltas, finals, accum, between, count, dirty,
    asking, requests, engine, asked, answers, responses, replies, sent, calls,
    orphaned,
    api, written, wire, partial, active, running, got, mangled,
    dialect, listed, default, offered

Chats == INSTANCE ChatProxy
Engine == INSTANCE Compaction WITH Sessions <- Callers
Streams == INSTANCE ProviderStream WITH Empty <- NoPiece
Menu == INSTANCE ProviderCatalog WITH
    Catalog <- Table, Ids <- ModelIds, api <- dialect

chatsVars == <<conn, turn, deltas, finals, accum, between, count, dirty>>
engineVars == <<asking, requests, engine, asked, answers, responses, replies,
                sent, calls, orphaned>>
streamsVars == <<api, written, wire, partial, active, running, got, mangled>>
menuVars == <<dialect, listed, default, offered>>

-----------------------------------------------------------------------------
\* A component whose turn it is not.
ChatsOff ==
    /\ conn = None /\ turn = None /\ deltas = None /\ finals = None
    /\ accum = None /\ between = None /\ count = None /\ dirty = None
EngineOff ==
    /\ asking = None /\ requests = None /\ engine = None /\ asked = None
    /\ answers = None /\ responses = None /\ replies = None /\ sent = None
    /\ calls = None /\ orphaned = None
StreamsOff ==
    /\ api = None /\ written = None /\ wire = None /\ partial = None
    /\ active = None /\ running = None /\ got = None /\ mangled = None
MenuOff == dialect = None /\ listed = None /\ default = None /\ offered = None
=============================================================================
