----------------------------- MODULE Components -----------------------------
(* The components that stand for themselves, side by side.  They share no state
   here: which one a behaviour is of is settled at the start, and the variables
   of the others stay None.                                                  *)
EXTENDS CapsuleInstances, ReplyInstances

CONSTANTS
    HostAsks,               \* bound: the events each host process may fire
    StartAsks, StopAsks     \* bounds: <<kind, edition>> pairs that are asked of
                            \* aos in a behaviour of each sort

VARIABLES
    which                   \* the component a behaviour is of

vars == <<which, directoryVars, modelsVars, descriptorsVars, hostsVars, hooksVars,
          globVars, promptsVars, chatsVars, engineVars, streamsVars, menuVars,
          serveVars, sparkVars, commandedVars>>

-----------------------------------------------------------------------------
Is(c) == which = c

\* The aos command has two sorts of behaviour, by what is asked of it.
Commanding == Is("start") \/ Is("stop")
AsksOnly(asks) ==
    \A c \in Commands : \/ jobs[c].kind = None
                        \/ <<jobs[c].kind, jobs[c].edition>> \in asks

FiresOnly ==
    \A c \in Clients : process[c].event = None \/ process[c].event \in HostAsks[c]

Init ==
    /\ which \in {"users", "models", "tools", "host hooks", "tool hooks", "globs",
                  "prompts", "chats", "compaction", "streams", "catalogs",
                  "mcp serve", "identity", "start", "stop"}
    /\ IF Is("users") THEN Directory!Init ELSE DirectoryOff
    /\ IF Is("models") THEN Models!Init ELSE ModelsOff
    /\ IF Is("tools") THEN Descriptors!Init ELSE DescriptorsOff
    /\ IF Is("host hooks") THEN Hosts!Init ELSE HostsOff
    /\ IF Is("tool hooks") THEN Hooks!Init ELSE HooksOff
    /\ IF Is("globs") THEN Glob!Init ELSE GlobOff
    /\ IF Is("prompts") THEN Prompts!Init ELSE PromptsOff
    /\ IF Is("chats") THEN Chats!Init ELSE ChatsOff
    /\ IF Is("compaction") THEN Engine!Init ELSE EngineOff
    /\ IF Is("streams") THEN Streams!Init ELSE StreamsOff
    /\ IF Is("catalogs") THEN Menu!Init ELSE MenuOff
    /\ IF Is("mcp serve") THEN Serve!Init ELSE ServeOff
    /\ IF Is("identity") THEN Spark!Init ELSE SparkOff
    /\ IF Commanding THEN Commanded!Init ELSE CommandedOff

Next ==
    /\ UNCHANGED which
    /\ IF Is("identity") THEN Spark!Next ELSE UNCHANGED sparkVars
    /\ IF Is("globs") THEN Glob!Next ELSE UNCHANGED globVars
    /\ IF Is("streams") THEN Streams!Next ELSE UNCHANGED streamsVars
    /\ IF Is("catalogs") THEN Menu!Next ELSE UNCHANGED menuVars
    /\ IF Is("tool hooks") THEN Hooks!Next ELSE UNCHANGED hooksVars
    /\ IF Is("models") THEN Models!Next ELSE UNCHANGED modelsVars
    /\ IF Is("compaction") THEN Engine!Next ELSE UNCHANGED engineVars
    /\ IF Is("mcp serve") THEN Serve!Next ELSE UNCHANGED serveVars
    /\ IF Is("host hooks") THEN Hosts!Next ELSE UNCHANGED hostsVars
    /\ IF Commanding THEN Commanded!Next ELSE UNCHANGED commandedVars
    /\ IF Is("users") THEN Directory!Next ELSE UNCHANGED directoryVars
    /\ IF Is("prompts") THEN Prompts!Next ELSE UNCHANGED promptsVars
    /\ IF Is("chats") THEN Chats!Next ELSE UNCHANGED chatsVars
    /\ IF Is("tools") THEN Descriptors!Next ELSE UNCHANGED descriptorsVars
    /\ Is("host hooks") => FiresOnly'
    /\ Is("start") => AsksOnly(StartAsks)'
    /\ Is("stop") => AsksOnly(StopAsks)'

Spec == Init /\ [][Next]_vars

-----------------------------------------------------------------------------
\* Each component keeps its types: see the TypeOK of its module.
TypeOK ==
    /\ Is("users") => Directory!TypeOK
    /\ Is("models") => Models!TypeOK
    /\ Is("tools") => Descriptors!TypeOK
    /\ Is("host hooks") => Hosts!TypeOK
    /\ Is("tool hooks") => Hooks!TypeOK
    /\ Is("globs") => Glob!TypeOK
    /\ Is("prompts") => Prompts!TypeOK
    /\ Is("chats") => Chats!TypeOK
    /\ Is("compaction") => Engine!TypeOK
    /\ Is("streams") => Streams!TypeOK
    /\ Is("catalogs") => Menu!TypeOK
    /\ Is("mcp serve") => Serve!TypeOK
    /\ Is("identity") => Spark!TypeOK
    /\ Commanding => Commanded!TypeOK

\* capsule-users: at every step of every job, and whichever storage call fails,
\* what a lookup finds exists, and an overlay outlives its link only by a delete
\* that failed between its first two cascades.
DirectoryIsSound ==
    Is("users") => Directory!DirectoryIsSound

\* capsule-registry: a subscriber fed by the broadcasts routes to the stored
\* selection, as long as no save was refused and no broadcast was lost.
SubscribersFollow == Is("models") => Models!SubscribersFollow

\* capsule-registry: no selection is replaced or dropped without a cause; an empty
\* discovery is none.
SelectionMovesForCause == [][Is("models") => Models!MoveHasCause]_vars

\* aos-mcp-broker cache.rs, capsule-prompt-builder: a tool of a departed capsule
\* is never listed again once its departure was absorbed with no fan-out out.
ToolListsAreCurrent ==
    /\ Is("tools") => Descriptors!DepartedToolsStayGone
    /\ Is("prompts") => Prompts!CachedToolsAreLoaded

\* The way of a hook, from the host's process to the verdict: one owner for a
\* session's route while no two ends of it are relayed at once, no collected
\* context too large to pass on, no veto lost or made up, and rules that cover the
\* names their globs mean.
HooksBind ==
    /\ Is("host hooks") => Hosts!RouteHasOneOwner /\ Hosts!CollectedContextPasses
    /\ Is("tool hooks") => Hooks!VetoesBind
    /\ Is("globs") => Glob!PlainTextsAreMatched

\* What reaches the model: no part of a prompt from a plugin that was not
\* permitted, the identity last saved, and a history compacted by no more than
\* the budget asks for, with nothing pinned or recent gone.
PromptsAreSound ==
    /\ Is("prompts") => Prompts!InjectionIsPermitted
    /\ Is("identity") => Spark!SavedIdentityOutlivesResets
    /\ Is("compaction") => Engine!CompactionKeepsWhatItMust

\* What comes back: the models a provider offers, and a reply that counts as
\* finished only when it is whole.
RepliesAreWhole ==
    /\ Is("catalogs") => Menu!OffersAreSound
    /\ Is("streams") => Streams!FinishedRepliesAreWhole

\* capsule-cli: what was streamed of a turn is on the screens of its session once,
\* whatever text its final response has and whatever the others are shown.
ChatsRenderOnce == Is("chats") => Chats!UndisturbedRepliesRenderOnce

\* aos mcp serve: no elicitation is lost or answered twice, and no consent comes
\* from anything but a user's choice.
ConsentIsSomeonesChoice ==
    Is("mcp serve") =>
        Serve!ElicitationsAreAccountedFor /\ Serve!ConsentIsSomeonesChoice

\* The aos command: the runtime is started with the release's own manifest, and
\* said to be stopped only when it has let go of its lock.
LaunchIsSound == Commanding => Commanded!LaunchIsSound
=============================================================================
