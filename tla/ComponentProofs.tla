--------------------------- MODULE ComponentProofs ---------------------------
(***************************************************************************)
(* What the run of MCCapsules checks, for every value of the constants.    *)
(* A behaviour of Components is one of a single component, from its start  *)
(* on; so what CapsuleProofs and ReplyProofs prove of that component holds *)
(* of it.                                                                  *)
(***************************************************************************)
EXTENDS Components, CapsuleProofs, ReplyProofs

-----------------------------------------------------------------------------
(* A behaviour in which a component has its turn is a behaviour of it. *)

LEMMA DirectoryRun == Spec => []~Is("users") \/ Directory!Spec
<1>1. Init /\ Is("users") => Directory!Init
  BY DEF Init
<1>2. [Next]_vars /\ Is("users") => [Directory!Next]_(Directory!vars)
  BY DEF Next, vars, directoryVars, Directory!vars
<1>3. [Next]_vars => (Is("users")' <=> Is("users"))
  BY DEF Is, Next, vars
<1> QED
  BY <1>1, <1>2, <1>3, PTL DEF Spec, Directory!Spec

LEMMA ModelsRun == Spec => []~Is("models") \/ Models!Spec
<1>1. Init /\ Is("models") => Models!Init
  BY DEF Init
<1>2. [Next]_vars /\ Is("models") => [Models!Next]_(Models!vars)
  BY DEF Next, vars, modelsVars, Models!vars
<1>3. [Next]_vars => (Is("models")' <=> Is("models"))
  BY DEF Is, Next, vars
<1> QED
  BY <1>1, <1>2, <1>3, PTL DEF Spec, Models!Spec

LEMMA DescriptorsRun == Spec => []~Is("tools") \/ Descriptors!Spec
<1>1. Init /\ Is("tools") => Descriptors!Init
  BY DEF Init
<1>2. [Next]_vars /\ Is("tools") => [Descriptors!Next]_(Descriptors!vars)
  BY DEF Next, vars, descriptorsVars, Descriptors!vars
<1>3. [Next]_vars => (Is("tools")' <=> Is("tools"))
  BY DEF Is, Next, vars
<1> QED
  BY <1>1, <1>2, <1>3, PTL DEF Spec, Descriptors!Spec

LEMMA HostsRun == Spec => []~Is("host hooks") \/ Hosts!Spec
<1>1. Init /\ Is("host hooks") => Hosts!Init
  BY DEF Init
<1>2. [Next]_vars /\ Is("host hooks") => [Hosts!Next]_(Hosts!vars)
  BY DEF Next, vars, hostsVars, Hosts!vars
<1>3. [Next]_vars => (Is("host hooks")' <=> Is("host hooks"))
  BY DEF Is, Next, vars
<1> QED
  BY <1>1, <1>2, <1>3, PTL DEF Spec, Hosts!Spec

LEMMA HooksRun == Spec => []~Is("tool hooks") \/ Hooks!Spec
<1>1. Init /\ Is("tool hooks") => Hooks!Init
  BY DEF Init
<1>2. [Next]_vars /\ Is("tool hooks") => [Hooks!Next]_(Hooks!vars)
  BY DEF Next, vars, hooksVars, Hooks!vars
<1>3. [Next]_vars => (Is("tool hooks")' <=> Is("tool hooks"))
  BY DEF Is, Next, vars
<1> QED
  BY <1>1, <1>2, <1>3, PTL DEF Spec, Hooks!Spec

LEMMA GlobRun == Spec => []~Is("globs") \/ Glob!Spec
<1>1. Init /\ Is("globs") => Glob!Init
  BY DEF Init
<1>2. [Next]_vars /\ Is("globs") => [Glob!Next]_(Glob!vars)
  BY DEF Next, vars, globVars, Glob!vars
<1>3. [Next]_vars => (Is("globs")' <=> Is("globs"))
  BY DEF Is, Next, vars
<1> QED
  BY <1>1, <1>2, <1>3, PTL DEF Spec, Glob!Spec

LEMMA PromptsRun == Spec => []~Is("prompts") \/ Prompts!Spec
<1>1. Init /\ Is("prompts") => Prompts!Init
  BY DEF Init
<1>2. [Next]_vars /\ Is("prompts") => [Prompts!Next]_(Prompts!vars)
  BY DEF Next, vars, promptsVars, Prompts!vars
<1>3. [Next]_vars => (Is("prompts")' <=> Is("prompts"))
  BY DEF Is, Next, vars
<1> QED
  BY <1>1, <1>2, <1>3, PTL DEF Spec, Prompts!Spec

LEMMA ChatsRun == Spec => []~Is("chats") \/ Chats!Spec
<1>1. Init /\ Is("chats") => Chats!Init
  BY DEF Init
<1>2. [Next]_vars /\ Is("chats") => [Chats!Next]_(Chats!vars)
  BY DEF Next, vars, chatsVars, Chats!vars
<1>3. [Next]_vars => (Is("chats")' <=> Is("chats"))
  BY DEF Is, Next, vars
<1> QED
  BY <1>1, <1>2, <1>3, PTL DEF Spec, Chats!Spec

LEMMA EngineRun == Spec => []~Is("compaction") \/ Engine!Spec
<1>1. Init /\ Is("compaction") => Engine!Init
  BY DEF Init
<1>2. [Next]_vars /\ Is("compaction") => [Engine!Next]_(Engine!vars)
  BY DEF Next, vars, engineVars, Engine!vars
<1>3. [Next]_vars => (Is("compaction")' <=> Is("compaction"))
  BY DEF Is, Next, vars
<1> QED
  BY <1>1, <1>2, <1>3, PTL DEF Spec, Engine!Spec

LEMMA StreamsRun == Spec => []~Is("streams") \/ Streams!Spec
<1>1. Init /\ Is("streams") => Streams!Init
  BY DEF Init
<1>2. [Next]_vars /\ Is("streams") => [Streams!Next]_(Streams!vars)
  BY DEF Next, vars, streamsVars, Streams!vars
<1>3. [Next]_vars => (Is("streams")' <=> Is("streams"))
  BY DEF Is, Next, vars
<1> QED
  BY <1>1, <1>2, <1>3, PTL DEF Spec, Streams!Spec

LEMMA MenuRun == Spec => []~Is("catalogs") \/ Menu!Spec
<1>1. Init /\ Is("catalogs") => Menu!Init
  BY DEF Init
<1>2. [Next]_vars /\ Is("catalogs") => [Menu!Next]_(Menu!vars)
  BY DEF Next, vars, menuVars, Menu!vars
<1>3. [Next]_vars => (Is("catalogs")' <=> Is("catalogs"))
  BY DEF Is, Next, vars
<1> QED
  BY <1>1, <1>2, <1>3, PTL DEF Spec, Menu!Spec

LEMMA ServeRun == Spec => []~Is("mcp serve") \/ Serve!Spec
<1>1. Init /\ Is("mcp serve") => Serve!Init
  BY DEF Init
<1>2. [Next]_vars /\ Is("mcp serve") => [Serve!Next]_(Serve!vars)
  BY DEF Next, vars, serveVars, Serve!vars
<1>3. [Next]_vars => (Is("mcp serve")' <=> Is("mcp serve"))
  BY DEF Is, Next, vars
<1> QED
  BY <1>1, <1>2, <1>3, PTL DEF Spec, Serve!Spec

LEMMA SparkRun == Spec => []~Is("identity") \/ Spark!Spec
<1>1. Init /\ Is("identity") => Spark!Init
  BY DEF Init
<1>2. [Next]_vars /\ Is("identity") => [Spark!Next]_(Spark!vars)
  BY DEF Next, vars, sparkVars, Spark!vars
<1>3. [Next]_vars => (Is("identity")' <=> Is("identity"))
  BY DEF Is, Next, vars
<1> QED
  BY <1>1, <1>2, <1>3, PTL DEF Spec, Spark!Spec

\* aos is run in two sorts of behaviour.
LEMMA CommandedRun == Spec => []~Commanding \/ Commanded!Spec
<1>1. Init /\ Commanding => Commanded!Init
  BY DEF Init
<1>2. [Next]_vars /\ Commanding => [Commanded!Next]_(Commanded!vars)
  BY DEF Next, vars, commandedVars, Commanded!vars
<1>3. [Next]_vars => (Commanding' <=> Commanding)
  BY DEF Commanding, Is, Next, vars
<1> QED
  BY <1>1, <1>2, <1>3, PTL DEF Spec, Commanded!Spec

-----------------------------------------------------------------------------
(* What each component promises *)

\* capsule-users: whichever storage call of whichever job fails, index entries and
\* links lead to stored users, and an overlay has its link unless a delete_user
\* failed between its first two cascades.
THEOREM DirectoryHolds == ASSUME NoneIsNothing PROVE Spec => []DirectoryIsSound
<1>1. Directory!Spec => []Directory!ReferencesAreLive
  BY NoLookupDangles
<1>2. Directory!Spec => []Directory!OverlaysHaveLinks
  BY OverlaysAreSwept
<1>3. Directory!ReferencesAreLive /\ Directory!OverlaysHaveLinks => DirectoryIsSound
  BY DEF DirectoryIsSound, Directory!DirectoryIsSound
<1>4. ~Is("users") => DirectoryIsSound
  BY DEF DirectoryIsSound
<1> QED
  BY <1>1, <1>2, <1>3, <1>4, DirectoryRun, PTL

\* aos: the runtime is handed the manifest of the release that hands it over, and
\* what is said to be stopped has let go of its lock, for any processes, killed
\* between any two steps.
THEOREM LaunchHolds == ASSUME DaemonIsNobody PROVE Spec => []LaunchIsSound
<1>1. Commanded!Spec => []Commanded!StoppedMeansReleased
  BY StoppedIsReleased
<1>2. Commanded!Spec => []Commanded!HandedManifestIsOurs
  BY HandedOverIsOurs
<1>3. Commanded!StoppedMeansReleased /\ Commanded!HandedManifestIsOurs => LaunchIsSound
  BY DEF LaunchIsSound, Commanded!LaunchIsSound
<1>4. ~Commanding => LaunchIsSound
  BY DEF LaunchIsSound
<1> QED
  BY <1>1, <1>2, <1>3, <1>4, CommandedRun, PTL

\* aos mcp serve: however frames, answers and exits interleave, no elicitation is
\* lost or answered twice, and an approval is a button somebody pressed.
THEOREM ConsentHolds ==
    ASSUME Forms \subseteq Seq(STRING) PROVE Spec => []ConsentIsSomeonesChoice
<1> DEFINE Sound == Serve!ElicitationsAreAccountedFor /\ Serve!ConsentIsSomeonesChoice
<1>1. Serve!Spec => []Sound
  BY ConsentIsAChoice, PTL
<1>2. ~Is("mcp serve") => ConsentIsSomeonesChoice
  BY DEF ConsentIsSomeonesChoice
<1>3. Sound => ConsentIsSomeonesChoice
  BY DEF ConsentIsSomeonesChoice
<1> QED
  BY <1>1, <1>2, <1>3, ServeRun, PTL

\* capsule-registry: the selection its subscribers follow is the stored one, unless
\* a save was refused or a broadcast lost.
THEOREM SubscribersHold == Spec => []SubscribersFollow
<1>1. ~Is("models") => SubscribersFollow
  BY DEF SubscribersFollow
<1>2. Models!SubscribersFollow => SubscribersFollow
  BY DEF SubscribersFollow
<1> QED
  BY <1>1, <1>2, SubscribersAreCurrent, ModelsRun, PTL

\* capsule-registry: no step but a set, an unset or a discovery that found some
\* models and not this one replaces or drops a stored selection.
THEOREM SelectionsHold == Spec => SelectionMovesForCause
<1>1. Init => (Is("models") => Follows)
  BY FollowsFirst DEF Init
<1>2. [Next]_vars /\ Is("models") => [Models!Next]_(Models!vars)
  BY DEF Next, vars, modelsVars, Models!vars
<1>3. [Next]_vars => (Is("models")' <=> Is("models"))
  BY DEF Is, Next, vars
<1>4. Follows /\ [Models!Next]_(Models!vars) => Follows' /\ Models!MoveHasCause
  BY EveryStepFollows DEF Step
<1>5. [Next]_vars /\ (Is("models") => Follows)
         => (Is("models") => Follows)' /\ [Is("models") => Models!MoveHasCause]_vars
  BY <1>2, <1>3, <1>4
<1> QED
  BY <1>1, <1>5, PTL DEF Spec, SelectionMovesForCause

-----------------------------------------------------------------------------
(* What several components promise together *)

(* The way of a hook, from the host's process to the verdict: one owner for a
   session's route while no two ends of it overlap (capsule-mcp host_hooks.rs), no
   collected context too large to pass on, no veto lost or made up (capsule-hook-bridge), and rules that cover
   the names their globs mean.                                               *)
THEOREM HooksHold ==
    ASSUME None \notin Tokens, Size \in [Contributors -> Nat], MaxContext \in Nat,
           \A source \in Sources : source.rules \in Seq(Hooks!Rules),
           Run # AnyOne, MaxPattern \in Nat, MaxText \in Nat
    PROVE  Spec => []HooksBind
<1>1. Hosts!Spec => []Hosts!RouteHasOneOwner
  BY RoutesHaveOneOwner
<1>2. Hosts!Spec => []Hosts!CollectedContextPasses
  BY ContextsFit
<1>3. Hooks!Spec => []Hooks!VetoesBind
  BY VetoesAlwaysBind
<1>4. Glob!Spec => []Glob!PlainTextsAreMatched
  BY GlobsMeanWhatTheySay
<1>5. ( /\ ~Is("host hooks") \/ (Hosts!RouteHasOneOwner /\ Hosts!CollectedContextPasses)
        /\ ~Is("tool hooks") \/ Hooks!VetoesBind
        /\ ~Is("globs") \/ Glob!PlainTextsAreMatched )
         => HooksBind
  BY Zenon DEF HooksBind
<1> QED
  BY <1>1, <1>2, <1>3, <1>4, <1>5, HostsRun, HooksRun, GlobRun, PTL

\* A tool of a departed capsule is not listed again once its departure was absorbed,
\* by the broker (aos-mcp-broker cache.rs) or by the prompt builder.
THEOREM ToolListsHold ==
    ASSUME Catalogued, \A c \in Toolers : ToolsOf[c] \in Seq(STRING)
    PROVE  Spec => []ToolListsAreCurrent
<1>1. Descriptors!Spec => []Descriptors!DepartedToolsStayGone
  BY CatalogFollowsTheCapsules
<1>2. Prompts!Spec => []Prompts!CachedToolsAreLoaded
  BY CacheFollowsTheCapsules
<1>3. ( /\ ~Is("tools") \/ Descriptors!DepartedToolsStayGone
        /\ ~Is("prompts") \/ Prompts!CachedToolsAreLoaded )
         => ToolListsAreCurrent
  BY Zenon DEF ToolListsAreCurrent
<1> QED
  BY <1>1, <1>2, <1>3, DescriptorsRun, PromptsRun, PTL

\* What reaches the model: no part of a prompt comes from a plugin that was not
\* permitted, the identity is the one last saved, and a history is compacted by no
\* more than its budget asks for.
THEOREM PromptsHold ==
    ASSUME \A c \in Toolers : ToolsOf[c] \in Seq(STRING),
           KeepRecent \in Nat, NEW ids, Sized(ids), None \notin Asked
    PROVE  Spec => []PromptsAreSound
<1>1. Prompts!Spec => []Prompts!InjectionIsPermitted
  BY PromptsArePermitted
<1>2. Spark!Spec => []Spark!SavedIdentityOutlivesResets
  BY SavedIdentityStays
<1>3. Engine!Spec => []Engine!CompactionKeepsWhatItMust
  BY CompactionHolds
<1>4. ( /\ ~Is("prompts") \/ Prompts!InjectionIsPermitted
        /\ ~Is("identity") \/ Spark!SavedIdentityOutlivesResets
        /\ ~Is("compaction") \/ Engine!CompactionKeepsWhatItMust )
         => PromptsAreSound
  BY Zenon DEF PromptsAreSound
<1> QED
  BY <1>1, <1>2, <1>3, <1>4, PromptsRun, SparkRun, EngineRun, PTL

\* What comes back: what is offered is what the upstream serves, and a reply that
\* counts as finished is whole.
THEOREM RepliesHold ==
    ASSUME NEW chars, Tabled(chars),
           Apis \subseteq {"chat", "responses"}, MaxTools \in Nat
    PROVE  Spec => []RepliesAreWhole
<1>1. Menu!Spec => []Menu!OffersAreSound
  BY OffersHold
<1>2. Streams!Spec => []Streams!FinishedRepliesAreWhole
  BY FinishedRepliesHold
<1>3. ( /\ ~Is("catalogs") \/ Menu!OffersAreSound
        /\ ~Is("streams") \/ Streams!FinishedRepliesAreWhole )
         => RepliesAreWhole
  BY Zenon DEF RepliesAreWhole
<1> QED
  BY <1>1, <1>2, <1>3, MenuRun, StreamsRun, PTL

\* capsule-cli: on a session whose stream was not disturbed, what was streamed of a
\* turn is shown once to everyone who was there when it began.
THEOREM ChatsHold == ASSUME ChatConstants PROVE Spec => []ChatsRenderOnce
<1>1. Chats!Spec => []Chats!UndisturbedRepliesRenderOnce
  BY RepliesRenderOnce
<1>2. ~Is("chats") \/ Chats!UndisturbedRepliesRenderOnce => ChatsRenderOnce
  BY Zenon DEF ChatsRenderOnce
<1> QED
  BY <1>1, <1>2, ChatsRun, PTL

-----------------------------------------------------------------------------
(* What each component keeps *)

(* The state of each component stays of its types, and within the limits the code
   sets itself: the cap of the broker's descriptor cache, MAX_HOOK_RESPONSES and
   less than a batch more in the prompt builder, a CAS tried no more often than
   it may, an identity that an agent may have.  The constants are lists and
   numbers of the sorts that their comments say, the plugins, capsules and
   providers finitely many.                                                  *)
THEOREM TypesHold ==
    ASSUME NoneIsNothing, DescriptionsAreLists, Catalogued, Limited,
           \A source \in Sources : source.rules \in Seq(Hooks!Rules),
           MaxPattern \in Nat, MaxText \in Nat,
           \A c \in Toolers : ToolsOf[c] \in Seq(STRING), MaxReplies \in Nat,
           MaxBatch \in Nat \ {0},
           ChatConstants, MaxTurns \in Nat,
           IsFiniteSet(Plugins), MaxCalls \in Nat, None \notin Asked,
           Apis \subseteq {"chat", "responses"}, MaxTools \in Nat, MaxWire \in Nat,
           NEW chars, Tabled(chars),
           Forms \subseteq Seq(STRING), MaxElicitations \in Nat,
           Len(Markers) \in Nat \ {0}
    PROVE  Spec => []TypeOK
<1>1. Spec => [](Is("users") => Directory!TypeOK)
  BY DirectoryRun, DirectoryIsTyped, PTL
<1>2. Spec => [](Is("models") => Models!TypeOK)
  BY ModelsRun, SelectionsAreTyped, PTL
<1>3. Spec => [](Is("tools") => Descriptors!TypeOK)
  BY DescriptorsRun, CacheIsTyped, PTL
<1>4. Spec => [](Is("host hooks") => Hosts!TypeOK)
  BY HostsRun, HostsAreTyped, PTL
<1>5. Spec => [](Is("tool hooks") => Hooks!TypeOK)
  BY HooksRun, HooksAreTyped, PTL
<1>6. Spec => [](Is("globs") => Glob!TypeOK)
  BY GlobRun, GlobsAreTyped, PTL
<1>7. Spec => [](Is("prompts") => Prompts!TypeOK)
  BY PromptsRun, PromptsAreTyped, PTL
<1>8. Spec => [](Is("chats") => Chats!TypeOK)
  BY ChatsRun, ChatsAreTyped, PTL
<1>9. Spec => [](Is("compaction") => Engine!TypeOK)
  BY EngineRun, CompactionIsTyped, PTL
<1>10. Spec => [](Is("streams") => Streams!TypeOK)
  BY StreamsRun, RepliesAreTyped, PTL
<1>11. Spec => [](Is("catalogs") => Menu!TypeOK)
  BY MenuRun, CatalogsAreTyped, PTL
<1>12. Spec => [](Is("mcp serve") => Serve!TypeOK)
  BY ServeRun, ServeIsTyped, PTL
<1>13. Spec => [](Is("identity") => Spark!TypeOK)
  BY SparkRun, IdentityIsTyped, PTL
<1>14. Spec => [](Commanding => Commanded!TypeOK)
  BY CommandedRun, LaunchIsTyped, PTL
<1> DEFINE A == /\ Is("users") => Directory!TypeOK
                /\ Is("models") => Models!TypeOK
                /\ Is("tools") => Descriptors!TypeOK
                /\ Is("host hooks") => Hosts!TypeOK
                /\ Is("tool hooks") => Hooks!TypeOK
           B == /\ Is("globs") => Glob!TypeOK
                /\ Is("prompts") => Prompts!TypeOK
                /\ Is("chats") => Chats!TypeOK
                /\ Is("compaction") => Engine!TypeOK
                /\ Is("streams") => Streams!TypeOK
           C == /\ Is("catalogs") => Menu!TypeOK
                /\ Is("mcp serve") => Serve!TypeOK
                /\ Is("identity") => Spark!TypeOK
                /\ Commanding => Commanded!TypeOK
<1>15. Spec => []A
  BY <1>1, <1>2, <1>3, <1>4, <1>5, PTL
<1>16. Spec => []B
  BY <1>6, <1>7, <1>8, <1>9, <1>10, PTL
<1>17. Spec => []C
  BY <1>11, <1>12, <1>13, <1>14, PTL
<1>18. A /\ B /\ C => TypeOK
  BY Zenon DEF TypeOK
<1> HIDE DEF A, B, C
<1> QED
  BY <1>15, <1>16, <1>17, <1>18, PTL
=============================================================================
