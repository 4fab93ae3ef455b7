--------------------------- MODULE PromptAssembly ---------------------------
(* capsule-prompt-builder: assembling the prompt of a request.  Invocations
   overlap (lib.rs:797-808): each one asks the plugins, checks what they may
   change, merges, takes the tool list from a KV cache or from a fan-out of its
   own, and publishes.  Every host call is a step.  Meanwhile capsules come and
   go, which empties the cache (`on_capsules_loaded`), and an operator grants
   or revokes prompt injection.                                               *)
EXTENDS Naturals, Sequences, FiniteSets, SequencesExt

CONSTANTS
    Builds,     \* invocations of handle_assemble
    Plugins,    \* capsules that answer the before_build hook
    Answer,     \* [Builds -> [Plugins -> SUBSET SUBSET Parts]]: the fields that
                \* an answer of a plugin may set
    Toolers,    \* capsules that answer a describe request
    Tools,      \* [Toolers -> Seq(names)]
    MaxReplies, \* MAX_HOOK_RESPONSES
    MaxBatch,   \* bound on the answers that one recv returns
    Original    \* the system prompt of the request

\* The fields of a hook response.
Parts == {"override", "prepend", "append", "context"}

VARIABLES
    loaded,     \* tool-providing capsules the kernel has loaded
    signal,     \* capsules_loaded is on its way to the prompt builder
    allowed,    \* plugins with allow_prompt_injection
    cache,      \* KV __tool_schema_cache: who offers the tools that are listed
    build,      \* the invocations
    clean       \* the last change was absorbed, no fan-out in flight (history)

vars == <<loaded, signal, allowed, cache, build, clean>>

Nobody == <<>>
Rest == [pc |-> "idle", got |-> <<>>, kept |-> <<>>,
         ever |-> {}, offers |-> <<>>, from |-> {}, out |-> <<>>]
Tool(c, i) == [name |-> Tools[c][i], from |-> c]

Init ==
    /\ loaded \in SUBSET Toolers
    /\ signal = FALSE
    /\ allowed \in SUBSET Plugins
    /\ cache = Nobody
    /\ build = [b \in Builds |-> Rest]
    /\ clean = TRUE

Step(b, next) == build' = [build EXCEPT ![b] = next]
World == <<loaded, signal, allowed>>

\* assemble: the hook is published after its reply topic is subscribed to.
HandleAssemble(b) ==
    /\ build[b].pc = "idle"
    /\ Step(b, [Rest EXCEPT !.pc = "hooks", !.ever = allowed])
    /\ UNCHANGED <<World, cache, clean>>

\* parse_hook_message: an answer names its source and sets some field.
Answers(b) ==
    UNION {{[from |-> p, parts |-> fields] : fields \in Answer[b][p] \ {{}}} : p \in Plugins}

\* One recv of the window.  A capsule may answer more than once, and whatever a
\* batch holds is taken: only the loop's condition looks at the cap.
PluginsReply(b) ==
    /\ build[b].pc = "hooks" /\ Len(build[b].got) < MaxReplies
    /\ \E batch \in SeqOf(Answers(b), MaxBatch) \ {<<>>} :
          Step(b, [build[b] EXCEPT !.got = @ \o batch])
    /\ UNCHANGED <<World, cache, clean>>

\* filter_by_permission: the fields that stay, checked when the window is shut.
Permitted(answer) ==
    answer.parts \cap IF answer.from \in allowed THEN Parts ELSE {"context"}

\* The window closes, on idleness, the first-response cap or the timeout, with
\* answers unread or not.  The capability of each source is looked up once, all of
\* them at one moment here; a failed lookup denies.
FireBeforePromptBuild(b) ==
    /\ build[b].pc = "hooks"
    /\ \E failed \in SUBSET {build[b].got[i].from : i \in DOMAIN build[b].got} :
          Step(b, [build[b] EXCEPT !.pc = "tools",
             !.kept = [i \in 1..Len(build[b].got) |->
                LET answer == build[b].got[i]
                IN  [from |-> answer.from,
                     parts |-> IF answer.from \in failed THEN answer.parts \cap {"context"}
                               ELSE Permitted(answer)]]])
    /\ UNCHANGED <<World, cache, clean>>

\* merge_hook_responses: prepends, the last override or the original, appends;
\* contexts go in front of the user's message.  Each list names who gave its
\* entries, by the place of the answer.
MergeHookResponses(kept) ==
    LET With(part) == {i \in DOMAIN kept : part \in kept[i].parts}
        Listed(part) == [i \in With(part) |-> kept[i].from]
    IN  [prepended |-> Listed("prepend"), appended |-> Listed("append"),
         base |-> IF With("override") = {} THEN Original
                  ELSE kept[Max(With("override"))].from,
         prefix |-> Listed("context")]

\* collect_tool_schemas: a cached list that is not empty is taken as it is.
ReadCache(b) ==
    /\ build[b].pc = "tools"
    /\ Step(b, [build[b] EXCEPT !.pc = IF cache # Nobody THEN "publish" ELSE "fanout"])
    /\ UNCHANGED <<World, cache, clean>>

DescribeReply(b, c) ==
    /\ build[b].pc = "fanout" /\ c \in loaded \ build[b].from
    /\ Step(b, [build[b] EXCEPT !.from = @ \cup {c},
                !.offers = @ \o [i \in 1..Len(Tools[c]) |-> Tool(c, i)]])
    /\ UNCHANGED <<World, cache, clean>>

\* Duplicate names: the first occurrence stays.
FirstByName(offers) ==
    [n \in {offers[i].name : i \in DOMAIN offers} |->
        offers[Min({i \in DOMAIN offers : offers[i].name = n})].from]

\* The fan-out ends, answers may be missing; the list is stored, whatever is
\* stored now, or the write fails.
StoreTools(b) ==
    /\ build[b].pc = "fanout"
    /\ cache' \in {FirstByName(build[b].offers), cache}
    /\ Step(b, [build[b] EXCEPT !.pc = "publish"])
    /\ UNCHANGED <<World, clean>>

\* The session fetch, the answer and the after_build notice.
Publish(b) ==
    /\ build[b].pc = "publish"
    /\ Step(b, [build[b] EXCEPT !.pc = "done", !.out = MergeHookResponses(build[b].kept)])
    /\ UNCHANGED <<World, cache, clean>>

Fanning == {b \in Builds : build[b].pc = "fanout"}

(* The kernel changes the capsule set and signals it. *)
CapsulesChange ==
    /\ ~signal
    /\ loaded' \in SUBSET Toolers \ {loaded}
    /\ signal' = TRUE
    /\ clean' = FALSE
    /\ UNCHANGED <<allowed, cache, build>>

\* on_capsules_loaded: the cache is dropped; a failed delete is ignored.
OnCapsulesLoaded ==
    /\ signal
    /\ signal' = FALSE
    /\ \/ cache' = Nobody /\ clean' = (Fanning = {})
       \/ UNCHANGED <<cache, clean>>
    /\ UNCHANGED <<loaded, allowed, build>>

SetPermission ==
    /\ allowed' \in SUBSET Plugins \ {allowed}
    /\ build' = [b \in Builds |-> [build[b] EXCEPT
                    !.ever = IF build[b].pc = "hooks" THEN @ \cup allowed' ELSE @]]
    /\ UNCHANGED <<loaded, signal, cache, clean>>

Next ==
    \/ \E b \in Builds : \/ HandleAssemble(b) \/ FireBeforePromptBuild(b)
                         \/ PluginsReply(b)
                         \/ ReadCache(b) \/ StoreTools(b) \/ Publish(b)
                         \/ \E c \in Toolers : DescribeReply(b, c)
    \/ CapsulesChange \/ OnCapsulesLoaded \/ SetPermission

Spec == Init /\ [][Next]_vars

TypeOK ==
    /\ loaded \subseteq Toolers /\ allowed \subseteq Plugins
    /\ Range(cache) \subseteq Toolers
    \* one batch may go past the cap
    /\ \A b \in Builds : /\ ToSet(build[b].got) \subseteq Answers(b)
                         /\ Len(build[b].got) < MaxReplies + MaxBatch

(* A plugin that was never permitted while the hook was out leaves no trace in
   the system prompt, and its user-visible context is still there, however many
   answers it gave; and the original prompt goes only when a permitted plugin
   replaced it.                                                               *)
InjectionIsPermitted ==
    \A b \in Builds : build[b].pc = "done" =>
       LET out == build[b].out
           answers == ToSet(build[b].got)
           Given(part) == {a.from : a \in {a \in answers : part \in a.parts}}
       IN  /\ Range(out.prepended) \cup Range(out.appended)
                 \cup ({out.base} \ {Original}) \subseteq build[b].ever
           /\ Given("context") \subseteq Range(out.prefix)
           /\ Given("override") \cap build[b].ever = {} => out.base = Original

(* Once a change of the capsule set was absorbed while no fan-out was out, the
   cached list names only tools of capsules that are loaded, until the next
   change: no later invocation brings a departed tool back (lib.rs:821-822).
   A fan-out that is out when the cache is dropped does bring one back.       *)
CachedToolsAreLoaded == clean => Range(cache) \subseteq loaded
=============================================================================
