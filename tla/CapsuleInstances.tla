-------------------------- MODULE CapsuleInstances --------------------------
(* The capsules and the aos command, side by side: variables and constants are
   the components' own, under new names where those of two would meet.        *)
EXTENDS Common, Naturals, Sequences

CONSTANTS
    Users, Links, Contexts, UserNames,                        \* UserDirectory
    Capsules, Emits, Inputs, OldIds,                          \* Registry
    ToolOffers, Baked, Fanouts, Cap, PerReply, Retries, TTL, MaxClock,  \* ToolCatalog
    Clients, Tokens, Contributors, Size, MaxContext,          \* HostHooks
    ToolNames, Arguments, MaxRules, Dispatches, Peers, Values, Sources,
    NoValue,                                                  \* ToolHooks
    Chars, Run, AnyOne, MaxPattern, MaxText,                  \* PolicyGlob
    Builds, HookAnswers, Toolers, ToolsOf, MaxReplies, MaxBatch, Original,
                                                \* PromptAssembly
    Modes, Providers, Forms, MaxFrames, MaxElicitations,      \* McpServe
    Callsigns,                                                \* Identity
    Commands, Kinds, Editions, Markers                        \* Launch

VARIABLES
    user, link, index, overlay, issued, job, torn,
    loaded, stored, heard, reply, lost,
    serving, signal, cache, now, task, clean,
    token, process, bus, window, owner, overlapped,
    policy, dispatch,
    pat, txt, patAt, txtAt, star, resume, verdict, turns,
    providing, notice, allowed, schemas, build, absorbed,
    mode, provider, bridge, closed, supports, client, runtime, fromClient,
    toRuntime, fromRuntime, decided,
    spark, onboarded, file, prompt, saved,
    manifest, temp, jobs, open, complete, daemon, markers, lock, lockfile,
    alone, freed

Directory == INSTANCE UserDirectory WITH Names <- UserNames
Models == INSTANCE Registry
Descriptors == INSTANCE ToolCatalog WITH
    Offers <- ToolOffers, loaded <- serving
Hosts == INSTANCE HostHooks WITH Cap <- MaxContext, client <- process
Hooks == INSTANCE ToolHooks WITH Tools <- ToolNames, Inputs <- Arguments
Glob == INSTANCE PolicyGlob WITH Any <- AnyOne, p <- patAt, t <- txtAt
Prompts == INSTANCE PromptAssembly WITH
    Answer <- HookAnswers, Tools <- ToolsOf,
    loaded <- providing, signal <- notice, cache <- schemas, clean <- absorbed
Serve == INSTANCE McpServe
Spark == INSTANCE Identity
Commanded == INSTANCE Launch WITH job <- jobs

directoryVars == <<user, link, index, overlay, issued, job, torn>>
modelsVars == <<loaded, stored, heard, reply, lost>>
descriptorsVars == <<serving, signal, cache, now, task, clean>>
hostsVars == <<token, process, bus, window, owner, overlapped>>
hooksVars == <<policy, dispatch>>
globVars == <<pat, txt, patAt, txtAt, star, resume, verdict, turns>>
promptsVars == <<providing, notice, allowed, schemas, build, absorbed>>
serveVars == <<mode, provider, bridge, closed, supports, client, runtime,
               fromClient, toRuntime, fromRuntime, decided>>
sparkVars == <<spark, onboarded, file, prompt, saved>>
commandedVars == <<manifest, temp, jobs, open, complete, daemon, markers, lock,
                   lockfile, alone, freed>>

-----------------------------------------------------------------------------
\* A component whose turn it is not.
DirectoryOff ==
    /\ user = None /\ link = None /\ index = None /\ overlay = None
    /\ issued = None /\ job = None /\ torn = None
ModelsOff ==
    loaded = None /\ stored = None /\ heard = None /\ reply = None /\ lost = None
DescriptorsOff ==
    /\ serving = None /\ signal = None /\ cache = None /\ now = None
    /\ task = None /\ clean = None
HostsOff ==
    /\ token = None /\ process = None /\ bus = None /\ window = None
    /\ owner = None /\ overlapped = None
HooksOff == policy = None /\ dispatch = None
GlobOff ==
    /\ pat = None /\ txt = None /\ patAt = None /\ txtAt = None
    /\ star = None /\ resume = None /\ verdict = None /\ turns = None
PromptsOff ==
    /\ providing = None /\ notice = None /\ allowed = None
    /\ schemas = None /\ build = None /\ absorbed = None
ServeOff ==
    /\ mode = None /\ provider = None /\ bridge = None /\ closed = None
    /\ supports = None /\ client = None /\ runtime = None /\ fromClient = None
    /\ toRuntime = None /\ fromRuntime = None /\ decided = None
SparkOff ==
    spark = None /\ onboarded = None /\ file = None /\ prompt = None /\ saved = None
CommandedOff ==
    /\ manifest = None /\ temp = None /\ jobs = None /\ open = None
    /\ complete = None /\ daemon = None /\ markers = None /\ lock = None
    /\ lockfile = None /\ alone = None /\ freed = None
=============================================================================
