# Verification of the Unicity AOS runtime layer

TLA+ modules, TLC runs and TLAPS proofs for the capsules and crates under
`src/`. `PROJECT.json` maps every definition to the source lines it stands for
and lists the hazards, the runs, the mutants and the theorems. In this text
`react` is `src/capsules/capsule-react/src/lib.rs`, `session` is
`src/capsules/capsule-session/src/lib.rs`, `migration` is
`src/crates/unicity-aos-bootstrap/src/migration.rs` and `broker`, `approval`,
`execute`, `grant_decision`, `cache`, `discovery`, `policy`, `hook_gate` are the
files of that name in `src/crates/aos-mcp-broker/src/`. Other capsules are named
by their directory under `src/capsules/`.

## 1. The system

The product is a set of WASM capsules around a kernel (Astrid) that is not part
of this repository. Capsules share nothing: they talk over the kernel's topic
bus (`ipc::publish_json`, `request_response`) and keep state in a KV store that
is namespaced by capsule and principal (`kv::get/set/cas/delete/list_keys_page`).
A prompt goes frontend -> react -> identity -> react -> prompt builder (which
reads the session capsule and fans out hooks) -> react -> LLM provider -> react
-> router and tools -> react, until the LLM answers without tool calls.

| Component | State it keeps | Operations | What is hard | What makes it correct |
|---|---|---|---|---|
| **react loop** | `react.turn.<session>`, `react.req2sess.*`, `react.call2sess.*`, `react.active_sessions` | user prompt, cancel, clear, identity / prompt / stream / tool responses, watchdog, bus lag, restart | late, lost and reordered events; replaced turns; one failing host call in the middle of a handler | keys and turn agree; every running turn is watched; stale events are inert; one final answer; bounded rounds; no turn hangs |
| **session store** | `session.data.<id>`, versioned | append, read, append-and-read, clear, list, get_meta, update, delete, search | handlers on concurrent Stores, lazy migration inside reads, CAS retries, paged search over a changing key set | linearisable threads; complete search; no false contention |
| **runtime import** | four directories, two receipt files, two locks | `aos migrate runtime`, its recovery | the process dies or a rename fails anywhere, also during recovery | the bundled runtime is never lost; a receipt vouches for its tree; retrying succeeds |
| **prompt builder** | tool schema cache | assemble, cache invalidation, hook fan-out | cache written by a fan-out older than its invalidation; a silent session capsule; permissions that change meanwhile | only permitted plugins touch the prompt; no departed tool is listed again |
| **hook bridge**, **host hooks** (capsule-mcp), `aos hook` | the token of each host session | register, fan-out, collect, merge, relay, retire | deadline against quiescence, answers out of order, a session that ends while an event is out, one side's payload format against the other's | a veto binds in any order; what the operator denies is denied; a session's route has one owner |
| **MCP broker** | trusted ingresses, prompt markers, recorded decisions; descriptor cache | tool.call, ingress / approval / grant respond; list, cache upsert / replace / invalidate; policy | shared approval and result topics, two nested timeouts, answers too late, twice or never; stale cache written back | nothing is trusted, granted or approved but by the user; results reach their call; prompts recur; invalidation is not undone |
| **users** | user, link, overlay and name-index keys | create, rename, key, link, unlink, overlays, delete cascade | several keys per operation, no transaction | links lead to users, names to their owners |
| **registry** | one state blob | discover, reload, select, unset, save | broadcasts do not wait for the save, and the failure of either is discarded | subscribers and store agree; no selection is lost without a cause |
| **chat proxy** (cli) | principal and session of a connection, streamed text per session | connect, prompt, delta, final | text left over from a turn that ended without a final; finals that do not begin with what was streamed; publishers between two polls | each delta shown exactly once; no final swallowed |
| **context engine** | none | compact | one static reply topic; pins, skips and budgets | nothing pinned or recent goes, and no more than the budget asks |
| **LLM providers** | the stream's accumulators | translate provider events, describe | interleaved tool-call fragments, chunks cut anywhere | what counts as finished is whole; the catalog's first entry is the default |
| **identity** | a callsign, `spark.toml` | onboard, export, import, build prompt | the store is reset, the file is edited, cut short or cannot be read | the identity saved last is the one prompts are built for |
| **aos mcp serve** | the open elicitations | forward, answer, pass up | either side closes at any time | consent is a choice a user made |
| **aos** command | manifest, markers and lock of the runtime | run, init, stop, status, update | several commands at once, killed anywhere | the runtime gets its own manifest; stopped means stopped |
| router, fs, shell, http, mcp tools, memory, skills, agents, system, forge, meta-harness | none between requests | one request, one answer | - | - |
| scripts, installer | files | release | - | - |

## 2. Modules

| Module | What it is |
|---|---|
| `ReactLoop` | capsule-react: one action per interceptor (one per outcome where that reads better) |
| `MCReactLoop` | its instance for the safety runs and findings |
| `ReactLoopProofs` | its types, the watched set, what a prompt costs and how often it is answered, where streams and tool results go, and how long the correlation keys live |
| `ThreadStore` | what the session capsule promises: a store of threads with atomic operations |
| `SessionStore` | what it does: one step per KV call |
| `MCSessionStore` | its instances for TLC |
| `SessionStoreProofs` | its theorems: types, retries, search, and that it implements `ThreadStore` |
| `Migration` | the import transaction: one step per rename, removal or copy |
| `MigrationProofs` | its theorems |
| `McpBroker` | the consent bridge of aos-mcp-broker, with the kernel, the tools and the shim around it |
| `MCMcpBroker` | its instances for TLC |
| `MCProgress` | what must happen in the end: `ReactLoop` on a bus that delivers and on one that may lose anything, `McpBroker`, and `Migration`, in one run |
| `McpBrokerProofs` | its types and every safety property its runs check |
| `ToolCatalog` | the broker's descriptor cache and what writes it |
| `ToolPolicy`, `PolicyGlob` | the broker's policy rules, and the wildcard matcher under them |
| `ToolHooks` | the hook bridge's lifecycle dispatch, with the policy gate as one responder (extends `ToolPolicy`) |
| `MCToolHooks` | its instance for a finding |
| `HostHooks` | `aos hook`, capsule-mcp's host hooks and the bridge's oracle dispatch, end to end |
| `PromptAssembly` | the prompt builder's fan-out, permission filter, merge and tool cache |
| `Compaction` | react's compaction call, the context engine, and the hooks it asks |
| `ProviderStream` | a streamed reply from the upstream API through a provider to react |
| `ProviderCatalog` | the models a provider offers |
| `Registry`, `ModelSelection` | the provider registry, and its pure core |
| `ChatProxy` | capsule-cli's loop and the clients' screens |
| `UserDirectory` | capsule-users: one step per KV write |
| `Identity` | capsule-identity |
| `McpServe` | the bridge of `aos mcp serve` |
| `Launch` | the processes of the `aos` command around one home |
| `Picking` | the entries of a list at given positions, as several of these filter lists |
| `Common`, `CapsuleInstances`, `ReplyInstances` | an instance of each of the modules since `ToolCatalog`, with variables and constants of its own |
| `Components` | the composition of those instances: a behaviour is one of one component |
| `MCCapsules` | its instance for TLC |
| `Positions` | lemmas on sequences, and on functions defined along them |
| `CapsuleProofs` | theorems of `McpServe`, `Identity`, `HostHooks`, `Registry`, `ToolHooks`, `PromptAssembly`, `ToolCatalog`, `PolicyGlob`, `UserDirectory` and `Launch`, a section each |
| `ReplyProofs` | theorems of `ProviderStream`, `Compaction`, `ChatProxy` and `ProviderCatalog` |
| `ComponentProofs` | theorems of `Components`: every safety property that the run `capsules` checks |

A definition that is commented as a *seeded bug* is not part of a specification;
it is a plausible mistake in the code that some property must detect.

### ReactLoop

State. `turn[s]` is the stored `TurnState` (phase, request id, whether text was
streamed, announced and dispatched tool calls, iteration). `req2sess`,
`call2sess` and `active` are the other KV keys. `bus` holds the messages in
flight between the capsules: the identity request and its response are one
message (`spark`), so are a tool call and its result (`tool`), and an `llm`
message is an open stream that may deliver any number of events before its last
one. `hist[s]` counts the user messages the session capsule stores; `own`,
`finals` and `rounds` observe the turn.

Atomicity. `react:50-54` says interceptors of the capsule are serialised by the
plugin mutex, so a handler, with the blocking round trips it makes, is one step.
`react:64-70` speaks of pooled Store instances instead; that reading, in which
the read and the write of one interceptor are two steps, is planned (section 6).

Messages. The bus is a set from which any message may be taken: any order. A
message that is never taken is a lost one. Duplicates are not modelled (the bus
delivers at most once), but the redrive of `redrive_if_unready` is: the copy
carries its retry count.

Failures. `Fault(kind)` is a failing host call, at most `MaxFaults` in a
behaviour: a session round trip that never happened (`rpc`) or whose reply was
lost (`rpcLate`), a publish, or a KV save. Each handler has the outcome its
error return gives it; where the code ignores an error, so does the model.

Time. A timeout may strike whenever a phase is not Idle. This over-approximates
the clock and needs no bound on it.

Clears. `HandleSessionClear` deletes the turn and unregisters the session
(`react:574-581`), and leaves the turn's correlation keys in place, although
`cleanup_inflight_mappings` says it "must be called before reset_turn() when
interrupting an active turn, otherwise stale req2sess and call2sess entries
accumulate" (`react:1616-1617`). With `MidTurnClear = TRUE` the key property
`MappingsAreLive` is therefore false: a leaked key stays until the restart. The
safety run sets `MidTurnClear = FALSE`, which still lets a session be cleared
between its turns, and checks the property for everything else;
`MCProgress` sets it to TRUE.

Call ids. The provider chooses tool call ids, and openai-compat forwards the
upstream's as they are. `FreshCallIds = TRUE` assumes that no id is reused while it
is still in a turn or in flight; every run and the theorems on tool results and
late events depend on it. The code has no check in its place: `react:1106-1114`
compares the turn's request id with the one stored in the turn's own *dispatched*
call ("Verify turn_request_id matches to reject stale results from a previous
turn"), which cannot differ, and a result names no request. With a reused id the
result of an earlier turn is therefore recorded for a later one.

### ThreadStore and SessionStore

`SessionStore` runs `Workers` handlers. Each step is one KV call and the
computation up to the next: `Load` reads, `MigrateStored` is the best-effort CAS
inside `SessionData::load`, `Write` is the CAS of `modify_atomic` and
`modify_existing` with their retry, `Check` and `Purge` are the two calls of
`do_delete` (and of `do_get_meta`), `HandleClear` is a create-if-absent. A failed
call may have taken effect or not. The search (`SearchBegins` to `SearchHeal`)
is a client that calls `do_search` with the returned cursor until there is none;
`page` holds the keys of the current page that are still to be scanned, least first.
`NoneAssumption` says that an absent key (`NoThread`) is no session.

`HandlersImplementThreadStore` is the refinement: `thread` is what the stored bytes
mean to `load`, and `answer` is what a handler is about to reply. A write takes
effect at its CAS, a read at its `get`. So a message list is never overwritten
by another handler's, a patch never lost, an update never creates a thread.

Two behaviours of the code are part of the abstract store, because it would not
be implemented otherwise:

* bytes of a newer schema, or bytes that do not parse, count as an empty thread,
  and an append then replaces them (`session:518-523`): the history is lost,
  while the module's header says "History is never silently truncated";
* `do_get_meta` checks that a thread exists and loads it in a second call. If it
  is deleted in between, the answer is the summary of an empty thread instead of
  `None`.

### Migration

State: the source's version, the four directories (nothing, the bundled
runtime, a partial tree, or the import of source version v), the staged and the
final receipt, and where the process is. Every step may finish, return an error
after or before its effect, or be the one in which the process dies; recovery
runs the same steps and can be interrupted in the same way. Between two imports
the standalone runtime may run and change. One import runs at a time: both locks
are held throughout.

What the files contain is abstracted. In particular `validate_completed_target`
is modelled as it is: it looks for the executables and does not hash the files
of a completed import again, although `src/docs/runtime-migration.md:71-72` says
that a receipt whose files no longer match their recorded hashes is rejected.
No step of the model changes a file after the import, so no property shows the
difference.

### McpBroker

What it is about. A client's `tool.call` is gated twice: by the broker (is the
forwarding ingress trusted?) and by the kernel (may the principal use the
capsule?). The tool may then ask for approvals while it runs. Each gate answers
the call with a prompt; the user's answer comes back as a message of its own.

State. `trust`, `asked`, `marker` and `record` are the broker's KV keys
(`mcp.ingress.trust.*`, `mcp.ingress.pending.*`, `mcp.grant.pending.*`,
`mcp.grant.decision.*`); a marker's stamp is abstracted to fresh or stale, which
is what `marker_is_fresh_at` decides. `handler` is the running handler. `inbox`
and `decisions` are the messages to the broker and from it to the kernel,
`awaiting` and `granted` the kernel's grant awaiters and grants, `run` the tools,
`call`, `reply` and `prompts` the client's side. The rest is history.

Steps. The kernel runs one guest call of a capsule at a time (`approval:77-81`),
so handlers do not interleave with each other. A handler that drains a
subscription is nevertheless several steps (subscribe, publish, and what ends
the drain), because the kernel, the tools and the user move meanwhile.
`dispatch_with_approval` and `resolve_with_decision` share the first two through
`Script`; they differ in whether a failed subscription ends the handler. A
request id is the run that raised it and a number, 0 for the access gate: what
the host mints is unique, and a prompt names the call it was *shown* for beside
the request it is *about*.

Failures. Any one of twelve host calls may fail (`FaultKinds`): each KV read,
write and delete, a subscription, a publish. Answers may be lost (`Lose`), late
(the awaiter or the parked tool gives up first), or unsolicited (`StrayAccept`).

Left out: payloads that do not parse and ids that cannot form a topic (dropped
or refused before any state changes), a grant answer without `capsule_id` (its
marker is left to age, as `Lose` shows), approvals raised by tools the broker
never called (`approval:96-102` describes them), and the PreToolUse gate, which
only reads. A policy that denies is a reply without dispatch.

### ToolCatalog

`cache` is the KV value (`cache:40-60`), a map by name as the `BTreeMap` is, and
`task` what each handler invocation is doing: a describe fan-out that drains answers
and replaces the cache, the collector that merges one answer into it, the loader
that handles `capsules_loaded`. Each KV read and each CAS is a step; CAS compares
values, as the host compares bytes, so a value that comes back to what it was
passes. A fan-out that was collecting while the cache was emptied writes the old set
back: `clean` records that a change was absorbed with no writer in flight, and the
property is about those. The invalidation's comment (`cache:196-201`) speaks only of
fan-outs that begin after it.

### ToolPolicy, PolicyGlob, ToolHooks

A rule stands for the tools and inputs its patterns cover (`ToolPolicy`); what a
pattern covers is `PolicyGlob`, the two-pointer loop of `glob_match`, one turn per
step, compared with `Means`, what a pattern means, for every pattern and text in the
bound. The loop compares characters before it looks for a `*` in the pattern, so a
`*` in the *text* is consumed as a letter (pattern `*` does not match `*x`); the
property is about texts without one. `Means` cuts the text into one piece per
character of the pattern, and asks of each piece whether it is what the character
stands for.
`ToolHooks` is the dispatch of a lifecycle event to any responders, the policy gate
among them: answers in any order, a window that falls quiet or is cut by the
deadline, a `recv` that fails. The bridge sends the event's payload as JSON text
(`capsule-hook-bridge/src/lib.rs:347-352`) and the gate reads it as an object
(`hook_gate:101-106`), so behind the bridge it decides on a call without a name and
without input; called as a tool it decides on the call itself. `denied` remembers
what the operator's rules said of the call when the gate was asked: `VetoesBind`
says that what the gate *answers* is kept, `OperatorDenyBinds` that what the operator
*denied* is skipped, as `hook_gate:12-24` promises. The second is a finding. (The
gate's own test, `hook_gate:239-265`, hands it an object.)

### HostHooks

An `aos hook` process, capsule-mcp's authentication and relay, the bridge's
`handle_oracle_hook` and the contributing capsules. Messages are taken in any
order; every handler may fail and lose its message; a process may give up. The
route id, a hash of session and token, is that pair. `relay_response` is three
steps, since its read of the token, its publish and its delete are three calls:
`RelayResponse`, `PassOn`, `Retire`. `owner` remembers the tokens admitted to a session
and not retired since. The delete takes whatever is stored by then: when two answers
that end one session are relayed at once, the slower one takes a registration made
after the faster. `overlapped` records such sessions, and `RouteHasOneOwner` excepts
them. `total` is the running byte count of `push_context`, kept beside the contexts;
`Bytes` is the length of their join, which the relay checks.

### PromptAssembly

One step per host call of `assemble`: the hook fan-out, the merge, the tool cache,
the describe fan-out, the publish. The hook window takes whatever a `recv` returns: a
capsule may answer several times, and `MAX_HOOK_RESPONSES` is looked at between two
batches only, so one batch may pass it. What a prompt
is made of is who gave each part of it, and the cached list is who offers each tool
that is listed, first come by name.
Permissions and the capsule set change meanwhile. `ever` remembers the plugins
that were permitted at some moment while the hook was out. The capabilities are
looked up once for each source that answered; the model takes these lookups at one
moment, and any of them may fail. The session fetch is
not here but in `ReactLoop` (`PromptBuilderAssemble`).

### Compaction

React's `compact_messages` (subscribe, publish, wait, give up), the engine's
`compact` with its before_compaction hook, and `summarize_and_truncate` over
histories of a few messages, compared with a declarative reading (`Fits`): the loop
removes the i-th message if what is left of the history before it (`LeftAt`) is
still over the target. The
reply topic is static and carries no id (`react:2002-2006`): once a call was
given up (`orphaned`), its reply answers whoever asks next. The property excludes
that case, since the code does not prevent it.

### ProviderStream, ProviderCatalog

`ProviderStream` follows one reply: what the upstream writes, the lines and
chunks it is read in, what the provider publishes, and what react accumulates.
Chunks end anywhere; a chunk that ends inside a character garbles it
(`from_utf8_lossy` per chunk), which `mangled` records. `Assemble` is react's
handler applied to one event after the other. `ProviderCatalog` is the
model list a provider offers. An id is a sequence of characters with or without white
space in front of it and behind: `lookup` compares prefixes of the string as it is,
so a leading blank that was not trimmed misses every row, and a trailing one does not.

### Registry, ModelSelection

`ModelSelection` holds the pure operators of `selection.rs`; `Registry` is the
receive loop, one message per step: a discovery, a reload, set, unset, queries,
load with the adoption of a selection from before canonical ids. `Commit` is a save
and the broadcast that goes with it. The code discards the failure of either
(`capsule-registry/src/lib.rs:137-144`, `289-307`), so each may fail alone: `heard` is
what the last broadcast that arrived named, and `lost` that the last one, or its
save, failed. `SubscribersFollow` is about all other states; the next broadcast that
goes through with its save ends what a failure left apart.

### ChatProxy

The loop's polls of sockets and of its two subscriptions, `reconcile_stream_payload`,
and what each client's screen shows. The turns are react's, as the bus shows them. A
turn streams numbered chunks over several rounds, since its text is cleared between
tool calls (`ToolRound`); it ends with its last round as final text (`FinalResponse`),
with an error text (`FailureResponse`, at any moment), or without a final
(`TurnAborted`: a cancel, a replacement, a clear, an empty last round). The text of a
final begins with what was streamed only in a turn of one round that succeeds; in all
others the proxy sends an empty body.

`UndisturbedRepliesRenderOnce` is about what was streamed: shown once, whatever the
final is; and a final behind no streamed text is shown whole. It excepts disturbed
sessions, which `dirty` records: a chunk published between the two polls or before the
final of the turn before it was read, a dropped chunk or final, a turn that ended
without a final response, two principals on one session id, a full table.
`FinalsAreShown`, that the final's text is on the screen in the end, is what the
comment at `capsule-cli/src/lib.rs:289-291` supposes, and a finding. `Finalised` is
what one poll of the responses does with all of them, in order. The comment at
`capsule-cli/src/lib.rs:241-243` relies on the order of the polls alone; the first
property says when that is enough.

### UserDirectory

One job at a time, since the host serialises the interceptors of a capsule; each
KV write is a step, and any call may fail and leave the job half done. `torn`
records a `delete_user` that failed between its first two cascades: a retry looks
for links again, finds none, and leaves their overlays behind.

### Identity, McpServe, Launch

`Identity` keeps the capsule's state and `spark.toml` side by side; the store may
be reset and the file edited between calls. A failing `fs::write` may leave the file
as it was, empty, cut short or complete (`Torn`). A file that cannot be read counts as
absent (`.ok()`, `capsule-identity/src/lib.rs:153-155`): after a reset such a prompt
asks the agent for a name although one was saved, which the property allows for that
prompt (`unread`) and no other. `McpServe` has the bridge's loop, its
four pipes and a modal dialog. `Launch` has the processes of the `aos` command
around one home, each of which may be killed between any two file operations;
the runtime is external and appears as its markers and its lock. `fs::write` is
two steps (truncate, fill), and two writers may leave a mixture. The instance has one
marker file, so the loop over several is not exercised.

### Components and MCProgress

The instances in these modules share no state, so they need not be interleaved.
Which one a behaviour is of is settled in its first state. In `Components` that is
`which`, and the variables of all other components stay `None` throughout (`XOff`
for component X); in `MCProgress` those of the instances that are not chosen stay as
they are first.
The `aos` command has two sorts of behaviour, by what is asked of it (`StartAsks`,
`StopAsks`, which are bounds, as is `HostAsks`, the hooks each host process may fire). Each property of `Components` is the conjunction of
the properties of the components it names; the module of the component defines and
explains them.

## 3. Runs

| Run | Bounds | What it shows |
|---|---|---|
| `react_safety` | 2 sessions, 3 request ids, 2 call ids, 2 prompts per session, 2 tools per stream, 2 iterations, no redrives, 1 failing publish or round trip | the turn, the correlation keys and the watched set agree; results and stream events reach only the turn they belong to; the iteration cap; one final answer per prompt |
| `react_stale_answer` | 1 session, 2 prompts | *finding*: the response assembled for a replaced prompt is taken for the current one, and the LLM is asked without the user's message |
| `react_lag_unsaved` | 1 session, 1 failing save | *finding*: the bus-lag handler unregisters a session whose reset it fails to save, so the backstop its comment relies on does not see it |
| `session_store` | handlers: 2 at once, 3 operations, 2 sessions of any stored kind, 2 CAS attempts, 1 failing call; search: 3 sessions, pages of 2, budget 2, limit 1, operations and faults at most 2 together | refinement of `ThreadStore`; a handler that retries was really beaten; a search followed to its end finds each session that matched all along, once |
| `progress` | react on a reliable bus: 1 session, 2 prompts, 2 tools, 2 redrives, no faults; on a lossy one: 2 sessions, 1 prompt each, 1 fault; clears in mid-turn in both; broker: 2 calls, 1 tool, 1 approval, no failures; import: 2 source versions, 2 interruptions | if nothing is lost, turns end without any timeout and orphaned responses drain; if anything may be lost, the watchdog alone ends every turn; every broker call is answered, a late yes leads to a grant, a refused capsule is asked about again; the four safety properties of the import, and the progress of an operator who retries |
| `migration_manual` | 3 interruptions | *finding*: a rollback interrupted after its first rename leaves `runtime.failed-migration` behind, which makes every later rollback refuse to run |
| `broker_consent` | 2 calls, 1 ingress, 2 tools in 2 capsules (one with a recorded deny), 2 approvals per tool run, 1 failing host call | trust, grants and approvals are the user's; a result reaches only its call, and is not missed; a marker waits for an answer |
| `broker_crosstalk` | the same | *finding*: the approval of a call whose window closed is shown as the next call's |
| `capsules` | see below | the properties of section 1's other components |
| `openai_arguments` | 2 tool calls of up to 2 pieces | *finding*: argument fragments are published under the item id, the call was started under the call id, and react joins them by id |
| `operator_deny` | 1 tool, 1 responder beside the gate, a rule that denies the tool | *finding*: the gate does not find the tool's name in what the bridge sends, and does not deny it |
| `failure_after_stream` | 1 connection, 1 turn of up to 2 chunks | *finding*: the final text of a turn that fails after it has streamed is swallowed |

The instances of `capsules`, and why they are large enough:

* users: 2 users, 2 links, 1 context, 1 indexed name - two users that want one
  name, a delete that sweeps two links, and a link that is taken over;
* registry: 2 capsules that serve a model of one name, one entry without a route,
  ids of one to three segments, an old selection - every outcome of a lookup;
* tool cache: 2 capsules with a tool in common, one with an invalid descriptor and
  one past the reply limit, 1 fan-out beside the collector and the loader, cap 1,
  2 CAS attempts - a CAS that loses, and the cap reached by a replace and by a merge;
* hooks: 3 processes with two tokens on one session, one that fires any event, one
  that ends the session and one that ends or opens it - two ends that overlap and a
  registration between them; 2 contexts that do not fit together; 2 responders beside the gate and three policies;
* glob: every pattern and text of up to 3 characters of 2 letters, `*` and `?`;
* prompt assembly: 2 builds at once, one that nobody answers; 2 plugins with
  overlapping parts, cap 1 and batches of 2 - a batch that passes the cap, and a
  plugin that answers twice;
* chat: 1 connection, 2 principals, 2 turns of 2 chunks in one or two rounds, table
  of 1;
* compaction: 2 sessions, a history with a repeated id and one without ids,
  2 plugins, 2 calls - a second call after one that was given up;
* streams: 2 interleaved tool calls of 2 pieces, in either dialect;
* catalogs: lists of up to 3 ids, a row that another begins with, a snapshot that
  begins with it, an unknown model, white space on either side;
* serve: every mode, 2 elicitations, 2 frames; identity: 2 callsigns;
* aos: 2 commands of two releases at once (`Starts`), and of one release with
  stop, status and update (`Stops`).

The bounds are small because the mistakes they look for are: two sessions are
enough for one to disturb another; a third request id lets an old stream live
beside two current ones; a second prompt replaces a first; a second tool call
makes "all done" differ from "one done"; two iterations reach the cap from
inside a tool round. Two handlers are enough for a lost update, and a second CAS
attempt to exhaust the limit. Three sessions with pages of two, a budget of two
and a limit of one make a search stop for each of its reasons, on both sides of a
page boundary. Two interruptions of an import reach "interrupted recovery of an
interrupted import". Two calls, reused, are enough for the result or the approval
of a finished call to meet the drain of another one, for the same tool or for a
different one. The redrive budget is 20 in the code; what matters is that it is
finite, and 2 shows a bounce that succeeds, one that fails and a drained one.

`CHECK_DEADLOCK FALSE`: once the prompts or operations of the bound are used up
the system may really be at rest. The broker is at rest while the
client is. `Migration` is never at rest and is checked for deadlock: in `MCProgress`
the others may always rest (`Rest`), and only the import must always have a step.

`react_safety` injects no failing save. With one, `NonIdleIsWatched` is false:
`set_phase(Idle)` unregisters the session before the save, which is what
`react_lag_unsaved` shows in the handler that claims otherwise.

Symmetry is used in the safety runs only (sessions, requests and calls; workers
and batches; broker calls and ingresses are interchangeable and no property
names one).

Two concurrent `do_delete` of one thread both report a deletion and publish a
`deleted` event, since the check and the idempotent delete are two calls;
`session:721-725` promises one event. The abstract store allows it.

## 4. Fairness

* `MCProgress`, reliable bus (`Answers`): weak fairness of each response handler,
  of the prompt builder and of the last event of a stream. This is a bus that
  loses nothing and capsules that answer; nothing is assumed of timeouts,
  frontends or the watchdog.
* `MCProgress`, lossy bus (`Ticks`): the kernel ticks the watchdog for ever, and a
  phase that does not change is over its limit at some tick; nothing is assumed of
  the bus. The fairness is per session, since a tick looks at every watched
  session.
* `MCProgress`, import (`Retries`): the operator runs the import again until it is done. Faults are
  bounded, so some run is not interrupted. With two faults it succeeds; with
  three it may never, which `migration_manual` shows in one state.
* `Fairness` of the broker: a handler runs to its end (its receives are bounded
  and its windows finite); the kernel admits or refuses every request it routes
  (the request may also be lost), serves decisions of the access gate, and drops
  a grant awaiter after 60 s; markers age; a queued `tool.call` is handled
  eventually although other handlers take turns (strong fairness of
  `HandleCall`, since handlers queue for the store mutex). Tools, shim and user
  owe nothing. Two guards stand for clock facts: `CloseWindow` waits for the gate's
  immediate answer, and `ExpireGrant` strikes neither in the drain that
  raised the awaiter (50 s against 60 s) nor between a decision and its delivery.

## 5. Proofs

`ReactLoopProofs` proves, for any sets and bounds:

* `TypeCorrect`: `Spec => []TypeOK`. `TypeOK` alone is not inductive, because an
  `Llm` or `Tool` message is well typed only if the turn that sends it has a
  request; `RunningHasRequest` (a turn that is not Idle has one) is the
  strengthening. One lemma per interceptor.
* `RunningIsWatched`: as long as no save fails (`"save" \notin FaultKinds`),
  every turn that is not Idle is in the watched set. Inductive on its own, given
  that a save that cannot fail happens.

The two bounds on a prompt:

* `RoundsAreBounded`: `Spec => []IterationCap`, with any faults. The number of
  requests is bounded through the iteration the turn stores (`Budget`: a turn
  that streams or awaits tools has asked at most `iter + 1` times, and
  `iter + 1` is within the cap); the cap alone says nothing about the next round.
* `AnsweredOnce`: `Spec => []AtMostOneFinal` as long as no save fails. The
  strengthening (`Answers`) is that a turn that still runs was not answered. With
  a save that fails after the final response the property is false, and the
  runs check it without that fault.

Where events go, whatever the order of the bus:

* `StreamsAreRoutable`: `Spec => []OpenStreamRoutable` as long as no save fails.
  It needs `DistinctRequests` (no two turns wait for one request, so deleting one
  turn's key leaves the others') and `Streams` (one stream per request, none for
  a turn that has not asked yet).

The two directions of the key protocol and its use:

* `ResultsFindTheirTurn`: `Spec => []DispatchedCallsRoutable` as long as no save
  fails and call ids are not reused. `CallsInFlight` says that no two turns hold one
  call id, and that a tool in flight with a dispatched id belongs to that turn's
  request; it is where that assumption is needed (section 2). So no handler of
  another session deletes or overwrites the key of a call that is still out
  (`OnlyCallsOf`).
* `KeysEndWithTheirTurn`: `Spec => []MappingsAreLive` as long as no save fails and
  no session is cleared in mid turn (`~MidTurnClear`, see section 2). Inductive
  given that a running turn has a request: each step either lets a turn wait for
  what it waited for, or clears every key that led to it (`Waits`, `Cleared`).
* `LateEventsChangeNothing`: `Spec => LateEventsAreInert`, an action property,
  from `MappingsAreLive` (a late event's key leads nowhere) and `CallsInFlight` (a
  tool result whose key leads to a turn belongs to that turn's request).

`SessionStoreProofs` proves everything the run `session_store` checks, for any
sessions, handlers, batches, patches and limits and whichever KV calls fail:

* `TypeCorrect`: `TInv` adds to `TypeOK` what a handler holds at each step (`JobOK`:
  what it is about to write is what it read, made usable) and what the client that
  searches knows (`SearchOK`).
* `HandlersAreAtomic`: `Spec => HandlersImplementThreadStore`, the refinement. Under
  the mapping of section 2 each step is one operation of `ThreadStore` or none: a
  CAS that succeeds finds what was read, so the write is the operation applied to
  the thread as it is then; a CAS that fails, a migration and a step of the search
  leave every thread as it was. One lemma per action, from `TInv`.
* `GivingUpIsContention`: `Spec => []RetriesMeanContention`. `Beaten` adds that what
  a handler is about to compare with is what is stored, or another write has landed
  already that its `tries` do not count yet.
* `SearchFindsAll`: `Spec => []SearchIsComplete`. `SInv` says that each session which
  has matched all along is a hit or still ahead (`Covers`), and that what is behind
  comes before what is ahead (`HitsOK`), at every reason a call stops for.

`MigrationProofs` proves, for any number of interruptions and source versions,
that `IInv` is inductive and with it `TypeCorrect`, `BundleNeverLost`,
`ReceiptsVouch` and `CommitsAreCurrent`. `IInv` adds two parts to `TypeOK`.
`Transaction` is what holds between any two steps, also when the process is
dead: the bundled runtime is in its place, or it is the backup (with nothing or an
import without a receipt in its place), or the import of the receipt is in its
place. `Progress` says at each program counter which of these it is and what the
staging directory holds; whether a rollback may discard the target depends on
it.

`McpBrokerProofs` proves every safety property of the consent bridge, for any
sets of calls, sources, tools and capsules, any bound on approvals and any
failing host calls. It assumes `ConstantsAssumption`: the bounds are numbers,
each tool has a capsule, and there is a tool and a source to start from.

* `TypeCorrect`: `TypeOK` is inductive. `LeastNumber` (a set of numbers has a
  least one, from the well-foundedness of `<`) gives the signal a drain acts on.
* `TrustIsAskedFor`: `Prompted` adds that every outstanding prompt marker was
  raised for a prompt; an accept needs a marker, so trust follows it.
* `ResultsReachTheirCall`: `ResultsMatch` is inductive.
* `MarkerIsAnswered`: `MarkerAwaitsAnswer` is inductive. A marker becomes fresh
  with its prompt; the prompt becomes its answer or is lost; and the answer
  clears the marker or fails to.
* `ResultsAreHeard`: `Listening` says that a handler past its subscription, unless
  that failed, listens on its own call's tool. It needs that the `req_id` of a
  running call is not reused (`Used`).
* `GrantsComeFromTheUser`: `GrantInv`. An approval's request id is never the
  gate's (`GateIds`), a grant prompt names the capsule of the call that was
  refused (`GrantsNameTheirCall`), and each yes on its way or on record is for a
  capsule the user wanted (`YesIsWanted`).
* `ApprovalsAreTheUsers`: an action property. `ApprovalInv` says that every request
  on its way has been raised already, so no yes can wait for one still to come,
  and that while the tool is blocked on a request, a yes to it is the user's.
  Nothing requires an answer to be unique: a second decision finds the tool
  unblocked, or blocked on a later request.

The sections on `UserDirectory` and `Launch` of `CapsuleProofs` have one longer
argument for each of the two. For any users, links, contexts and names, and whichever
KV call of whichever job fails, the directory has both properties of
`DirectoryIsSound`. They assume `NoneIsNothing`: an absent value is no user, no stored
user and no stored link.

* `NoLookupDangles`: `Spec => []ReferencesAreLive`. That every index entry and
  every link leads to a stored user (`EntriesLive`, `LinksLive`) is not inductive,
  since a job writes a reference several steps after it has looked at the user, and
  removes the user several steps after it has removed the references. `Settled`
  says for each step what the job's earlier writes have established: the user is
  there before the reference, and no reference is left before the user goes. It
  holds because no second job runs between them (section 2).
* `OverlaysAreSwept`: `Spec => []OverlaysHaveLinks`. `Members` says that outside a
  half-done delete an overlay has its link, or the running delete still has the
  link in its list.

`Launch` has the two properties of `LaunchIsSound`, for any number of processes,
releases and markers, each process killed between any two steps. Both carry the
type of the processes' jobs (`JobsOK`) and rest on `OneMoves`: the step of one
process changes no other's job.

* `StoppedIsReleased`: `Spec => []StoppedMeansReleased`, assuming `DaemonIsNobody`
  (the runtime is none of the commands). `Released` adds that while the runtime
  holds its lock the lock file exists, and that a process which is about to unlock
  or to report has seen the daemon without its lock since it asked.
* `HandedOverIsOurs`: `Spec => []HandedManifestIsOurs`. `Alone` follows a process that has
  saved with no other beside it, and says how far the manifest and its temporary
  file are its own (`Saved`). With a second writer nothing of the kind holds.

The other sections of `CapsuleProofs`. What a theorem assumes of the constants is in
its statement:

* `ConsentIsAChoice` (`McpServe`): `Spec => []` of both properties, if forms are lists
  of button labels. `Accounted` splits the ids into five disjoint places (`OnePlace`),
  and each move of a frame takes its id from one to the next; `Consented` says of
  every frame on its way what the property says of those that arrived.
* `SavedIdentityStays` (`Identity`): `SavedIsKept` adds that the file keeps what was
  saved, and that a state that counts as onboarded holds it; one that was reset is
  read from the file again before the next prompt, unless that read fails.
* `RoutesHaveOneOwner` (`HostHooks`), if no token is the absent value: `HostTypes` says
  that every message and every open window is of a process that has fired its hook,
  and `RouteOwned` that the relay that is about to retire a session without an overlap
  is the only one and has the session's token.
* `ContextsFit` (`HostHooks`), for contexts of any sizes: the running total is the
  length of the join (`WindowCounted`). That the recursive count is a sum of naturals
  is proved along the positions of the list (`Counts`), by the least position where
  it would fail.
* `SubscribersAreCurrent` and `SelectionsMoveForCause` (`Registry`), with no
  assumption: each operation leaves a state that is `Justified` by the one before it
  and announces it whenever the selection moved, so only a lost broadcast or a lost
  save can part the two; one lemma per message.
* `VetoesAlwaysBind` (`ToolHooks`), if the operator's rules are lists of rules:
  `Dispatched` says that a dispatch that still collects has kept every veto, received
  or queued, and the gate tool's answer agrees with `denied`. Which value the merge
  takes does not matter to a veto.
* `PromptsArePermitted` and `CacheFollowsTheCapsules` (`PromptAssembly`), if each
  capsule's tools are a list of names: `Assembling` says what each step of a build has
  established (what is kept of an answer was permitted at some moment), and
  `OffersAreLoaded` that a fan-out begun since the last change holds nothing departed.
* `CatalogFollowsTheCapsules` (`ToolCatalog`), for finitely many capsules with any
  lists of tools, any cap, any number of CAS attempts and of fan-outs that are not
  the collector or the loader (`Catalogued`): `Owned` says that after a change that
  was absorbed cleanly everything any writer holds is of loaded capsules. Finiteness
  gives the last descriptor of a name, without which `CHOOSE` picks nothing.
* `GlobsMeanWhatTheySay` (`PolicyGlob`), for any letters and lengths: both halves, the
  verdict and the bound on the turns. `Suffix` is what it means for the rest of a
  pattern to match the rest of a text; `Known` says that after a `*` the whole matches
  if and only if the rest of the pattern matches from `resume` or later, the heart of
  the two-pointer algorithm, and the turns are bounded by `resume` and the pointer.

`ReplyProofs` has the components a prompt's history and its reply go through:

* `FinishedRepliesHold` (`ProviderStream`), for both dialects, any number of calls,
  pieces and texts, any chunks. The strengthening speaks of lines still on the wire:
  there is a `Story`, a sequence of what had been written when each line was, that
  begins with what react holds and ends with what is written. Reading a line takes the
  first of the story away, writing one extends it.
* `CompactionHolds` (`Compaction`), for any histories whose messages have a length, any
  budgets, pins and numbers of recent messages. An estimate is a sum over the
  positions left (`EstimateIsASum`) and falls as they go, so the removed messages are
  the first removable ones;
  `CompactionFits` says that as long as no call was given up the open one is in
  exactly one place.
* `RepliesRenderOnce` (`ChatProxy`), if the default principal is one and the absent
  value is neither a session nor a principal. For a session that was not disturbed
  (`Quiet`) there are one principal and one turn (`InStep`) such that the queued deltas
  continue what the accumulator has, the accumulator is what is on the screens, and
  the final response, if it is queued, closes it (`Streamed`), whatever its text: one
  that continues the accumulator adds nothing, and any other is cut to nothing.
* `OffersHold` (`ProviderCatalog`), for any table of distinct rows, any upstream list and
  any setting (`Tabled`). A step only publishes what follows from those, so the invariant
  is short (`Described`); the work is in the lists. `Picked` returns the ids at a set of
  positions in their order (`PickedInOrder`), so extraction returns the first of each usable
  id, also when it is done twice with a trim between (`TrimmedFirsts`); moving one to the
  front leaves the order of the others (`HoistLeads`, `NewcomerLeads`); and of the rows an
  id begins with, character by character, the longest has all others as beginnings
  (`LookupCovers`). `Sorted` is
  what live lists, table and setting have in common, one lemma each.

Each of the fourteen components also has a theorem that it keeps its types. Where the
types include a limit that the code sets itself, this takes an invariant of its own:

* `CacheIsTyped` (`ToolCatalog`): the cache never holds more tools than its cap, a
  stamp is never ahead of the clock, and no writer tries a CAS more often than it may.
  `CacheInv` counts the tools by the places of the list they are taken from
  (`CountedPlaces`), since a merge and a replace reach the cap in different ways.
* `PromptsAreTyped` (`PromptAssembly`): what an invocation has taken are answers that
  plugins gave, and their number passes `MAX_HOOK_RESPONSES` by less than one batch.
  `AssemblyTyped` adds to the invariant above that bound, and whose tools may be
  listed.
* `CompactionIsTyped` (`Compaction`): no plugin is heard twice on one request, and an
  engine that serves none holds nothing over (`EngineTyped`). It assumes finitely many
  plugins.
* `RepliesAreTyped` (`ProviderStream`): `RepliesTyped` says which lines may be on the
  wire and what react may hold of them: no call with an id that is not of the
  upstream's. It holds of garbled streams too, of which `FinishedRepliesHold` says nothing.
* `CatalogsAreTyped` (`ProviderCatalog`): whatever is offered was listed, set or
  is in the table, and has the limits of a row or none (`OursOnly`).
* `SelectionsAreTyped` (`Registry`): what is stored and announced is a model that some
  provider describes or one that was stored before canonical ids.
* `ServeIsTyped`, `IdentityIsTyped`, `HostsAreTyped`, `HooksAreTyped`, `GlobsAreTyped`,
  `DirectoryIsTyped`, `LaunchIsTyped` and `ChatsAreTyped` follow the same way, most of
  them from the invariant above that their component needs anyway.

`ComponentProofs` puts these together into the eleven properties that the run `capsules`
checks, for every value of the constants: `DirectoryHolds`, `LaunchHolds`,
`ConsentHolds`, `SubscribersHold`, `SelectionsHold`, `HooksHold`, `ToolListsHold`,
`PromptsHold`, `RepliesHold`, `ChatsHold` and `TypesHold`, each a theorem of the `Spec` of
`Components`. A lemma for each component X (`DirectoryRun` to `CommandedRun`) says that
in a behaviour of `Components` it is never X's turn, or the behaviour is one of X; so
what X promises in its own behaviours holds in these whenever it is X's turn. The
assumptions are those of the theorems that are put together; the constants that are
only bounds of the run (`StartAsks`, `StopAsks`, `HostAsks`) need none.

What a recursive function computes is proved without induction, by the least
position at which it would fail (`AlongPositions` in `Positions`), after
`RecursionExists` has shown that it is a function at all.

Every invariant and every action property of a passing run is stated by a theorem.
Only model-checked are the liveness properties: the prover handles neither fairness
nor ENABLED. So are the runs that expect a violation, which are counterexamples.

## 6. Plan

What is left, in order:

1. `ReactPool`: `ReactLoop`'s interceptors with their reads and writes split, for
   the reading of `react:64-70`, where the watched set is a read-modify-write that
   two Stores may interleave.
2. React's model-override cache beside `Registry`'s broadcasts, and the broker's
   descriptor cache beside the prompt builder's.
3. The release channel transaction of the scripts, as a transaction like
   `Migration`.

## 7. Not modelled

The kernel (bus, KV, topic ACLs, principals) is external and appears only as its
calls are used. Message contents, prompts, logs, configuration values other than
the bounds above, timestamps in sessions, and directory walks in the import are
data the properties do not tell apart.

Parts left out:

* the router and the agent tools (fs, shell, http, mcp, memory, skills, agents,
  system, forge, meta-harness): one request, one answer, over host calls, with no
  state of their own between requests. `ReactLoop` has a dispatched call and its
  result as one message in flight;
* of the `aos` command: argument parsing, health probes, the text of reports, and
  more than one marker file at a time;
* in react: the model-override cache (planned), and a failing *delete* of a
  correlation key, which the code logs and ignores;
* scripts and installer.

What a property excludes because the code does not provide it; each is a case
the model contains, and the property states its absence as a premise:

* a describe fan-out that was collecting while the tool cache was emptied writes
  the departed tools back (`ToolCatalog`, `clean`);
* a `*` in the text that a policy pattern is matched against (`PolicyGlob`);
* a provider's chunk that ends inside a character (`ProviderStream`, `mangled`);
* a delta published between the chat proxy's two polls, dropped messages, turns
  without a final, shared session ids, a full table (`ChatProxy`, `dirty`); and the
  text of a failure behind streamed chunks, which is not shown at all (finding);
* a broadcast of the registry, or the save it belongs to, that fails (`Registry`,
  `lost`);
* a prompt built while `spark.toml` could not be read after a reset (`Identity`,
  `unread`), and a failed write or export that leaves the file another (`saved` ends);
* two relayed answers that end one host session at once (`HostHooks`, `overlapped`);
* the operator's deny behind the hook bridge (`ToolHooks`; finding);
* answers of a batch past `MAX_HOOK_RESPONSES`, which are taken all the same
  (`PromptAssembly`);
* a call id that the upstream reuses while it is in use (`ReactLoop`,
  `FreshCallIds`), and a session cleared in mid turn (`MidTurnClear`);
* the late reply of a compaction that was given up (`Compaction`, `orphaned`);
* a `delete_user` that failed between its first two cascades (`UserDirectory`,
  `torn`);
* a manifest saved by two commands at once (`Launch`, `alone`);
* stored threads of a newer schema, which the next append replaces
  (`SessionStore`; the abstract store takes them for empty).

Pages of the users capsule are left out too. Reading that code shows that
`list_users_paginated` takes `keys[end_idx - 1]` for the next cursor
(`capsule-users/src/store.rs:497`), which a first page with a limit of 0 does not
have.
`PROJECT.json` lists every component with its status and the reason.
