---------------------------- MODULE ToolCatalog ----------------------------
(* The broker's tool descriptor cache (aos-mcp-broker/src/cache.rs) and the
   three things that write it (discovery.rs): a describe fan-out that replaces
   it, a broadcast that is merged into it, and the kernel's capsules_loaded
   signal, which replaces it from static metadata or empties it.  They run
   concurrently over one KV key; CAS compares the stored bytes, so a value
   that comes back to what it was passes.                                    *)
EXTENDS Naturals, Sequences, FiniteSets, SequencesExt

CONSTANTS
    Capsules,   \* tool-providing capsules
    Offers,     \* [Capsules -> Seq of [name, valid]]: what describe answers
    Baked,      \* capsules whose meta.json carries their tools
    Fanouts,    \* concurrent describe requests (describe_tools, tools.list)
    Cap,        \* MAX_CACHED_TOOLS
    PerReply,   \* MAX_TOOLS_PER_RESPONSE
    Retries,    \* CAS_MAX_RETRIES
    TTL,        \* CACHE_TTL_MS in clock ticks
    MaxClock    \* bound on the clock

Collector == "collector"    \* handles tool.v1.response.describe.*
Loader == "loader"          \* handles astrid.v1.capsules_loaded
Tasks == Fanouts \cup {Collector, Loader}

VARIABLES
    loaded,     \* capsules loaded by the kernel
    signal,     \* payload of a capsules_loaded the broker has not handled yet
    cache,      \* the KV value: descriptors by name, and when it was written
    now,        \* wall clock
    task,       \* what each handler invocation is doing
    clean       \* the last change was absorbed with no writer in flight (history)

vars == <<loaded, signal, cache, now, task, clean>>

Empty == [tools |-> <<>>, at |-> 0]
Rest == [pc |-> "idle", acc |-> <<>>, from |-> <<>>, read |-> Empty, tries |-> 0]

Init ==
    /\ loaded \in SUBSET Capsules
    /\ signal = <<>>
    /\ cache = Empty
    /\ now = 1
    /\ task = [t \in Tasks |-> Rest]
    /\ clean = TRUE

\* The tools that capsules cs list, in that order: entry p is the p[2]-th of the
\* p[1]-th capsule, and read[c] is the set of entries that are read of capsule c.
Listing(cs, read) ==
    [p \in UNION {{k} \X read[cs[k]] : k \in DOMAIN cs} |->
        [name |-> Offers[cs[p[1]]][p[2]].name, from |-> cs[p[1]]]]

\* parse_describe_response: at most PerReply entries, the invalid ones skipped.
ParseDescribe(cs) ==
    Listing(cs, [c \in Capsules |->
                    {i \in DOMAIN Offers[c] : i <= PerReply /\ Offers[c][i].valid}])

\* static_tools_from_payload: every entry of every capsule, unfiltered.
StaticTools(cs) == Listing(cs, [c \in Capsules |-> DOMAIN Offers[c]])

Before(p, q) == p[1] < q[1] \/ (p[1] = q[1] /\ p[2] < q[2])
Names(offers) == {offers[p].name : p \in DOMAIN offers}
Ahead(offers, p) == {offers[q].name : q \in {q \in DOMAIN offers : Before(q, p)}}

\* The last descriptor of a name, and whose it is.
LastOf(offers, n) ==
    CHOOSE p \in DOMAIN offers :
        /\ offers[p].name = n
        /\ \A q \in DOMAIN offers : offers[q].name = n => ~Before(p, q)
ByName(offers) == [n \in Names(offers) |-> offers[LastOf(offers, n)].from]

\* Seeded bug: the cap is tested one too late.
KeptPastCap(tools, offers) ==
    DOMAIN tools \cup
    {offers[p].name : p \in {p \in DOMAIN offers :
                               Cardinality(DOMAIN tools \cup Ahead(offers, p)) <= Cap}}

\* The names a merge keeps: what is there, and what comes while there is room.
Kept(tools, offers) ==
    DOMAIN tools \cup
    {offers[p].name : p \in {p \in DOMAIN offers :
                               Cardinality(DOMAIN tools \cup Ahead(offers, p)) < Cap}}

\* upsert by name: the last descriptor of a name wins; a new name is dropped once
\* the cap is reached.
Merge(tools, offers) ==
    [n \in Kept(tools, offers) |->
        IF n \in Names(offers) THEN ByName(offers)[n] ELSE tools[n]]

\* Seeded bug: replace adds to what is cached.
FillOnto(snapshot) == Merge(cache.tools, snapshot)

\* replace stops at the cap, a later duplicate included.
Fill(snapshot) ==
    ByName(Restrict(snapshot,
                    {p \in DOMAIN snapshot : Cardinality(Ahead(snapshot, p)) < Cap}))

\* discover: the last occurrence of a name stays, in its place.
DedupeLast(acc) == Restrict(acc, {LastOf(acc, n) : n \in Names(acc)})

IsFresh(c) == c.at # 0 /\ DOMAIN c.tools # {} /\ now - c.at < TTL

Goto(t, pc) == task' = [task EXCEPT ![t].pc = pc]
Finish(t) == task' = [task EXCEPT ![t] = Rest]
IdleBut(t) == \A o \in Tasks \ {t} : task[o].pc = "idle"

(* describe_tools and tools.list: collect_snapshot. *)
CollectSnapshot(f) ==
    /\ task[f].pc = "idle"
    /\ ~IsFresh(cache)
    /\ Goto(f, "drain")
    /\ UNCHANGED <<loaded, signal, cache, now, clean>>

\* A loaded capsule's answer arrives in the drain window.
DrainReply(f) ==
    /\ task[f].pc = "drain"
    /\ \E c \in loaded \ Range(task[f].from) :
          task' = [task EXCEPT ![f].from = Append(@, c)]
    /\ UNCHANGED <<loaded, signal, cache, now, clean>>

\* Quiet slice or end of the budget: answers may still be missing.  An empty
\* fan-out keeps the prior cache (snapshot_outcome).
CloseWindow(f) ==
    /\ task[f].pc = "drain"
    /\ LET acc == ParseDescribe(task[f].from)
       IN  IF DOMAIN acc = {} THEN Finish(f)
           ELSE task' = [task EXCEPT ![f].pc = "replace", ![f].from = <<>>,
                                     ![f].acc = DedupeLast(acc)]
    /\ UNCHANGED <<loaded, signal, cache, now, clean>>

(* A describe response reaches the collector, whoever asked for it. *)
CollectToolDescriptors ==
    /\ task[Collector].pc = "idle"
    /\ \E c \in loaded :
          /\ DOMAIN ParseDescribe(<<c>>) # {}
          /\ task' = [task EXCEPT ![Collector].acc = ParseDescribe(<<c>>),
                                  ![Collector].pc = "merge"]
    /\ UNCHANGED <<loaded, signal, cache, now, clean>>

(* cache::replace: read what the CAS expects, then CAS; a miss falls back to a
   merge, a host error gives up.                                             *)
ReplaceRead(t) ==
    /\ task[t].pc = "replace"
    /\ task' = [task EXCEPT ![t].pc = "replaceCas", ![t].read = cache]
    /\ UNCHANGED <<loaded, signal, cache, now, clean>>

ReplaceCas(t) ==
    /\ task[t].pc = "replaceCas"
    /\ IF cache = task[t].read
       THEN /\ cache' = [tools |-> Fill(task[t].acc), at |-> now]
            /\ Finish(t)
            /\ clean' = (clean \/ (t = Loader /\ IdleBut(t) /\ signal = <<>>))
       ELSE /\ task' = [task EXCEPT ![t].pc = "merge", ![t].read = Empty]
            /\ UNCHANGED <<cache, clean>>
    /\ UNCHANGED <<loaded, signal, now>>

(* cache::upsert: the same, with the incoming descriptors merged into what was
   read, up to Retries times.  The stamp of the whole cache is renewed.      *)
MergeRead(t) ==
    /\ task[t].pc = "merge"
    /\ task' = [task EXCEPT ![t].pc = "mergeCas", ![t].read = cache]
    /\ UNCHANGED <<loaded, signal, cache, now, clean>>

MergeCas(t) ==
    /\ task[t].pc = "mergeCas"
    /\ IF cache = task[t].read
       THEN /\ cache' = [tools |-> Merge(cache.tools, task[t].acc), at |-> now]
            /\ Finish(t)
       ELSE /\ IF task[t].tries + 1 < Retries
               THEN task' = [task EXCEPT ![t].pc = "merge", ![t].read = Empty,
                                         ![t].tries = @ + 1]
               ELSE Finish(t)
            /\ UNCHANGED cache
    /\ UNCHANGED <<loaded, signal, now, clean>>

\* The host refuses a CAS: the writer gives up.
CasFails(t) ==
    /\ task[t].pc \in {"replaceCas", "mergeCas"}
    /\ Finish(t)
    /\ UNCHANGED <<loaded, signal, cache, now, clean>>

(* Capsules are installed, upgraded or removed; the kernel signals it. *)
CapsulesChange ==
    /\ signal = <<>>
    /\ \E cs \in SUBSET Capsules :
          /\ cs # loaded
          /\ loaded' = cs
          /\ signal' = <<cs>>
    /\ clean' = FALSE
    /\ UNCHANGED <<cache, now, task>>

\* Every surface captured: replace from the metadata.  Otherwise empty the
\* cache, a plain write that may fail.
OnCapsulesLoaded ==
    /\ signal # <<>>
    /\ task[Loader].pc = "idle"
    /\ signal' = <<>>
    /\ IF Head(signal) \subseteq Baked
       THEN /\ \E order \in SetToSeqs(Head(signal)) :
                  task' = [task EXCEPT ![Loader].pc = "replace",
                                       ![Loader].acc = StaticTools(order)]
            /\ UNCHANGED <<cache, clean>>
       ELSE /\ \/ cache' = Empty /\ clean' = IdleBut(Loader)
               \/ UNCHANGED <<cache, clean>>
            /\ UNCHANGED task
    /\ UNCHANGED <<loaded, now>>

Tick ==
    /\ now < MaxClock
    /\ now' = now + 1
    /\ UNCHANGED <<loaded, signal, cache, task, clean>>

Next ==
    \/ \E f \in Fanouts : CollectSnapshot(f) \/ DrainReply(f) \/ CloseWindow(f)
    \/ CollectToolDescriptors
    \/ \E t \in Tasks : \/ ReplaceRead(t) \/ ReplaceCas(t)
                        \/ MergeRead(t) \/ MergeCas(t) \/ CasFails(t)
    \/ CapsulesChange \/ OnCapsulesLoaded \/ Tick

Spec == Init /\ [][Next]_vars

TypeOK ==
    /\ loaded \subseteq Capsules
    /\ Len(signal) <= 1
    /\ Cardinality(DOMAIN cache.tools) <= Cap
    /\ Range(cache.tools) \subseteq Capsules
    /\ cache.at \in 0..now
    /\ \A t \in Tasks : task[t].tries < Retries

(* Once a change of the capsule set has been absorbed with no writer in flight,
   no tool of a departed capsule is listed again: whatever fan-outs, merges and
   races follow, a cached descriptor belongs to a loaded capsule.  Emptying the
   cache without a CAS (cache.rs:196-201) relies on this.                    *)
DepartedToolsStayGone == clean => Range(cache.tools) \subseteq loaded
=============================================================================
