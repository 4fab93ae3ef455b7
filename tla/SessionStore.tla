---------------------------- MODULE SessionStore -----------------------------
(***************************************************************************)
(* capsule-session: every handler runs in a Store of its own and shares    *)
(* only the KV.  A step of this module is one KV call together with the    *)
(* computation up to the next one; between two steps any other handler may *)
(* write the same session.                                                 *)
(*                                                                         *)
(* A batch of messages is one element of Batches and no batch is sent      *)
(* twice.  Timestamps are left out: kv::cas compares whole values, so      *)
(* dropping them only makes two values equal more often.  title and meta   *)
(* behave alike and are one field.                                         *)
(***************************************************************************)
EXTENDS Integers, Sequences, SequencesExt

CONSTANTS
    Ids,            \* session ids; the KV's key order is their order
    Workers,        \* concurrently running handlers
    Batches,        \* batches of messages a caller may append
    OldBatch,       \* the batch that is stored at the start
    Patches,        \* update bodies a caller may send
    NoThread,       \* an absent key
    NoAnswer,       \* a handler that is not about to reply
    CasRetryLimit,  \* CAS_RETRY_LIMIT
    SearchLimit,    \* limit of a search request
    ScanBudget,     \* SEARCH_KEY_SCAN_BUDGET
    PageSize,       \* MAX_LIST_LIMIT
    MaxOps,         \* bound: operations begun in a behaviour
    MaxFaults,      \* bound: KV calls that fail in a behaviour
    Searching,      \* bound: whether a client searches
    StoredKinds     \* schema versions a session may be stored with at the start

ASSUME StoreAssumption ==
    /\ Ids \subseteq Nat \ {0}
    /\ CasRetryLimit \in Nat \ {0} /\ SearchLimit \in Nat \ {0}
    /\ ScanBudget \in Nat \ {0} /\ PageSize \in Nat \ {0}
    /\ MaxOps \in Nat /\ MaxFaults \in Nat /\ Searching \in BOOLEAN
    /\ StoredKinds \subseteq {"v1", "v2", "future"}
    /\ Patches \subseteq UNION {[f -> BOOLEAN] : f \in SUBSET {"title", "archived"}}

VARIABLES
    kv,         \* session.data.<id>
    job,        \* the handler each worker runs
    scan,       \* a client searching all its sessions, call after call
    sent,       \* batches handed to some handler
    ops,        \* operations begun
    faults      \* KV calls that failed

vars == <<kv, job, scan, sent, ops, faults>>

-----------------------------------------------------------------------------
\* SessionData. "future" stands for bytes this version cannot use: a newer
\* schema, or bytes that do not parse.
Kinds == {"v1", "v2", "future"}
Session == [kind : Kinds, msgs : Seq(Batches \cup {OldBatch}), title : BOOLEAN,
            archived : BOOLEAN, parent : Ids \cup {0}]

\* An absent key is no session and no thread.
NoneIsNothing ==
    /\ NoThread \notin Session
    /\ NoThread \notin [msgs : Seq(Batches \cup {OldBatch}), title : BOOLEAN,
                        archived : BOOLEAN, parent : Ids \cup {0}]

ASSUME NoneAssumption == NoneIsNothing

Fresh(parent) == [kind |-> "v2", msgs |-> <<>>, title |-> FALSE,
                  archived |-> FALSE, parent |-> parent]

Stored == [kind : StoredKinds, msgs : {<<OldBatch>>}, title : {FALSE},
           archived : {FALSE}, parent : {0}]

\* apply_update_patch
Patched(d, patch) ==
    [d EXCEPT !.title = IF "title" \in DOMAIN patch THEN patch.title ELSE @,
              !.archived = IF "archived" \in DOMAIN patch THEN patch.archived ELSE @]

\* SessionData::migrate: older data is stamped, unusable data is replaced.
Migrated(d) == IF d.kind = "future" THEN Fresh(0) ELSE [d EXCEPT !.kind = "v2"]

\* What load makes of a key's value.
Usable(v) == IF v = NoThread THEN Fresh(0) ELSE Migrated(v)

\* A running handler. landed counts what others wrote to its session since it
\* began; batch and patch are what its caller sent.
Ops == {"append", "read", "meta", "update", "delete", "clear"}
Pcs == {"check", "load", "migrate", "write", "purge", "reply", "gaveup"}
Jobs == [pc : Pcs, op : Ops, id : Ids, batch : Batches \cup {NoAnswer},
         patch : Patches \cup {<<>>}, data : Session, exp : Session \cup {NoThread},
         tries : 0..CasRetryLimit, landed : Nat]
Idle == [pc |-> "idle"]

Writes == {"append", "update"}

Start(op, id, pc) ==
    [pc |-> pc, op |-> op, id |-> id, batch |-> NoAnswer, patch |-> <<>>,
     data |-> Fresh(0), exp |-> NoThread, tries |-> 0, landed |-> 0]

\* The handler of j, about to reply d.
Replies(j, d) == [Start(j.op, j.id, "reply") EXCEPT !.data = d]

\* The sessions a search of every visible thread with some text must find.
Matches(d) == ~d.archived /\ d.msgs # <<>>
Matching(store) == {id \in Ids : store[id] # NoThread /\ Matches(Usable(store[id]))}

-----------------------------------------------------------------------------
Fault == faults < MaxFaults /\ faults' = faults + 1

\* The running handlers after a write to session id.
Noted(id) ==
    [v \in Workers |->
        IF job[v] # Idle /\ job[v].id = id /\ job[v].op \in Writes
        THEN [job[v] EXCEPT !.landed = @ + 1] ELSE job[v]]

\* Worker w writes session id.
Put(w, id, value, next) ==
    LET store == [kv EXCEPT ![id] = value]
    IN  /\ kv' = store
        /\ job' = [Noted(id) EXCEPT ![w] = next]
        /\ scan' = [scan EXCEPT !.must = @ \cap Matching(store)]

Keep(w, next) == job' = [job EXCEPT ![w] = next] /\ UNCHANGED <<kv, scan>>

\* Bounds: no operation begins once MaxOps have.
Begin == ops < MaxOps /\ ops' = ops + 1

Init ==
    /\ kv \in [Ids -> {NoThread} \cup Stored]
    /\ job = [w \in Workers |-> Idle]
    /\ scan = [pc |-> "off", cursor |-> 0, page |-> {}, more |-> FALSE, n |-> 0,
               seen |-> 0, hits |-> <<>>, exp |-> NoThread, must |-> {}]
    /\ sent = {}
    /\ ops = 0
    /\ faults = 0

-----------------------------------------------------------------------------
\* handle_append and handle_get_messages with append_before_read ("append"),
\* handle_get_messages without and get_thread ("read"), get_meta, update and delete, up to their first KV call.
Request(w, op, id) ==
    /\ job[w] = Idle
    /\ Begin
    /\ \/ /\ op \in {"meta", "delete"}
          /\ Keep(w, Start(op, id, "check"))
          /\ UNCHANGED sent
       \/ op = "read" /\ Keep(w, Start(op, id, "load")) /\ UNCHANGED sent
       \/ /\ op = "append"
          /\ \E m \in Batches \ sent :
                /\ Keep(w, [Start(op, id, "load") EXCEPT !.batch = m])
                /\ sent' = sent \cup {m}
       \/ /\ op = "update"
          /\ \E p \in Patches : Keep(w, [Start(op, id, "load") EXCEPT !.patch = p])
          /\ UNCHANGED sent
    /\ UNCHANGED faults

\* handle_clear: the new session's id is a fresh UUID, and its key is created
\* only if it is absent. The old session stays.
HandleClear(w, old, id) ==
    /\ job[w] = Idle
    /\ kv[id] = NoThread
    /\ \A v \in Workers : job[v] # Idle => job[v].id # id
    /\ Begin
    /\ \/ Put(w, id, Fresh(old), Start("clear", id, "reply")) /\ UNCHANGED faults
       \/ Fault /\ (Put(w, id, Fresh(old), Idle) \/ Keep(w, Idle))
    /\ UNCHANGED sent

\* The presence check of do_get_meta and do_delete.
Check(w) ==
    /\ job[w].pc = "check"
    /\ \/ /\ kv[job[w].id] # NoThread
          /\ Keep(w, [job[w] EXCEPT !.pc = IF job[w].op = "meta" THEN "load" ELSE "purge"])
          /\ UNCHANGED faults
       \/ kv[job[w].id] = NoThread /\ Keep(w, Idle) /\ UNCHANGED faults
       \/ Fault /\ Keep(w, Idle)
    /\ UNCHANGED <<sent, ops>>

\* do_delete's kv::delete; on success it publishes the deleted event.
Purge(w) ==
    /\ job[w].pc = "purge"
    /\ \/ Put(w, job[w].id, NoThread, Replies(job[w], Fresh(0))) /\ UNCHANGED faults
       \/ Fault /\ (Put(w, job[w].id, NoThread, Idle) \/ Keep(w, Idle))
    /\ UNCHANGED <<sent, ops>>

\* After load: a read replies, an update of an absent session does nothing.
Proceed(j) ==
    IF j.op = "update" /\ j.exp = NoThread THEN Idle
    ELSE IF j.op \in Writes THEN [j EXCEPT !.pc = "write"] ELSE Replies(j, j.data)

\* Seeded bug: a retry refreshes what it expects but not what it writes.
LoadedOnce(j, v) ==
    LET k == [j EXCEPT !.data = IF j.tries > 0 THEN @ ELSE Usable(v), !.exp = v]
    IN  IF v # NoThread /\ v.kind = "v1" THEN [k EXCEPT !.pc = "migrate"]
        ELSE Proceed(k)

\* SessionData::load, given the value the KV returned.
Loaded(j, v) ==
    LET k == [j EXCEPT !.data = Usable(v), !.exp = v]
    IN  IF v # NoThread /\ v.kind = "v1" THEN [k EXCEPT !.pc = "migrate"]
        ELSE Proceed(k)

\* A failed read counts as an absent key.
Load(w) ==
    /\ job[w].pc = "load"
    /\ \/ Keep(w, Loaded(job[w], kv[job[w].id])) /\ UNCHANGED faults
       \/ Fault /\ Keep(w, Loaded(job[w], NoThread))
    /\ UNCHANGED <<sent, ops>>

\* Seeded bug: load returns the bytes it read, not those it wrote.
MigratedExpectsOld(j) == j.exp

\* What a load that has stored its migration expects at the next CAS.
MigratedExpects(j) == j.data

\* load's best-effort CAS of the stamped data; its failure changes nothing.
MigrateStored(w) ==
    LET j == job[w]
    IN  /\ j.pc = "migrate"
        /\ \/ /\ kv[j.id] = j.exp
              /\ Put(w, j.id, j.data, Proceed([j EXCEPT !.exp = MigratedExpects(j)]))
              /\ UNCHANGED faults
           \/ kv[j.id] # j.exp /\ Keep(w, Proceed(j)) /\ UNCHANGED faults
           \/ /\ Fault
              /\ \/ kv[j.id] = j.exp /\ Put(w, j.id, j.data, Proceed(j))
                 \/ Keep(w, Proceed(j))
        /\ UNCHANGED <<sent, ops>>

\* The closures given to modify_atomic and modify_existing.
Mutated(j) ==
    IF j.op = "update" THEN Patched(j.data, j.patch)
    ELSE [j.data EXCEPT !.msgs = Append(@, j.batch)]

\* Seeded bug: one attempt too many.
RetriedLate(j) ==
    [j EXCEPT !.tries = @ + 1, !.pc = IF j.tries = CasRetryLimit THEN "gaveup" ELSE "load"]

Retried(j) ==
    [j EXCEPT !.tries = @ + 1,
              !.pc = IF j.tries + 1 = CasRetryLimit THEN "gaveup" ELSE "load"]

\* The CAS of modify_atomic and modify_existing: stored, lost, or failed with
\* the write done or not.
Write(w) ==
    LET j == job[w]
    IN  /\ j.pc = "write"
        /\ \/ /\ kv[j.id] = j.exp
              /\ Put(w, j.id, Mutated(j), Replies(j, Mutated(j)))
              /\ UNCHANGED faults
           \/ kv[j.id] # j.exp /\ Keep(w, Retried(j)) /\ UNCHANGED faults
           \/ /\ Fault
              /\ \/ kv[j.id] = j.exp /\ Put(w, j.id, Mutated(j), Idle)
                 \/ Keep(w, Idle)
        /\ UNCHANGED <<sent, ops>>

\* The handler publishes its reply, or returns the contention error.
Finish(w) ==
    /\ job[w].pc \in {"reply", "gaveup"}
    /\ Keep(w, Idle)
    /\ UNCHANGED <<sent, ops, faults>>

-----------------------------------------------------------------------------
\* do_search, called until it returns no cursor.
Quiet == UNCHANGED <<kv, job, sent, ops>>

SearchBegins ==
    /\ Searching /\ scan.pc = "off"
    /\ scan' = [scan EXCEPT !.pc = "page", !.must = Matching(kv)]
    /\ UNCHANGED <<kv, job, sent, ops, faults>>

\* The keys after a cursor, and kv::list_keys_page: the first of them.
After(cursor) == {id \in Ids : kv[id] # NoThread /\ id > cursor}
Listed(cursor) ==
    {id \in After(cursor) : Cardinality({k \in After(cursor) : k < id}) < PageSize}

SearchPage ==
    LET keys == Listed(scan.cursor)
    IN  /\ scan.pc = "page"
        /\ scan' = [scan EXCEPT !.pc = IF keys = {} THEN "done" ELSE "key",
                                !.page = keys,
                                !.more = keys # After(scan.cursor)]
        /\ Quiet /\ UNCHANGED faults

\* Seeded bug: a search that hits its limit resumes after the page.
ResumeAfterPage(s) == Max(s.page)

\* The cursor a call that stops early returns: the last key it scanned.
Resume(s) == Min(s.page)

\* The loop's tests after a key: the limit, the budget, the end of the page.
\* A call that stops early is followed by the next one, from its cursor.
Scanned(s) ==
    LET stop == s.n >= SearchLimit \/ s.seen >= ScanBudget
        rest == s.page \ {Min(s.page)}
    IN  IF stop
        THEN [s EXCEPT !.pc = "page", !.cursor = Resume(s), !.n = 0, !.seen = 0]
        ELSE IF rest # {} THEN [s EXCEPT !.pc = "key", !.page = rest]
        ELSE [s EXCEPT !.pc = IF s.more THEN "page" ELSE "done", !.cursor = Min(s.page)]

\* What the search makes of a loaded session.
Searched(v) ==
    LET hit == IF Matches(Usable(v)) THEN 1 ELSE 0
        s == [scan EXCEPT !.seen = @ + 1, !.n = @ + hit, !.exp = v,
                          !.hits = IF hit = 1 THEN Append(@, Min(scan.page)) ELSE @]
    IN  IF v # NoThread /\ v.kind = "v1" THEN [s EXCEPT !.pc = "heal"] ELSE Scanned(s)

SearchKey ==
    /\ scan.pc = "key"
    /\ \/ scan' = Searched(kv[Min(scan.page)]) /\ UNCHANGED faults
       \/ Fault /\ scan' = Searched(NoThread)
    /\ Quiet

\* The search's load stores the migration of the session it read, best-effort.
SearchHeal ==
    LET id == Min(scan.page)
    IN  /\ scan.pc = "heal"
        /\ scan' = Scanned(scan)
        /\ \/ /\ kv[id] = scan.exp
              /\ kv' = [kv EXCEPT ![id] = Migrated(scan.exp)]
              /\ job' = Noted(id)
              /\ UNCHANGED faults \/ Fault
           \/ kv[id] # scan.exp /\ UNCHANGED <<kv, job, faults>>
           \/ Fault /\ UNCHANGED <<kv, job>>
        /\ UNCHANGED <<sent, ops>>

Next ==
    \/ \E w \in Workers :
          \/ \E id \in Ids, op \in Ops : Request(w, op, id)
          \/ \E old, id \in Ids : HandleClear(w, old, id)
          \/ Check(w) \/ Purge(w) \/ Load(w) \/ MigrateStored(w) \/ Write(w)
          \/ Finish(w)
    \/ SearchBegins \/ SearchPage \/ SearchKey \/ SearchHeal

Spec == Init /\ [][Next]_vars
-----------------------------------------------------------------------------
\* Sessions, handlers and the search have their shape; in particular no
\* handler retries its CAS more than CAS_RETRY_LIMIT times.
TypeOK ==
    /\ kv \in [Ids -> Session \cup {NoThread}]
    /\ job \in [Workers -> Jobs \cup {Idle}]
    /\ scan.pc \in {"off", "page", "key", "heal", "done"}
    /\ scan.must \subseteq Ids /\ scan.hits \in Seq(Ids)
    /\ sent \subseteq Batches

\* The thread behind a session: unusable bytes count as an empty thread.
View(v) ==
    IF v = NoThread THEN NoThread
    ELSE LET d == Usable(v)
         IN  [msgs |-> d.msgs, title |-> d.title, archived |-> d.archived,
              parent |-> d.parent]

Replying(j) ==
    \/ j.pc = "reply" /\ j.op \in Writes \cup {"read", "meta"}
    \/ j.pc = "migrate" /\ j.op \in {"read", "meta"}

Threads == INSTANCE ThreadStore WITH
    Batches <- Batches \cup {OldBatch},
    thread <- [id \in Ids |-> View(kv[id])],
    answer <- [w \in Workers |-> IF Replying(job[w]) THEN View(job[w].data)
                                 ELSE NoAnswer]

\* "kv::cas makes the read-modify-write race-free" (capsule-session): whatever
\* the handlers that share sessions interleave, migrate, retry or lose, every
\* operation takes effect at once, and a search changes no thread.
HandlersImplementThreadStore == Threads!Spec

\* A handler that gives up after CAS_RETRY_LIMIT attempts was really beaten
\* that often (or a KV call failed): it never loses a race against itself.
RetriesMeanContention ==
    \A w \in Workers : job[w] # Idle => job[w].tries <= job[w].landed + faults

\* A search that follows its cursors to the end finds each session that matched
\* all along, once, whatever is created, deleted, archived or migrated
\* meanwhile, as long as no KV read fails.
SearchIsComplete ==
    scan.pc = "done" =>
        /\ faults = 0 => scan.must \subseteq ToSet(scan.hits)
        /\ \A i, k \in DOMAIN scan.hits : i < k => scan.hits[i] < scan.hits[k]
==============================================================================
