------------------------- MODULE SessionStoreProofs -------------------------
(***************************************************************************)
(* Theorems about capsule-session, for any sessions, handlers, batches,    *)
(* patches and limits, whichever KV calls fail: the handlers implement a   *)
(* store of threads with atomic operations, a handler that runs out of     *)
(* retries was beaten that often, and a search followed to its end is      *)
(* complete.                                                               *)
(***************************************************************************)
EXTENDS SessionStore, FiniteSetTheorems, WellFoundedInduction, TLAPS

-----------------------------------------------------------------------------
(* The inductive invariant *)

Reads == {"read", "meta"}
Looping == {"load", "migrate", "write"}

\* What a handler holds, by where it is.
JobOK(j) ==
    /\ j.pc \in Looping => j.op \in Writes \cup Reads /\ j.tries < CasRetryLimit
    /\ j.pc = "check" => j.op \in {"meta", "delete"}
    /\ j.pc = "purge" => j.op = "delete"
    /\ j.op \notin Writes => j.tries = 0
    /\ j.pc \in Looping /\ j.op = "append" => j.batch \in Batches
    /\ j.pc \in Looping /\ j.op = "update" => j.patch \in Patches
    /\ j.pc = "migrate" => /\ j.exp \in Session /\ j.exp.kind = "v1"
                           /\ j.data = Usable(j.exp)
    /\ j.pc = "write" => /\ j.op \in Writes /\ j.data = Usable(j.exp)
                         /\ j.op = "update" => j.exp # NoThread

Scans == [pc : {"off", "page", "key", "heal", "done"}, cursor : Ids \cup {0},
          page : SUBSET Ids, more : BOOLEAN, n : Nat, seen : Nat, hits : Seq(Ids),
          exp : Session \cup {NoThread}, must : SUBSET Ids]

Types ==
    /\ kv \in [Ids -> Session \cup {NoThread}]
    /\ job \in [Workers -> Jobs \cup {Idle}]
    /\ \A w \in Workers : job[w] # Idle => JobOK(job[w])
    /\ scan \in Scans
    /\ sent \subseteq Batches
    /\ ops \in Nat /\ faults \in Nat

USE DEF Writes, Reads, Looping

-----------------------------------------------------------------------------
(* The operators on sessions *)

LEMMA FreshType == \A p \in Ids \cup {0} : Fresh(p) \in Session
BY DEF Fresh, Session, Kinds

LEMMA UsableType ==
    ASSUME NEW v \in Session \cup {NoThread}
    PROVE  Usable(v) \in Session /\ (v \in Session => Migrated(v) \in Session)
BY FreshType DEF Usable, Migrated, Session, Kinds

\* Data that was made usable stays what it is.
LEMMA UsableTwice ==
    ASSUME NoneIsNothing, NEW v \in Session \cup {NoThread}
    PROVE  /\ Usable(v) # NoThread /\ Usable(v).kind = "v2"
           /\ Usable(Usable(v)) = Usable(v)
<1>1. Usable(v) \in Session
  BY UsableType
<1>2. Usable(v) # NoThread
  BY <1>1 DEF NoneIsNothing
<1>3. Usable(v).kind = "v2"
  BY DEF Usable, Migrated, Session, Fresh
<1>4. Migrated(Usable(v)) = Usable(v)
  BY <1>1, <1>3 DEF Migrated, Session
<1> QED
  BY <1>2, <1>3, <1>4 DEF Usable

LEMMA PatchedType ==
    ASSUME NEW d \in Session, NEW p \in Patches PROVE Patched(d, p) \in Session
<1>1. PICK f \in SUBSET {"title", "archived"} : p \in [f -> BOOLEAN]
  BY StoreAssumption DEF StoreAssumption
<1>2. /\ "title" \in DOMAIN p => p.title \in BOOLEAN
      /\ "archived" \in DOMAIN p => p.archived \in BOOLEAN
  BY <1>1
<1> QED
  BY <1>2 DEF Patched, Session

LEMMA MutatedType ==
    ASSUME NEW j \in Jobs, JobOK(j), j.pc = "write" PROVE Mutated(j) \in Session
<1>1. j.data \in Session
  BY DEF Jobs
<1>2. CASE j.op = "update"
  BY <1>1, <1>2, PatchedType DEF Mutated, JobOK
<1>3. CASE j.op = "append"
  <2>1. j.data.msgs \in Seq(Batches \cup {OldBatch}) /\ j.batch \in Batches \cup {OldBatch}
    BY <1>1, <1>3 DEF JobOK, Session
  <2>2. Append(j.data.msgs, j.batch) \in Seq(Batches \cup {OldBatch})
    BY <2>1
  <2>3. Mutated(j) = [j.data EXCEPT !.msgs = Append(j.data.msgs, j.batch)]
    BY <1>3 DEF Mutated
  <2> QED
    BY <1>1, <2>2, <2>3 DEF Session
<1> QED
  BY <1>2, <1>3 DEF JobOK

-----------------------------------------------------------------------------
(* The steps of a handler *)

\* A well-formed handler, or none.
Handler(j) == j \in Jobs \cup {Idle} /\ (j # Idle => JobOK(j))

LEMMA IdleIsNoJob == Idle \notin Jobs /\ Idle.pc = "idle"
BY DEF Idle, Jobs, Pcs

LEMMA StartOK ==
    ASSUME NEW op \in Ops, NEW id \in Ids, NEW pc \in {"check", "load", "reply"},
           pc = "check" => op \in {"meta", "delete"}, pc = "load" => op \in Reads
    PROVE  Start(op, id, pc) \in Jobs /\ JobOK(Start(op, id, pc))
<1>1. 0 \in 0..CasRetryLimit /\ 0 < CasRetryLimit
  BY StoreAssumption DEF StoreAssumption
<1>2. Fresh(0) \in Session
  BY FreshType
<1> QED
  BY <1>1, <1>2 DEF Start, Jobs, JobOK, Pcs, Ops

LEMMA RepliesOK ==
    ASSUME NEW j \in Jobs, NEW d \in Session
    PROVE  Replies(j, d) \in Jobs /\ JobOK(Replies(j, d)) /\ Replies(j, d).pc = "reply"
           /\ Replies(j, d).op = j.op /\ Replies(j, d).data = d /\ Replies(j, d).tries = 0
<1>1. 0 \in 0..CasRetryLimit /\ 0 < CasRetryLimit
  BY StoreAssumption DEF StoreAssumption
<1>2. Fresh(0) \in Session /\ j.op \in Ops /\ j.id \in Ids
  BY FreshType DEF Jobs
<1> QED
  BY <1>1, <1>2 DEF Replies, Start, Jobs, JobOK, Pcs

\* Proceed, after a load whose result is in data and exp.
LEMMA ProceedOK ==
    ASSUME NEW j \in Jobs, j.pc \in Looping, j.op \in Writes \cup Reads,
           JobOK([j EXCEPT !.pc = "load"]), j.data = Usable(j.exp)
    PROVE  Handler(Proceed(j))
<1>1. CASE j.op = "update" /\ j.exp = NoThread
  BY <1>1 DEF Proceed, Handler
<1>2. CASE ~(j.op = "update" /\ j.exp = NoThread) /\ j.op \in Writes
  <2>1. Proceed(j) = [j EXCEPT !.pc = "write"]
    BY <1>2 DEF Proceed
  <2>2. Proceed(j) \in Jobs
    BY <2>1 DEF Jobs, Pcs
  <2>3. JobOK(Proceed(j))
    BY <1>2, <2>1 DEF JobOK, Jobs
  <2> QED
    BY <2>2, <2>3 DEF Handler
<1>3. CASE j.op \notin Writes
  <2>1. Proceed(j) = Replies(j, j.data) /\ j.data \in Session
    BY <1>3 DEF Proceed, Jobs
  <2> QED
    BY <2>1, RepliesOK DEF Handler
<1> QED
  BY <1>1, <1>2, <1>3

LEMMA LoadedOK ==
    ASSUME NEW j \in Jobs, JobOK(j), j.pc = "load", NEW v \in Session \cup {NoThread}
    PROVE  Handler(Loaded(j, v))
<1> DEFINE k == [j EXCEPT !.data = Usable(v), !.exp = v]
<1>1. k \in Jobs /\ k.exp = v /\ k.data = Usable(v) /\ k.pc = "load"
      /\ k.op = j.op /\ k.tries = j.tries /\ k.batch = j.batch /\ k.patch = j.patch
  BY UsableType DEF Jobs
<1>2. JobOK(k)
  BY <1>1 DEF JobOK
<1>3. CASE v # NoThread /\ v.kind = "v1"
  <2>1. Loaded(j, v) = [k EXCEPT !.pc = "migrate"]
    BY <1>3 DEF Loaded
  <2>2. Loaded(j, v) \in Jobs
    BY <1>1, <2>1 DEF Jobs, Pcs
  <2>3. JobOK(Loaded(j, v))
    BY <1>1, <1>2, <1>3, <2>1 DEF JobOK, Jobs
  <2> QED
    BY <2>2, <2>3 DEF Handler
<1>4. CASE ~(v # NoThread /\ v.kind = "v1")
  <2>1. Loaded(j, v) = Proceed(k)
    BY <1>4 DEF Loaded
  <2>2. [k EXCEPT !.pc = "load"] = k
    BY <1>1 DEF Jobs
  <2>3. k.op \in Writes \cup Reads
    BY <1>1, <1>2 DEF JobOK
  <2> HIDE DEF k
  <2> QED
    BY <1>1, <1>2, <2>1, <2>2, <2>3, ProceedOK
<1> QED
  BY <1>3, <1>4

LEMMA RetriedOK ==
    ASSUME NEW j \in Jobs, JobOK(j), j.pc = "write"
    PROVE  Retried(j) \in Jobs /\ JobOK(Retried(j))
<1>1. j.tries \in 0..CasRetryLimit /\ j.tries < CasRetryLimit /\ j.op \in Writes
  BY DEF JobOK, Jobs
<1> DEFINE pc == IF j.tries + 1 = CasRetryLimit THEN "gaveup" ELSE "load"
<1>2. Retried(j) = [j EXCEPT !.tries = j.tries + 1, !.pc = pc]
  BY DEF Retried
<1> HIDE DEF pc
<1>3. Retried(j).tries = j.tries + 1 /\ Retried(j).op = j.op /\ Retried(j).pc = pc
      /\ Retried(j).batch = j.batch /\ Retried(j).patch = j.patch
  BY <1>2 DEF Jobs
<1>4. pc \in {"gaveup", "load"} /\ (pc = "load" => j.tries + 1 # CasRetryLimit)
  BY DEF pc
<1>5. j.tries + 1 \in 0..CasRetryLimit
      /\ (j.tries + 1 # CasRetryLimit => j.tries + 1 < CasRetryLimit)
  BY <1>1, StoreAssumption DEF StoreAssumption
<1>6. Retried(j) \in Jobs
  BY <1>2, <1>5, <1>4 DEF Jobs, Pcs
<1>7. JobOK(Retried(j))
  BY <1>1, <1>3, <1>4, <1>5 DEF JobOK
<1> QED
  BY <1>6, <1>7

LEMMA MigratedOK ==
    ASSUME NoneIsNothing, NEW j \in Jobs, JobOK(j), j.pc = "migrate"
    PROVE  /\ Handler(Proceed(j))
           /\ Handler(Proceed([j EXCEPT !.exp = MigratedExpects(j)]))
<1>1. [j EXCEPT !.pc = "load"] \in Jobs /\ JobOK([j EXCEPT !.pc = "load"])
  BY DEF JobOK, Jobs, Pcs
<1>2. j.op \in Writes \cup Reads /\ j.exp \in Session /\ j.data = Usable(j.exp)
  BY DEF JobOK
<1>3. Handler(Proceed(j))
  BY <1>1, <1>2, ProceedOK
<1> DEFINE k == [j EXCEPT !.exp = j.data]
<1>4. k \in Jobs /\ k.data = j.data /\ k.exp = j.data /\ k.pc = "migrate" /\ k.op = j.op
      /\ k.tries = j.tries /\ k.batch = j.batch /\ k.patch = j.patch
  BY DEF Jobs
<1>5. k.data = Usable(k.exp)
  BY <1>2, <1>4, UsableTwice
<1>6. JobOK([k EXCEPT !.pc = "load"])
  BY <1>1, <1>4 DEF JobOK, Jobs
<1>7. k.pc \in Looping /\ k.op \in Writes \cup Reads
  BY <1>2, <1>4
<1>8. Handler(Proceed(k))
  <2> HIDE DEF k
  <2> QED
    BY <1>4, <1>5, <1>6, <1>7, ProceedOK
<1> QED
  BY <1>3, <1>8 DEF MigratedExpects

-----------------------------------------------------------------------------
(* Types *)

HandlersOK == job \in [Workers -> Jobs \cup {Idle}] /\ \A w \in Workers : Handler(job[w])

\* Other handlers keep what they hold when a session is written.
LEMMA NotedOK ==
    ASSUME HandlersOK, NEW id, NEW v \in Workers
    PROVE  /\ Handler(Noted(id)[v])
           /\ job[v] = Idle <=> Noted(id)[v] = Idle
           /\ job[v] # Idle => \A f \in {"pc", "op", "id", "batch", "patch", "data", "exp", "tries"} :
                                  Noted(id)[v][f] = job[v][f]
<1> DEFINE j == [job[v] EXCEPT !.landed = @ + 1]
<1>1. CASE job[v] = Idle
  <2>1. Noted(id)[v] = Idle
    BY <1>1 DEF Noted
  <2> QED
    BY <1>1, <2>1 DEF Handler
<1>2. CASE job[v] # Idle
  <2>1. job[v] \in Jobs /\ JobOK(job[v])
    BY <1>2 DEF HandlersOK, Handler
  <2>2. Noted(id)[v] \in {j, job[v]}
    BY DEF Noted
  <2>3. j \in Jobs
    BY <2>1 DEF Jobs
  <2>4. \A f \in {"pc", "op", "id", "batch", "patch", "data", "exp", "tries"} : j[f] = job[v][f]
    BY <2>1 DEF Jobs
  <2>5. JobOK(j)
    BY <2>1 DEF JobOK, Jobs
  <2> QED
    BY <1>2, <2>1, <2>2, <2>3, <2>4, <2>5, IdleIsNoJob DEF Handler
<1> QED
  BY <1>1, <1>2

LEMMA KeepTypes ==
    ASSUME Types, NEW w \in Workers, NEW next, Handler(next), Keep(w, next),
           sent' \subseteq Batches, ops' \in Nat, faults' \in Nat
    PROVE  Types'
BY DEF Types, Keep, Handler

LEMMA PutTypes ==
    ASSUME Types, NEW w \in Workers, NEW id \in Ids, NEW value \in Session \cup {NoThread},
           NEW next, Handler(next), Put(w, id, value, next),
           sent' \subseteq Batches, ops' \in Nat, faults' \in Nat
    PROVE  Types'
<1>1. kv' \in [Ids -> Session \cup {NoThread}]
  BY DEF Put, Types
<1>2. scan' \in Scans
  BY DEF Put, Types, Scans
<1>3. HandlersOK
  BY DEF Types, HandlersOK, Handler
<1>4. \A v \in Workers : job'[v] = IF v = w THEN next ELSE Noted(id)[v]
  BY DEF Put, Noted
<1>5. \A v \in Workers : Handler(job'[v])
  BY <1>3, <1>4, NotedOK
<1>6. job' \in [Workers -> Jobs \cup {Idle}]
  BY <1>5 DEF Put, Noted, Handler
<1> QED
  BY <1>1, <1>2, <1>5, <1>6 DEF Types, Handler

\* A step of the search other than a heal.
LEMMA QuietTypes ==
    ASSUME Types, Quiet, scan' \in Scans, faults' \in Nat PROVE Types'
BY DEF Types, Quiet

LEMMA MinIsThere ==
    ASSUME NEW S \in SUBSET Ids, S # {}
    PROVE  Min(S) \in S /\ \A x \in S : Min(S) <= x
<1>1. S \subseteq Nat
  BY StoreAssumption DEF StoreAssumption
<1>2. PICK x \in S : \A y \in S : <<y, x>> \notin OpToRel(<, Nat)
  BY <1>1, NatLessThanWellFounded, WFMin
<1>3. ASSUME NEW y \in S PROVE x <= y
  <2>1. ~(y < x)
    BY <1>1, <1>2 DEF OpToRel
  <2> QED
    BY <1>1, <2>1
<1> QED
  BY <1>3 DEF Min

LEMMA ScannedType ==
    ASSUME NEW s \in Scans, s.page # {} PROVE Scanned(s) \in Scans
<1> DEFINE rest == s.page \ {Min(s.page)}
<1>1. Min(s.page) \in Ids /\ rest \in SUBSET Ids
  BY MinIsThere DEF Scans
<1> HIDE DEF rest
<1>2. [s EXCEPT !.pc = "page", !.cursor = Min(s.page), !.n = 0, !.seen = 0] \in Scans
  BY <1>1 DEF Scans
<1>3. [s EXCEPT !.pc = "key", !.page = rest] \in Scans
  BY <1>1 DEF Scans
<1>4. ASSUME NEW pc \in {"page", "done"}
      PROVE  [s EXCEPT !.pc = pc, !.cursor = Min(s.page)] \in Scans
  BY <1>1 DEF Scans
<1>5. [s EXCEPT !.pc = IF s.more THEN "page" ELSE "done", !.cursor = Min(s.page)] \in Scans
  BY <1>4
<1> QED
  BY <1>2, <1>3, <1>5 DEF Scanned, Resume, rest

\* What the search holds after the read of a key, before it moves on.
Found(v) ==
    LET hit == IF Matches(Usable(v)) THEN 1 ELSE 0
    IN  [scan EXCEPT !.seen = @ + 1, !.n = @ + hit, !.exp = v,
                     !.hits = IF hit = 1 THEN Append(@, Min(scan.page)) ELSE @]

LEMMA FoundType ==
    ASSUME scan \in Scans, scan.page # {}, NEW v \in Session \cup {NoThread}
    PROVE  /\ Found(v) \in Scans /\ Found(v).page = scan.page /\ Found(v).exp = v
           /\ Found(v).must = scan.must /\ Found(v).more = scan.more
           /\ Found(v).cursor = scan.cursor
           /\ Found(v).hits = IF Matches(Usable(v)) THEN Append(scan.hits, Min(scan.page))
                              ELSE scan.hits
<1> DEFINE hit == IF Matches(Usable(v)) THEN 1 ELSE 0
           hits == IF hit = 1 THEN Append(scan.hits, Min(scan.page)) ELSE scan.hits
<1>1. Min(scan.page) \in Ids
  BY MinIsThere DEF Scans
<1>2. hits \in Seq(Ids)
  BY <1>1 DEF Scans
<1>3. hit \in Nat /\ scan.n + hit \in Nat /\ scan.seen + 1 \in Nat
  BY DEF Scans
<1>4. Found(v) = [scan EXCEPT !.seen = scan.seen + 1, !.n = scan.n + hit, !.exp = v,
                              !.hits = hits]
  BY DEF Found
<1>5. hits = IF Matches(Usable(v)) THEN Append(scan.hits, Min(scan.page)) ELSE scan.hits
  OBVIOUS
<1> HIDE DEF hit, hits
<1> QED
  BY <1>2, <1>3, <1>4, <1>5 DEF Scans

LEMMA SearchedIs ==
    ASSUME NEW v
    PROVE  Searched(v) = IF v # NoThread /\ v.kind = "v1"
                         THEN [Found(v) EXCEPT !.pc = "heal"] ELSE Scanned(Found(v))
BY DEF Searched, Found

LEMMA SearchedType ==
    ASSUME scan \in Scans, scan.page # {}, NEW v \in Session \cup {NoThread}
    PROVE  Searched(v) \in Scans
<1>1. [Found(v) EXCEPT !.pc = "heal"] \in Scans
  BY FoundType DEF Scans
<1>2. Scanned(Found(v)) \in Scans
  BY FoundType, ScannedType
<1> QED
  BY <1>1, <1>2, SearchedIs

\* The search holds a page while it scans, and an old session while it heals.
SearchOK ==
    /\ scan.pc \in {"key", "heal"} => scan.page # {}
    /\ scan.pc = "heal" => scan.exp \in Session /\ scan.exp.kind = "v1"
    /\ scan.pc = "off" => scan.hits = <<>> /\ scan.cursor = 0

TInv == Types /\ SearchOK

LEMMA ScannedOK ==
    ASSUME NEW s \in Scans, s.page # {}
    PROVE  /\ Scanned(s).pc \in {"page", "key", "done"}
           /\ Scanned(s).pc = "key" => Scanned(s).page = s.page \ {Min(s.page)}
                                       /\ Scanned(s).page # {}
           /\ Scanned(s).pc = "page" => Scanned(s).cursor = Min(s.page)
           /\ Scanned(s).pc = "page" => \/ s.n >= SearchLimit \/ s.seen >= ScanBudget
                                        \/ s.page = {Min(s.page)} /\ s.more
           /\ Scanned(s).pc = "done" => s.page = {Min(s.page)} /\ ~s.more
           /\ Scanned(s).more = s.more /\ Scanned(s).must = s.must /\ Scanned(s).hits = s.hits
<1> DEFINE stop == s.n >= SearchLimit \/ s.seen >= ScanBudget
           rest == s.page \ {Min(s.page)}
<1>1. Min(s.page) \in s.page
  BY MinIsThere DEF Scans
<1>2. CASE stop
  <2>1. Scanned(s) = [s EXCEPT !.pc = "page", !.cursor = Min(s.page), !.n = 0, !.seen = 0]
    BY <1>2 DEF Scanned, Resume
  <2> QED
    BY <1>2, <2>1 DEF Scans
<1>3. CASE ~stop /\ rest # {}
  <2>1. Scanned(s) = [s EXCEPT !.pc = "key", !.page = rest]
    BY <1>3 DEF Scanned
  <2> HIDE DEF rest
  <2>2. Scanned(s).pc = "key" /\ Scanned(s).page = rest /\ Scanned(s).more = s.more
        /\ Scanned(s).must = s.must /\ Scanned(s).hits = s.hits
    BY <2>1 DEF Scans
  <2> QED
    BY <1>3, <2>2 DEF rest
<1>4. CASE ~stop /\ rest = {}
  <2>1. Scanned(s) = [s EXCEPT !.pc = IF s.more THEN "page" ELSE "done",
                               !.cursor = Min(s.page)]
    BY <1>4 DEF Scanned
  <2>2. s.page = {Min(s.page)}
    BY <1>1, <1>4
  <2>3. CASE s.more
    <3>1. Scanned(s) = [s EXCEPT !.pc = "page", !.cursor = Min(s.page)]
      BY <2>1, <2>3
    <3> QED
      BY <2>2, <2>3, <3>1 DEF Scans
  <2>4. CASE ~s.more
    <3>1. Scanned(s) = [s EXCEPT !.pc = "done", !.cursor = Min(s.page)]
      BY <2>1, <2>4
    <3> QED
      BY <2>2, <2>4, <3>1 DEF Scans
  <2> QED
    BY <2>3, <2>4
<1> QED
  BY <1>2, <1>3, <1>4

\* The search is where it was, and may only owe less.
LEMMA SearchStays ==
    ASSUME SearchOK, scan \in Scans,
           scan' = scan \/ \E must : scan' = [scan EXCEPT !.must = must]
    PROVE  SearchOK'
BY DEF SearchOK, Scans

LEMMA TypedStart == ASSUME Init PROVE TInv
<1>1. \A v \in Stored : v \in Session
  <2>1. <<OldBatch>> \in Seq(Batches \cup {OldBatch})
    OBVIOUS
  <2>2. StoredKinds \subseteq Kinds
    BY StoreAssumption DEF StoreAssumption, Kinds
  <2> QED
    BY <2>1, <2>2 DEF Stored, Session
<1>2. kv \in [Ids -> Session \cup {NoThread}]
  BY <1>1 DEF Init
<1>3. job \in [Workers -> Jobs \cup {Idle}] /\ \A w \in Workers : job[w] # Idle => JobOK(job[w])
  BY DEF Init
<1>4. scan \in Scans
  BY DEF Init, Scans
<1> QED
  BY <1>2, <1>3, <1>4 DEF Init, TInv, Types, SearchOK

LEMMA FaultType == Types /\ Fault => faults' \in Nat
BY DEF Types, Fault

LEMMA BeginType == Types /\ Begin => ops' \in Nat
BY DEF Types, Begin

LEMMA KeepSound ==
    ASSUME TInv, NEW w \in Workers, NEW next, Handler(next), Keep(w, next),
           sent' \subseteq Batches, ops' \in Nat, faults' \in Nat
    PROVE  TInv'
<1>1. Types'
  BY KeepTypes DEF TInv
<1>2. SearchOK'
  BY SearchStays DEF TInv, Types, Keep
<1> QED
  BY <1>1, <1>2 DEF TInv

LEMMA PutSound ==
    ASSUME TInv, NEW w \in Workers, NEW id \in Ids, NEW value \in Session \cup {NoThread},
           NEW next, Handler(next), Put(w, id, value, next),
           sent' \subseteq Batches, ops' \in Nat, faults' \in Nat
    PROVE  TInv'
<1>1. Types'
  BY PutTypes DEF TInv
<1>2. \E must : scan' = [scan EXCEPT !.must = must]
  BY DEF Put
<1>3. SearchOK'
  BY <1>2, SearchStays DEF TInv, Types
<1> QED
  BY <1>1, <1>3 DEF TInv

LEMMA IdleOK == Handler(Idle)
BY DEF Handler

LEMMA RequestTyped ==
    ASSUME TInv, NEW w \in Workers, NEW op \in Ops, NEW id \in Ids, Request(w, op, id)
    PROVE  TInv'
<1>1. sent \subseteq Batches /\ faults' \in Nat /\ ops' \in Nat
  BY BeginType DEF Request, TInv, Types
<1>2. CASE op \in {"meta", "delete"} /\ Keep(w, Start(op, id, "check")) /\ UNCHANGED sent
  BY <1>1, <1>2, StartOK, KeepSound DEF Handler
<1>3. CASE op = "read" /\ Keep(w, Start(op, id, "load")) /\ UNCHANGED sent
  BY <1>1, <1>3, StartOK, KeepSound DEF Handler
<1>4. ASSUME NEW m \in Batches, op = "append", sent' = sent \cup {m},
             Keep(w, [Start(op, id, "load") EXCEPT !.batch = m])
      PROVE  TInv'
  <2> DEFINE j == [Start(op, id, "load") EXCEPT !.batch = m]
  <2>1. 0 \in 0..CasRetryLimit /\ 0 < CasRetryLimit /\ Fresh(0) \in Session
    BY FreshType, StoreAssumption DEF StoreAssumption
  <2>2. j \in Jobs /\ JobOK(j)
    BY <1>4, <2>1 DEF Start, Jobs, JobOK, Pcs
  <2> QED
    BY <1>1, <1>4, <2>2, KeepSound DEF Handler
<1>5. ASSUME NEW p \in Patches, op = "update", UNCHANGED sent,
             Keep(w, [Start(op, id, "load") EXCEPT !.patch = p])
      PROVE  TInv'
  <2> DEFINE j == [Start(op, id, "load") EXCEPT !.patch = p]
  <2>1. 0 \in 0..CasRetryLimit /\ 0 < CasRetryLimit /\ Fresh(0) \in Session
    BY FreshType, StoreAssumption DEF StoreAssumption
  <2>2. j \in Jobs /\ JobOK(j)
    BY <1>5, <2>1 DEF Start, Jobs, JobOK, Pcs
  <2> QED
    BY <1>1, <1>5, <2>2, KeepSound DEF Handler
<1> QED
  BY <1>2, <1>3, <1>4, <1>5 DEF Request

LEMMA ClearTyped ==
    ASSUME TInv, NEW w \in Workers, NEW old \in Ids, NEW id \in Ids, HandleClear(w, old, id)
    PROVE  TInv'
<1>1. sent' \subseteq Batches /\ ops' \in Nat /\ faults' \in Nat
  BY BeginType, FaultType DEF HandleClear, TInv, Types
<1>2. Fresh(old) \in Session
  BY FreshType
<1>3. Handler(Start("clear", id, "reply")) /\ Handler(Idle)
  BY StartOK, IdleOK DEF Handler, Ops
<1> QED
  BY <1>1, <1>2, <1>3, KeepSound, PutSound DEF HandleClear

\* The handler of a worker that is somewhere.
LEMMA Running ==
    ASSUME Types, NEW w \in Workers, job[w].pc \in Pcs
    PROVE  job[w] \in Jobs /\ JobOK(job[w]) /\ job[w].id \in Ids /\ job[w] # Idle
<1>1. job[w] # Idle
  BY IdleIsNoJob DEF Pcs
<1> QED
  BY <1>1 DEF Types, Jobs

LEMMA CheckTyped == ASSUME TInv, NEW w \in Workers, Check(w) PROVE TInv'
<1>1. job[w] \in Jobs /\ JobOK(job[w]) /\ job[w].pc = "check"
  BY Running DEF Check, TInv, Pcs
<1>2. sent' \subseteq Batches /\ ops' \in Nat /\ faults' \in Nat
  BY FaultType DEF Check, TInv, Types
<1> DEFINE next == [job[w] EXCEPT !.pc = IF job[w].op = "meta" THEN "load" ELSE "purge"]
<1>3. Handler(next)
  <2>1. job[w].op \in {"meta", "delete"} /\ job[w].tries = 0 /\ 0 < CasRetryLimit
    BY <1>1, StoreAssumption DEF JobOK, StoreAssumption
  <2>2. CASE job[w].op = "meta"
    <3>1. next = [job[w] EXCEPT !.pc = "load"]
      BY <2>2
    <3> QED
      BY <1>1, <2>1, <2>2, <3>1 DEF Handler, Jobs, JobOK, Pcs
  <2>3. CASE job[w].op = "delete"
    <3>1. next = [job[w] EXCEPT !.pc = "purge"]
      BY <2>3
    <3> QED
      BY <1>1, <2>1, <2>3, <3>1 DEF Handler, Jobs, JobOK, Pcs
  <2> QED
    BY <2>1, <2>2, <2>3
<1>4. Keep(w, next) \/ Keep(w, Idle)
  BY DEF Check
<1> QED
  BY <1>2, <1>3, <1>4, IdleOK, KeepSound

LEMMA PurgeTyped == ASSUME TInv, NEW w \in Workers, Purge(w) PROVE TInv'
<1>1. job[w] \in Jobs /\ job[w].id \in Ids
  BY Running DEF Purge, TInv, Pcs
<1>2. sent' \subseteq Batches /\ ops' \in Nat /\ faults' \in Nat
  BY FaultType DEF Purge, TInv, Types
<1>3. Handler(Replies(job[w], Fresh(0)))
  BY <1>1, RepliesOK, FreshType DEF Handler
<1> QED
  BY <1>1, <1>2, <1>3, IdleOK, KeepSound, PutSound DEF Purge

LEMMA LoadTyped == ASSUME TInv, NEW w \in Workers, Load(w) PROVE TInv'
<1>1. job[w] \in Jobs /\ JobOK(job[w]) /\ job[w].pc = "load" /\ job[w].id \in Ids
  BY Running DEF Load, TInv, Pcs
<1>2. sent' \subseteq Batches /\ ops' \in Nat /\ faults' \in Nat
  BY FaultType DEF Load, TInv, Types
<1>3. PICK v \in Session \cup {NoThread} : Keep(w, Loaded(job[w], v))
  BY <1>1 DEF Load, TInv, Types
<1> QED
  BY <1>1, <1>2, <1>3, LoadedOK, KeepSound

LEMMA MigrateTyped ==
    ASSUME NoneIsNothing, TInv, NEW w \in Workers, MigrateStored(w) PROVE TInv'
<1>1. job[w] \in Jobs /\ JobOK(job[w]) /\ job[w].pc = "migrate" /\ job[w].id \in Ids
  BY Running DEF MigrateStored, TInv, Pcs
<1>2. sent' \subseteq Batches /\ ops' \in Nat /\ faults' \in Nat
  BY FaultType DEF MigrateStored, TInv, Types
<1>3. job[w].data \in Session
  BY <1>1 DEF Jobs
<1>4. Handler(Proceed(job[w])) /\ Handler(Proceed([job[w] EXCEPT !.exp = MigratedExpects(job[w])]))
  BY <1>1, MigratedOK
<1> QED
  BY <1>1, <1>2, <1>3, <1>4, KeepSound, PutSound DEF MigrateStored

LEMMA WriteTyped == ASSUME TInv, NEW w \in Workers, Write(w) PROVE TInv'
<1>1. job[w] \in Jobs /\ JobOK(job[w]) /\ job[w].pc = "write" /\ job[w].id \in Ids
  BY Running DEF Write, TInv, Pcs
<1>2. sent' \subseteq Batches /\ ops' \in Nat /\ faults' \in Nat
  BY FaultType DEF Write, TInv, Types
<1>3. Mutated(job[w]) \in Session
  BY <1>1, MutatedType
<1>4. Handler(Replies(job[w], Mutated(job[w]))) /\ Handler(Retried(job[w]))
  BY <1>1, <1>3, RepliesOK, RetriedOK DEF Handler
<1> QED
  BY <1>1, <1>2, <1>3, <1>4, IdleOK, KeepSound, PutSound DEF Write

LEMMA FinishTyped == ASSUME TInv, NEW w \in Workers, Finish(w) PROVE TInv'
BY IdleOK, KeepSound DEF Finish, TInv, Types

LEMMA SearchBeginsTyped == ASSUME TInv, SearchBegins PROVE TInv'
<1>1. scan' = [scan EXCEPT !.pc = "page", !.must = Matching(kv)]
  BY DEF SearchBegins
<1>2. Matching(kv) \in SUBSET Ids
  BY DEF Matching
<1>3. scan' \in Scans /\ SearchOK'
  BY <1>1, <1>2 DEF TInv, Types, Scans, SearchOK
<1> QED
  BY <1>3 DEF SearchBegins, TInv, Types

LEMMA SearchPageTyped == ASSUME TInv, SearchPage PROVE TInv'
<1> DEFINE keys == Listed(scan.cursor)
           pc == IF keys = {} THEN "done" ELSE "key"
           more == keys # After(scan.cursor)
<1>1. scan' = [scan EXCEPT !.pc = pc, !.page = keys, !.more = more]
  BY DEF SearchPage
<1>2. keys \in SUBSET Ids /\ more \in BOOLEAN
  BY DEF Listed, After
<1>3. pc \in {"done", "key"} /\ (pc = "key" => keys # {})
  OBVIOUS
<1> HIDE DEF keys, more, pc
<1>4. scan' \in Scans /\ SearchOK'
  BY <1>1, <1>2, <1>3 DEF TInv, Types, Scans, SearchOK
<1> QED
  BY <1>4, QuietTypes DEF SearchPage, TInv, Types

LEMMA SearchKeyTyped == ASSUME TInv, SearchKey PROVE TInv'
<1>1. PICK v \in Session \cup {NoThread} : scan' = Searched(v)
  <2>1. scan.page # {} /\ scan.page \in SUBSET Ids
    BY DEF SearchKey, TInv, SearchOK, Types, Scans
  <2>2. kv[Min(scan.page)] \in Session \cup {NoThread}
    BY <2>1, MinIsThere DEF TInv, Types
  <2> QED
    BY <2>2 DEF SearchKey
<1>2. scan \in Scans /\ scan.page # {}
  BY DEF SearchKey, TInv, SearchOK, Types
<1>3. scan' \in Scans
  BY <1>1, <1>2, SearchedType
<1>4. SearchOK'
  <2>1. CASE v # NoThread /\ v.kind = "v1"
    <3>1. scan' = [Found(v) EXCEPT !.pc = "heal"]
      BY <1>1, <2>1, SearchedIs
    <3> QED
      BY <1>2, <2>1, <3>1, FoundType DEF SearchOK, Scans
  <2>2. CASE ~(v # NoThread /\ v.kind = "v1")
    <3>1. scan' = Scanned(Found(v))
      BY <1>1, <2>2, SearchedIs
    <3> QED
      BY <1>2, <3>1, FoundType, ScannedOK DEF SearchOK
  <2> QED
    BY <2>1, <2>2
<1>5. faults' \in Nat /\ Quiet
  BY FaultType DEF SearchKey, TInv, Types
<1> QED
  BY <1>3, <1>4, <1>5, QuietTypes DEF TInv

LEMMA SearchHealTyped == ASSUME NoneIsNothing, TInv, SearchHeal PROVE TInv'
<1>1. scan \in Scans /\ scan.page # {} /\ scan.exp \in Session
      /\ scan' = Scanned(scan) /\ scan.page \in SUBSET Ids
  BY DEF SearchHeal, TInv, SearchOK, Types, Scans
<1>2. scan' \in Scans /\ SearchOK'
  BY <1>1, ScannedType, ScannedOK DEF SearchOK
<1>3. sent' \subseteq Batches /\ ops' \in Nat /\ faults' \in Nat
  BY FaultType DEF SearchHeal, TInv, Types
<1> DEFINE id == Min(scan.page)
<1>4. CASE UNCHANGED <<kv, job>>
  BY <1>2, <1>3, <1>4 DEF TInv, Types
<1>5. CASE kv' = [kv EXCEPT ![id] = Migrated(scan.exp)] /\ job' = Noted(id)
  <2>1. kv' \in [Ids -> Session \cup {NoThread}]
    BY <1>1, <1>5, UsableType DEF TInv, Types
  <2>2. HandlersOK
    BY DEF TInv, Types, HandlersOK, Handler
  <2>3. \A v \in Workers : Handler(job'[v])
    BY <1>5, <2>2, NotedOK
  <2>4. job' \in [Workers -> Jobs \cup {Idle}]
    BY <1>5, <2>3 DEF Noted, Handler
  <2> QED
    BY <1>2, <1>3, <2>1, <2>3, <2>4 DEF TInv, Types, Handler
<1> QED
  BY <1>4, <1>5 DEF SearchHeal

\* The steps of worker w.
HandlerStep(w) ==
    \/ \E id \in Ids, op \in Ops : Request(w, op, id)
    \/ \E old, id \in Ids : HandleClear(w, old, id)
    \/ Check(w) \/ Purge(w) \/ Load(w) \/ MigrateStored(w) \/ Write(w) \/ Finish(w)

SearchStep == SearchBegins \/ SearchPage \/ SearchKey \/ SearchHeal

LEMMA TypesKept == ASSUME NoneIsNothing, TInv, [Next]_vars PROVE TInv'
<1>1. ASSUME NEW w \in Workers, HandlerStep(w) PROVE TInv'
  BY <1>1, RequestTyped, ClearTyped, CheckTyped, PurgeTyped, LoadTyped, MigrateTyped,
     WriteTyped, FinishTyped DEF HandlerStep
<1>2. CASE SearchStep
  BY <1>2, SearchBeginsTyped, SearchPageTyped, SearchKeyTyped, SearchHealTyped DEF SearchStep
<1>3. CASE UNCHANGED vars
  BY <1>3 DEF vars, TInv, Types, SearchOK
<1> QED
  BY <1>1, <1>2, <1>3 DEF Next, HandlerStep, SearchStep

LEMMA AlwaysTyped == Spec => []TInv
<1>1. Init => TInv
  BY TypedStart
<1>2. TInv /\ [Next]_vars => TInv'
  BY TypesKept, NoneAssumption
<1> QED
  BY <1>1, <1>2, PTL DEF Spec

\* Sessions, handlers and the search keep their shape; in particular modify_atomic
\* and modify_existing try their CAS at most CAS_RETRY_LIMIT times.
THEOREM TypeCorrect == Spec => []TypeOK
<1>1. TInv => TypeOK
  BY DEF TInv, Types, TypeOK, Scans
<1> QED
  BY <1>1, AlwaysTyped, PTL

-----------------------------------------------------------------------------
(* Contention *)

\* A handler has lost at most as many races as others have won, and what it is
\* about to compare with is what is stored, or one more race is lost already.
Beaten(w) == job[w] # Idle =>
    /\ job[w].tries <= job[w].landed + faults
    /\ job[w].pc \in {"migrate", "write"} /\ job[w].op \in Writes =>
          \/ kv[job[w].id] = job[w].exp
          \/ job[w].tries < job[w].landed + faults

LEMMA NotedLanded ==
    ASSUME HandlersOK, NEW id, NEW v \in Workers, job[v] # Idle
    PROVE  Noted(id)[v].landed = IF job[v].id = id /\ job[v].op \in Writes
                                 THEN job[v].landed + 1 ELSE job[v].landed
<1>1. job[v] \in Jobs
  BY DEF HandlersOK, Handler
<1> QED
  BY <1>1 DEF Noted, Jobs

\* A write to a session counts against every other handler of it.
LEMMA NotedBeaten ==
    ASSUME Types, NEW v \in Workers, Beaten(v), NEW id \in Ids, job'[v] = Noted(id)[v],
           \A k \in Ids \ {id} : kv'[k] = kv[k], faults' \in Nat, faults <= faults'
    PROVE  Beaten(v)'
<1>1. HandlersOK
  BY DEF Types, HandlersOK, Handler
<1>2. CASE job[v] = Idle
  BY <1>1, <1>2, NotedOK DEF Beaten
<1>3. CASE job[v] # Idle
  <2>1. job[v] \in Jobs /\ JobOK(job[v]) /\ faults \in Nat
    BY <1>3 DEF Types
  <2>2. job[v].tries \in Nat /\ job[v].landed \in Nat /\ job[v].id \in Ids
    BY <2>1, StoreAssumption DEF Jobs, StoreAssumption
  <2>3. /\ job'[v].pc = job[v].pc /\ job'[v].op = job[v].op /\ job'[v].id = job[v].id
        /\ job'[v].exp = job[v].exp /\ job'[v].tries = job[v].tries
    BY <1>1, <1>3, NotedOK
  <2>4. job'[v].landed = IF job[v].id = id /\ job[v].op \in Writes
                         THEN job[v].landed + 1 ELSE job[v].landed
    BY <1>1, <1>3, NotedLanded
  <2> QED
    BY <1>3, <2>1, <2>2, <2>3, <2>4 DEF Beaten
<1> QED
  BY <1>2, <1>3

\* What a step of w does to the others, by writing or by not writing.
LEMMA OthersBeaten ==
    ASSUME Types, NEW w \in Workers, NEW v \in Workers \ {w}, Beaten(v), NEW next,
           \/ Keep(w, next)
           \/ \E id \in Ids, value \in Session \cup {NoThread} : Put(w, id, value, next),
           faults' \in Nat, faults <= faults'
    PROVE  Beaten(v)'
<1>1. CASE Keep(w, next)
  <2>1. job'[v] = job[v] /\ kv' = kv
    BY <1>1 DEF Keep, Types
  <2>2. job[v] # Idle => job[v].tries \in Nat /\ job[v].landed \in Nat
    BY StoreAssumption DEF Types, Jobs, StoreAssumption
  <2> QED
    BY <2>1, <2>2 DEF Beaten, Types
<1>2. ASSUME NEW id \in Ids, NEW value \in Session \cup {NoThread}, Put(w, id, value, next)
      PROVE  Beaten(v)'
  <2>1. job'[v] = Noted(id)[v] /\ \A k \in Ids \ {id} : kv'[k] = kv[k]
    BY <1>2 DEF Put, Noted, Types
  <2> QED
    BY <2>1, NotedBeaten
<1> QED
  BY <1>1, <1>2

LEMMA OwnNext ==
    ASSUME Types, NEW w \in Workers, NEW next,
           \/ Keep(w, next)
           \/ \E id \in Ids, value \in Session \cup {NoThread} : Put(w, id, value, next)
    PROVE  job'[w] = next
BY DEF Keep, Put, Types, Noted

\* A handler that has not tried yet and does not compare next has not lost.
LEMMA UntriedBeaten ==
    ASSUME NEW w \in Workers, job'[w] \in Jobs, job'[w].tries = 0,
           job'[w].pc \notin {"migrate", "write"} \/ job'[w].op \notin Writes, faults' \in Nat
    PROVE  Beaten(w)'
BY DEF Beaten, Jobs

\* The step of w: it goes on as next, and all other handlers as they were.
StepTo(w, next) ==
    /\ \/ Keep(w, next)
       \/ \E id \in Ids, value \in Session \cup {NoThread} : Put(w, id, value, next)
    /\ faults' = faults \/ faults' = faults + 1

LEMMA StepToBeaten ==
    ASSUME Types, \A v \in Workers : Beaten(v), NEW w \in Workers, NEW next, StepTo(w, next),
           next = Idle \/ (next \in Jobs /\ Beaten(w)')
    PROVE  \A v \in Workers : Beaten(v)'
<1>1. faults' \in Nat /\ faults <= faults'
  BY DEF StepTo, Types
<1>2. \A v \in Workers \ {w} : Beaten(v)'
  BY <1>1, OthersBeaten DEF StepTo
<1>3. job'[w] = next
  BY OwnNext DEF StepTo
<1>4. Beaten(w)'
  BY <1>3 DEF Beaten
<1> QED
  BY <1>2, <1>4

LEMMA UntriedStep ==
    ASSUME Types, \A v \in Workers : Beaten(v), NEW w \in Workers, NEW next, StepTo(w, next),
           next = Idle \/ (/\ next \in Jobs /\ next.tries = 0
                           /\ next.pc \notin {"migrate", "write"} \/ next.op \notin Writes)
    PROVE  \A v \in Workers : Beaten(v)'
<1>1. job'[w] = next /\ faults' \in Nat
  BY OwnNext DEF StepTo, Types
<1>2. ASSUME next # Idle PROVE next \in Jobs /\ Beaten(w)'
  BY <1>1, <1>2, UntriedBeaten
<1> QED
  BY <1>2, StepToBeaten

BInv == TInv /\ \A w \in Workers : Beaten(w)

LEMMA FaultSteps == Fault => faults' = faults + 1
BY DEF Fault

LEMMA StartUntried == \A op, id, pc : Start(op, id, pc).tries = 0 /\ Start(op, id, pc).pc = pc
BY DEF Start

LEMMA RequestBeaten ==
    ASSUME BInv, NEW w \in Workers, NEW op \in Ops, NEW id \in Ids, Request(w, op, id)
    PROVE  \A v \in Workers : Beaten(v)'
<1>1. TInv' /\ faults' = faults
  BY RequestTyped DEF BInv, Request
<1>2. PICK next : Keep(w, next) /\ next.tries = 0 /\ next.pc \in {"check", "load"}
  <2>1. ASSUME NEW m \in Batches, Keep(w, [Start(op, id, "load") EXCEPT !.batch = m])
        PROVE  \E next : Keep(w, next) /\ next.tries = 0 /\ next.pc \in {"check", "load"}
    <3>1. /\ [Start(op, id, "load") EXCEPT !.batch = m].tries = 0
          /\ [Start(op, id, "load") EXCEPT !.batch = m].pc = "load"
      BY DEF Start
    <3> QED
      BY <2>1, <3>1
  <2>2. ASSUME NEW p \in Patches, Keep(w, [Start(op, id, "load") EXCEPT !.patch = p])
        PROVE  \E next : Keep(w, next) /\ next.tries = 0 /\ next.pc \in {"check", "load"}
    <3>1. /\ [Start(op, id, "load") EXCEPT !.patch = p].tries = 0
          /\ [Start(op, id, "load") EXCEPT !.patch = p].pc = "load"
      BY DEF Start
    <3> QED
      BY <2>2, <3>1
  <2>3. ASSUME NEW pc \in {"check", "load"}, Keep(w, Start(op, id, pc))
        PROVE  \E next : Keep(w, next) /\ next.tries = 0 /\ next.pc \in {"check", "load"}
    BY <2>3, StartUntried
  <2> QED
    BY <2>1, <2>2, <2>3 DEF Request
<1>3. next = Idle \/ next \in Jobs
  BY <1>1, <1>2, OwnNext DEF BInv, TInv, Types
<1> QED
  BY <1>1, <1>2, <1>3, UntriedStep DEF StepTo, BInv, TInv

LEMMA ClearBeaten ==
    ASSUME BInv, NEW w \in Workers, NEW old \in Ids, NEW id \in Ids, HandleClear(w, old, id)
    PROVE  \A v \in Workers : Beaten(v)'
<1>1. Fresh(old) \in Session
  BY FreshType
<1>2. PICK next \in {Idle, Start("clear", id, "reply")} : StepTo(w, next)
  BY <1>1, FaultSteps DEF HandleClear, StepTo
<1>3. Start("clear", id, "reply") \in Jobs
  BY StartOK DEF Ops
<1> QED
  BY <1>2, <1>3, StartUntried, UntriedStep DEF BInv, TInv

LEMMA CheckBeaten == ASSUME BInv, NEW w \in Workers, Check(w) PROVE \A v \in Workers : Beaten(v)'
<1>1. job[w] \in Jobs /\ JobOK(job[w]) /\ job[w].pc = "check"
  BY Running DEF Check, BInv, TInv, Pcs
<1>2. TInv'
  BY CheckTyped DEF BInv
<1> DEFINE next == [job[w] EXCEPT !.pc = IF job[w].op = "meta" THEN "load" ELSE "purge"]
<1>3. next.tries = 0 /\ next.op \notin Writes
  BY <1>1 DEF JobOK, Jobs
<1>4. StepTo(w, next) \/ StepTo(w, Idle)
  BY FaultSteps DEF Check, StepTo
<1>5. ASSUME StepTo(w, next) PROVE next = Idle \/ next \in Jobs
  BY <1>2, <1>5, OwnNext DEF BInv, TInv, Types, StepTo
<1> QED
  BY <1>3, <1>4, <1>5, UntriedStep DEF BInv, TInv

LEMMA PurgeBeaten == ASSUME BInv, NEW w \in Workers, Purge(w) PROVE \A v \in Workers : Beaten(v)'
<1>1. job[w] \in Jobs /\ job[w].id \in Ids
  BY Running DEF Purge, BInv, TInv, Pcs
<1>2. /\ Replies(job[w], Fresh(0)) \in Jobs /\ Replies(job[w], Fresh(0)).tries = 0
      /\ Replies(job[w], Fresh(0)).pc = "reply"
  BY <1>1, RepliesOK, FreshType
<1>3. StepTo(w, Replies(job[w], Fresh(0))) \/ StepTo(w, Idle)
  BY <1>1, FaultSteps DEF Purge, StepTo
<1> QED
  BY <1>2, <1>3, UntriedStep DEF BInv, TInv

\* What a handler that has loaded takes along.
LEMMA ProceedKeeps ==
    ASSUME NEW j \in Jobs, Proceed(j) # Idle
    PROVE  \/ Proceed(j).tries = 0 /\ Proceed(j).pc = "reply"
           \/ /\ Proceed(j).tries = j.tries /\ Proceed(j).landed = j.landed
              /\ Proceed(j).pc = "write" /\ Proceed(j).op = j.op
              /\ Proceed(j).id = j.id /\ Proceed(j).exp = j.exp
<1>1. CASE j.op \in Writes
  <2>1. Proceed(j) = [j EXCEPT !.pc = "write"]
    BY <1>1 DEF Proceed
  <2> QED
    BY <2>1 DEF Jobs
<1>2. CASE j.op \notin Writes
  BY <1>2, RepliesOK DEF Proceed, Jobs
<1> QED
  BY <1>1, <1>2

LEMMA LoadedKeeps ==
    ASSUME NEW j \in Jobs, JobOK(j), NEW v \in Session \cup {NoThread}, Loaded(j, v) # Idle
    PROVE  \/ Loaded(j, v).tries = 0 /\ Loaded(j, v).pc = "reply"
           \/ /\ Loaded(j, v).tries = j.tries /\ Loaded(j, v).landed = j.landed
              /\ Loaded(j, v).pc \in {"migrate", "write"} /\ Loaded(j, v).op = j.op
              /\ Loaded(j, v).id = j.id /\ Loaded(j, v).exp = v
<1> DEFINE k == [j EXCEPT !.data = Usable(v), !.exp = v]
<1>1. k \in Jobs /\ k.exp = v /\ k.tries = j.tries /\ k.landed = j.landed
      /\ k.op = j.op /\ k.id = j.id
  BY UsableType DEF Jobs
<1>2. CASE v # NoThread /\ v.kind = "v1"
  <2>1. Loaded(j, v) = [k EXCEPT !.pc = "migrate"]
    BY <1>2 DEF Loaded
  <2> HIDE DEF k
  <2> QED
    BY <1>1, <2>1 DEF Jobs
<1>3. CASE ~(v # NoThread /\ v.kind = "v1")
  <2>1. Loaded(j, v) = Proceed(k)
    BY <1>3 DEF Loaded
  <2> HIDE DEF k
  <2> QED
    BY <1>1, <2>1, ProceedKeeps
<1> QED
  BY <1>2, <1>3

LEMMA LoadBeaten == ASSUME BInv, NEW w \in Workers, Load(w) PROVE \A v \in Workers : Beaten(v)'
<1>1. job[w] \in Jobs /\ JobOK(job[w]) /\ job[w].pc = "load" /\ job[w].id \in Ids /\ job[w] # Idle
  BY Running DEF Load, BInv, TInv, Pcs
<1>2. PICK v \in Session \cup {NoThread} :
          /\ Keep(w, Loaded(job[w], v))
          /\ \/ v = kv[job[w].id] /\ faults' = faults
             \/ faults' = faults + 1
  BY <1>1, FaultSteps DEF Load, BInv, TInv, Types
<1> DEFINE next == Loaded(job[w], v)
<1>3. StepTo(w, next)
  BY <1>2 DEF StepTo
<1>4. Handler(next) /\ job'[w] = next /\ kv' = kv
  BY <1>1, <1>2, LoadedOK, OwnNext DEF BInv, TInv, Keep
<1> HIDE DEF next
<1>5. ASSUME next # Idle PROVE next \in Jobs /\ Beaten(w)'
  <2>1. next \in Jobs
    BY <1>4, <1>5 DEF Handler
  <2>2. /\ job[w].tries \in Nat /\ job[w].landed \in Nat /\ faults \in Nat
        /\ job[w].tries <= job[w].landed + faults
    BY <1>1, StoreAssumption DEF Jobs, StoreAssumption, BInv, Beaten, TInv, Types
  <2>3. CASE next.tries = 0 /\ next.pc = "reply"
    BY <1>2, <1>4, <2>1, <2>2, <2>3, UntriedBeaten
  <2>4. CASE /\ next.tries = job[w].tries /\ next.landed = job[w].landed
             /\ next.id = job[w].id /\ next.exp = v
    <3>1. /\ job'[w].tries = job[w].tries /\ job'[w].landed = job[w].landed
          /\ job'[w].id = job[w].id /\ job'[w].exp = v
      BY <1>4, <2>4
    <3>2. \/ job'[w].tries < job'[w].landed + faults'
          \/ /\ job'[w].tries <= job'[w].landed + faults'
             /\ kv'[job'[w].id] = job'[w].exp
      BY <1>2, <1>4, <2>2, <3>1
    <3>3. job'[w].tries <= job'[w].landed + faults'
      BY <1>2, <2>2, <3>1
    <3> QED
      BY <2>1, <3>2, <3>3 DEF Beaten
  <2> QED
    BY <1>1, <1>5, <2>1, <2>3, <2>4, LoadedKeeps DEF next
<1> QED
  BY <1>3, <1>5, StepToBeaten DEF BInv, TInv

\* A CAS that expects what is stored wins, unless the call fails.
LEMMA MigrateBeaten ==
    ASSUME NoneIsNothing, BInv, NEW w \in Workers, MigrateStored(w)
    PROVE  \A v \in Workers : Beaten(v)'
<1> DEFINE j == job[w]
           k == [j EXCEPT !.exp = MigratedExpects(j)]
<1>1. j \in Jobs /\ JobOK(j) /\ j.pc = "migrate" /\ j.id \in Ids /\ j # Idle
      /\ j.data \in Session
  BY Running DEF MigrateStored, BInv, TInv, Pcs, Jobs
<1>2. /\ k \in Jobs /\ k.exp = j.data /\ k.tries = j.tries /\ k.landed = j.landed
      /\ k.id = j.id /\ k.op = j.op
  BY <1>1 DEF MigratedExpects, Jobs
<1>3. /\ j.tries \in Nat /\ j.landed \in Nat /\ faults \in Nat
      /\ j.tries <= j.landed + faults
      /\ j.op \in Writes /\ kv[j.id] # j.exp => j.tries < j.landed + faults
  BY <1>1, StoreAssumption DEF Jobs, StoreAssumption, BInv, Beaten, TInv, Types
<1>4. \/ /\ StepTo(w, Proceed(k)) /\ kv'[j.id] = j.data /\ faults' = faults
      \/ /\ StepTo(w, Proceed(j)) /\ kv' = kv /\ kv[j.id] # j.exp /\ faults' = faults
      \/ /\ StepTo(w, Proceed(j)) /\ faults' = faults + 1
  BY <1>1, FaultSteps DEF MigrateStored, StepTo, Put, Keep, BInv, TInv, Types
<1>5. Handler(Proceed(j)) /\ Handler(Proceed(k))
  BY <1>1, MigratedOK
<1> HIDE DEF k
<1>6. ASSUME NEW i \in {j, k}, StepTo(w, Proceed(i)), Proceed(i) # Idle,
             \/ i.tries < i.landed + faults' /\ i.op \in Writes
             \/ i.op \notin Writes
             \/ kv'[i.id] = i.exp /\ faults' = faults
      PROVE  Proceed(i) \in Jobs /\ Beaten(w)'
  <2>1. Proceed(i) \in Jobs /\ job'[w] = Proceed(i) /\ i \in Jobs /\ faults' \in Nat
        /\ (faults' = faults \/ faults' = faults + 1)
    BY <1>1, <1>2, <1>5, <1>6, OwnNext DEF Handler, StepTo, BInv, TInv, Types
  <2>2. i.tries \in Nat /\ i.landed \in Nat /\ i.tries <= i.landed + faults'
    BY <1>2, <1>3, <2>1
  <2>3. CASE Proceed(i).tries = 0 /\ Proceed(i).pc = "reply"
    BY <2>1, <2>3, UntriedBeaten
  <2>4. CASE /\ Proceed(i).tries = i.tries /\ Proceed(i).landed = i.landed
             /\ Proceed(i).op = i.op /\ Proceed(i).id = i.id /\ Proceed(i).exp = i.exp
    <3>1. /\ job'[w].tries = i.tries /\ job'[w].landed = i.landed /\ job'[w].op = i.op
          /\ job'[w].id = i.id /\ job'[w].exp = i.exp
      BY <2>1, <2>4
    <3>2. job'[w].op \in Writes =>
              \/ kv'[job'[w].id] = job'[w].exp
              \/ job'[w].tries < job'[w].landed + faults'
      BY <1>6, <3>1
    <3> QED
      BY <2>1, <2>2, <3>1, <3>2 DEF Beaten
  <2> QED
    BY <1>6, <2>1, <2>3, <2>4, ProceedKeeps
<1>7. CASE StepTo(w, Proceed(k)) /\ kv'[j.id] = j.data /\ faults' = faults
  <2>1. Proceed(k) # Idle => Proceed(k) \in Jobs /\ Beaten(w)'
    BY <1>2, <1>6, <1>7
  <2> QED
    BY <1>7, <2>1, StepToBeaten DEF BInv, TInv
<1>8. CASE /\ StepTo(w, Proceed(j))
           /\ faults' = faults + 1 \/ (kv[j.id] # j.exp /\ faults' = faults)
  <2>1. j.op \in Writes => j.tries < j.landed + faults'
    BY <1>3, <1>8
  <2>2. Proceed(j) # Idle => Proceed(j) \in Jobs /\ Beaten(w)'
    BY <1>6, <1>8, <2>1
  <2> QED
    BY <1>8, <2>2, StepToBeaten DEF BInv, TInv
<1> QED
  BY <1>4, <1>7, <1>8

LEMMA WriteBeaten ==
    ASSUME BInv, NEW w \in Workers, Write(w) PROVE \A v \in Workers : Beaten(v)'
<1> DEFINE j == job[w]
<1>1. j \in Jobs /\ JobOK(j) /\ j.pc = "write" /\ j.id \in Ids /\ j # Idle /\ j.op \in Writes
  BY Running DEF Write, BInv, TInv, Pcs, JobOK
<1>2. Mutated(j) \in Session
  BY <1>1, MutatedType
<1>3. /\ Replies(j, Mutated(j)) \in Jobs /\ Replies(j, Mutated(j)).tries = 0
      /\ Replies(j, Mutated(j)).pc = "reply"
  BY <1>1, <1>2, RepliesOK
<1>4. \/ StepTo(w, Replies(j, Mutated(j)))
      \/ StepTo(w, Idle)
      \/ StepTo(w, Retried(j)) /\ kv[j.id] # j.exp /\ faults' = faults
  BY <1>1, <1>2, FaultSteps DEF Write, StepTo
<1>5. ASSUME StepTo(w, Retried(j)), kv[j.id] # j.exp, faults' = faults
      PROVE  Retried(j) \in Jobs /\ Beaten(w)'
  <2>1. job'[w] = Retried(j) /\ Retried(j) \in Jobs
    BY <1>1, <1>5, OwnNext, RetriedOK DEF StepTo, BInv, TInv
  <2>2. /\ j.tries \in Nat /\ j.landed \in Nat /\ faults \in Nat
        /\ j.tries < j.landed + faults
    BY <1>1, <1>5, StoreAssumption DEF Jobs, StoreAssumption, BInv, Beaten, TInv, Types
  <2>3. /\ Retried(j).tries = j.tries + 1 /\ Retried(j).landed = j.landed
        /\ Retried(j).pc \in {"gaveup", "load"}
    <3> DEFINE pc == IF j.tries + 1 = CasRetryLimit THEN "gaveup" ELSE "load"
    <3>1. Retried(j) = [j EXCEPT !.tries = j.tries + 1, !.pc = pc]
      BY DEF Retried
    <3>2. pc \in {"gaveup", "load"}
      OBVIOUS
    <3> HIDE DEF pc
    <3> QED
      BY <1>1, <3>1, <3>2 DEF Jobs
  <2> QED
    BY <1>5, <2>1, <2>2, <2>3 DEF Beaten
<1>6. CASE StepTo(w, Retried(j)) /\ kv[j.id] # j.exp /\ faults' = faults
  BY <1>5, <1>6, StepToBeaten DEF BInv, TInv
<1>7. CASE StepTo(w, Replies(j, Mutated(j))) \/ StepTo(w, Idle)
  BY <1>3, <1>7, UntriedStep DEF BInv, TInv
<1> QED
  BY <1>4, <1>6, <1>7

LEMMA FinishBeaten ==
    ASSUME BInv, NEW w \in Workers, Finish(w) PROVE \A v \in Workers : Beaten(v)'
BY UntriedStep DEF Finish, StepTo, BInv, TInv

LEMMA SearchBeaten ==
    ASSUME BInv, SearchStep PROVE \A v \in Workers : Beaten(v)'
<1>1. (faults' = faults \/ faults' = faults + 1) /\ faults \in Nat
  BY FaultSteps
     DEF SearchStep, SearchBegins, SearchPage, SearchKey, SearchHeal, BInv, TInv, Types
<1>2. CASE UNCHANGED <<kv, job>>
  <2> SUFFICES ASSUME NEW v \in Workers, job[v] # Idle PROVE Beaten(v)'
    BY <1>2 DEF Beaten
  <2>1. job[v].tries \in Nat /\ job[v].landed \in Nat /\ Beaten(v)
    BY StoreAssumption DEF BInv, TInv, Types, Jobs, StoreAssumption
  <2> QED
    BY <1>1, <1>2, <2>1 DEF Beaten
<1>3. CASE \E value : kv' = [kv EXCEPT ![Min(scan.page)] = value] /\ job' = Noted(Min(scan.page))
  <2> SUFFICES ASSUME SearchHeal PROVE \A v \in Workers : Beaten(v)'
    BY <1>2 DEF SearchStep, SearchBegins, SearchPage, SearchKey, Quiet
  <2>1. Min(scan.page) \in Ids
    BY MinIsThere DEF SearchHeal, BInv, TInv, SearchOK, Types, Scans
  <2>2. \A k \in Ids \ {Min(scan.page)} : kv'[k] = kv[k]
    BY <1>3, <2>1 DEF BInv, TInv, Types
  <2>3. faults' \in Nat /\ faults <= faults'
    BY <1>1
  <2> QED
    BY <1>3, <2>1, <2>2, <2>3, NotedBeaten DEF BInv, TInv
<1> QED
  BY <1>2, <1>3 DEF SearchStep, SearchBegins, SearchPage, SearchKey, SearchHeal, Quiet

\* modify_atomic, modify_existing: a handler that gives up after CAS_RETRY_LIMIT
\* attempts lost each of them to a write of somebody else, or to a KV call that
\* failed; it never loses to its own migration.
THEOREM GivingUpIsContention == Spec => []RetriesMeanContention
<1>1. Init => BInv
  BY TypedStart DEF Init, BInv, Beaten
<1>2. BInv /\ [Next]_vars => BInv'
  <2>1. BInv /\ [Next]_vars => TInv'
    BY TypesKept, NoneAssumption DEF BInv
  <2>2. ASSUME BInv, NEW w \in Workers, HandlerStep(w) PROVE \A v \in Workers : Beaten(v)'
    BY <2>2, RequestBeaten, ClearBeaten, CheckBeaten, PurgeBeaten, LoadBeaten,
       MigrateBeaten, NoneAssumption, WriteBeaten, FinishBeaten DEF HandlerStep
  <2>3. BInv /\ UNCHANGED vars => \A v \in Workers : Beaten(v)'
    BY DEF BInv, Beaten, vars
  <2> QED
    BY <2>1, <2>2, <2>3, SearchBeaten DEF Next, HandlerStep, SearchStep, BInv
<1>3. BInv => RetriesMeanContention
  BY DEF BInv, Beaten, RetriesMeanContention
<1> QED
  BY <1>1, <1>2, <1>3, PTL DEF Spec

-----------------------------------------------------------------------------
(* The store of threads *)

thread == [id \in Ids |-> View(kv[id])]
AnswerOf(j) == IF Replying(j) THEN View(j.data) ELSE NoAnswer
answer == [w \in Workers |-> AnswerOf(job[w])]

LEMMA ViewType ==
    ASSUME NoneIsNothing, NEW v \in Session \cup {NoThread}
    PROVE  /\ View(v) \in Threads!Thread \cup {NoThread}
           /\ View(v) = NoThread <=> v = NoThread
<1>1. CASE v = NoThread
  BY <1>1 DEF View
<1>2. CASE v # NoThread
  <2>1. View(v) = [msgs |-> Usable(v).msgs, title |-> Usable(v).title,
                   archived |-> Usable(v).archived, parent |-> Usable(v).parent]
    BY <1>2 DEF View
  <2>2. Usable(v) \in Session
    BY UsableType
  <2>3. View(v) \in Threads!Thread
    BY <2>1, <2>2 DEF Session, Threads!Thread
  <2> QED
    BY <1>2, <2>3 DEF NoneIsNothing, Threads!Thread
<1> QED
  BY <1>1, <1>2

LEMMA ViewFresh ==
    ASSUME NoneIsNothing, NEW p \in Ids \cup {0}
    PROVE  View(Fresh(p)) = Threads!EmptyThread(p)
<1>1. Fresh(p) # NoThread
  BY FreshType DEF NoneIsNothing
<1>2. Usable(Fresh(p)) = Fresh(p)
  BY <1>1 DEF Usable, Migrated, Fresh
<1>3. /\ Fresh(p).msgs = <<>> /\ Fresh(p).title = FALSE /\ Fresh(p).archived = FALSE
      /\ Fresh(p).parent = p
  BY DEF Fresh
<1> QED
  BY <1>1, <1>2, <1>3 DEF View, Threads!EmptyThread

\* What load makes of a key's value is what a reader of the thread sees.
LEMMA ViewUsable ==
    ASSUME NoneIsNothing, NEW v \in Session \cup {NoThread}
    PROVE  View(Usable(v)) = Threads!Seen(View(v))
<1>1. CASE v = NoThread
  BY <1>1, ViewFresh, ViewType DEF Usable, Threads!Seen
<1>2. CASE v # NoThread
  <2>1. View(v) # NoThread /\ Usable(v) # NoThread /\ Usable(Usable(v)) = Usable(v)
    BY <1>2, ViewType, UsableTwice
  <2> QED
    BY <1>2, <2>1 DEF View, Threads!Seen
<1> QED
  BY <1>1, <1>2

\* What a CAS stores is what the operation makes of the thread.
LEMMA ViewMutated ==
    ASSUME NoneIsNothing, NEW j \in Jobs, JobOK(j), j.pc = "write"
    PROVE  /\ j.op = "append" => View(Mutated(j)) = Threads!Extended(View(j.exp), j.batch)
           /\ j.op = "update" => /\ View(j.exp) # NoThread
                                 /\ View(Mutated(j)) = Threads!Patched(View(j.exp), j.patch)
<1>1. /\ j.exp \in Session \cup {NoThread} /\ j.data \in Session /\ j.data = Usable(j.exp)
      /\ j.data.kind = "v2" /\ j.data # NoThread
  BY UsableTwice DEF JobOK, Jobs
<1>2. View(j.data) = Threads!Seen(View(j.exp))
  BY <1>1, ViewUsable
<1>3. Mutated(j) \in Session /\ Mutated(j) # NoThread
  BY MutatedType DEF NoneIsNothing
<1>4. Usable(j.data) = j.data
  BY <1>1, UsableTwice
<1>5. View(j.data) = [msgs |-> j.data.msgs, title |-> j.data.title,
                      archived |-> j.data.archived, parent |-> j.data.parent]
  BY <1>1, <1>4 DEF View
<1>6. ASSUME Mutated(j).kind = "v2"
      PROVE  View(Mutated(j)) = [msgs |-> Mutated(j).msgs, title |-> Mutated(j).title,
                      archived |-> Mutated(j).archived, parent |-> Mutated(j).parent]
  <2>1. Usable(Mutated(j)) = Mutated(j)
    BY <1>3, <1>6 DEF Usable, Migrated, Session
  <2> QED
    BY <1>3, <2>1 DEF View
<1>7. CASE j.op = "append"
  <2>1. /\ Mutated(j).kind = "v2" /\ Mutated(j).msgs = Append(j.data.msgs, j.batch)
        /\ Mutated(j).title = j.data.title /\ Mutated(j).archived = j.data.archived
        /\ Mutated(j).parent = j.data.parent
    BY <1>1, <1>7 DEF Mutated, Session
  <2>2. Threads!Extended(View(j.exp), j.batch)
            = [msgs |-> Append(j.data.msgs, j.batch), title |-> j.data.title,
               archived |-> j.data.archived, parent |-> j.data.parent]
    <3>1. View(j.data).msgs = j.data.msgs
      BY <1>5
    <3>2. Threads!Extended(View(j.exp), j.batch)
              = [View(j.data) EXCEPT !.msgs = Append(View(j.data).msgs, j.batch)]
      BY <1>2 DEF Threads!Extended
    <3>3. [View(j.data) EXCEPT !.msgs = Append(j.data.msgs, j.batch)]
              = [[msgs |-> j.data.msgs, title |-> j.data.title, archived |-> j.data.archived,
                  parent |-> j.data.parent] EXCEPT !.msgs = Append(j.data.msgs, j.batch)]
      BY <1>5
    <3>4. [[msgs |-> j.data.msgs, title |-> j.data.title, archived |-> j.data.archived,
            parent |-> j.data.parent] EXCEPT !.msgs = Append(j.data.msgs, j.batch)]
              = [msgs |-> Append(j.data.msgs, j.batch), title |-> j.data.title,
                 archived |-> j.data.archived, parent |-> j.data.parent]
      OBVIOUS
    <3> QED
      BY <3>1, <3>2, <3>3, <3>4
  <2> QED
    BY <1>6, <1>7, <2>1, <2>2
<1>8. CASE j.op = "update"
  <2>1. View(j.exp) # NoThread
    BY <1>1, <1>8, ViewType DEF JobOK
  <2>2. View(j.exp) = View(j.data)
    BY <1>2, <2>1 DEF Threads!Seen
  <2> DEFINE title == IF "title" \in DOMAIN j.patch THEN j.patch.title ELSE j.data.title
             archived == IF "archived" \in DOMAIN j.patch THEN j.patch.archived
                         ELSE j.data.archived
  <2>3. Mutated(j) = [j.data EXCEPT !.title = title, !.archived = archived]
    BY <1>8 DEF Mutated, Patched
  <2>4. Threads!Patched(View(j.exp), j.patch)
            = [msgs |-> j.data.msgs, title |-> title, archived |-> archived,
               parent |-> j.data.parent]
    <3>1. /\ View(j.data).title = j.data.title /\ View(j.data).archived = j.data.archived
      BY <1>5
    <3>2. Threads!Patched(View(j.data), j.patch)
              = [View(j.data) EXCEPT !.title = title, !.archived = archived]
      BY <3>1 DEF Threads!Patched
    <3> HIDE DEF title, archived
    <3>3. [View(j.data) EXCEPT !.title = title, !.archived = archived]
              = [[msgs |-> j.data.msgs, title |-> j.data.title, archived |-> j.data.archived,
                  parent |-> j.data.parent] EXCEPT !.title = title, !.archived = archived]
      BY <1>5
    <3> QED
      BY <2>2, <3>2, <3>3
  <2> HIDE DEF title, archived
  <2>5. /\ Mutated(j).kind = "v2" /\ Mutated(j).msgs = j.data.msgs
        /\ Mutated(j).title = title /\ Mutated(j).archived = archived
        /\ Mutated(j).parent = j.data.parent
    BY <1>1, <2>3 DEF Session
  <2> QED
    BY <1>6, <1>8, <2>1, <2>4, <2>5
<1> QED
  BY <1>7, <1>8 DEF JobOK

\* A handler answers what it did before another one's write.
LEMMA NotedAnswers ==
    ASSUME HandlersOK, NEW id, NEW v \in Workers
    PROVE  AnswerOf(Noted(id)[v]) = AnswerOf(job[v])
<1>1. CASE job[v] = Idle
  BY <1>1 DEF Noted
<1>2. CASE job[v] # Idle
  <2>1. /\ Noted(id)[v].pc = job[v].pc /\ Noted(id)[v].op = job[v].op
        /\ Noted(id)[v].data = job[v].data
    BY <1>2, NotedOK
  <2> QED
    BY <2>1 DEF AnswerOf, Replying
<1> QED
  BY <1>1, <1>2

LEMMA KeepMaps ==
    ASSUME Types, NEW w \in Workers, NEW next, Keep(w, next)
    PROVE  thread' = thread /\ answer' = [answer EXCEPT ![w] = AnswerOf(next)]
<1>1. kv' = kv /\ job' = [job EXCEPT ![w] = next]
  BY DEF Keep
<1>2. \A v \in Workers : job'[v] = IF v = w THEN next ELSE job[v]
  BY <1>1 DEF Types
<1>3. answer' = [v \in Workers |-> AnswerOf(job'[v])]
  BY DEF answer, AnswerOf, Replying
<1>4. answer' = [answer EXCEPT ![w] = AnswerOf(next)]
  BY <1>2, <1>3 DEF answer
<1>5. thread' = thread
  BY <1>1 DEF thread, View, Usable, Migrated, Fresh
<1> QED
  BY <1>4, <1>5

LEMMA PutMaps ==
    ASSUME Types, NEW w \in Workers, NEW id \in Ids, NEW value, NEW next,
           Put(w, id, value, next)
    PROVE  /\ thread' = [thread EXCEPT ![id] = View(value)]
           /\ answer' = [answer EXCEPT ![w] = AnswerOf(next)]
<1>1. kv' = [kv EXCEPT ![id] = value] /\ job' = [Noted(id) EXCEPT ![w] = next]
  BY DEF Put
<1>2. \A v \in Workers : job'[v] = IF v = w THEN next ELSE Noted(id)[v]
  BY <1>1 DEF Noted
<1>3. answer' = [v \in Workers |-> AnswerOf(job'[v])]
  BY DEF answer, AnswerOf, Replying
<1>4. \A v \in Workers : AnswerOf(Noted(id)[v]) = AnswerOf(job[v])
  BY NotedAnswers DEF Types, HandlersOK, Handler
<1>5. answer' = [answer EXCEPT ![w] = AnswerOf(next)]
  BY <1>2, <1>3, <1>4 DEF answer
<1>6. thread' = [k \in Ids |-> View(kv'[k])]
  BY DEF thread, View, Usable, Migrated, Fresh
<1>7. thread' = [thread EXCEPT ![id] = View(value)]
  BY <1>1, <1>6 DEF thread, Types
<1> QED
  BY <1>5, <1>7

LEMMA AnswerUnchanged ==
    ASSUME NEW w \in Workers, answer' = [answer EXCEPT ![w] = AnswerOf(job[w])]
    PROVE  answer' = answer
BY DEF answer

\* The step of worker w is one of the abstract store, or none.
Simulated == [Threads!Next]_(Threads!vars)

LEMMA Mapping == Threads!vars = <<thread, answer>> /\ Threads!vars' = <<thread', answer'>>
BY DEF Threads!vars, thread, answer, AnswerOf

LEMMA Silent == ASSUME thread' = thread, answer' = answer PROVE Simulated
BY Mapping DEF Simulated

LEMMA NotReplying ==
    ASSUME NEW j, j.pc \notin {"reply", "migrate"} \/ j.op \notin Writes \cup Reads
    PROVE  AnswerOf(j) = NoAnswer
BY DEF AnswerOf, Replying

LEMMA KeepQuietly ==
    ASSUME Types, NEW w \in Workers, NEW next, Keep(w, next),
           AnswerOf(job[w]) = NoAnswer, AnswerOf(next) = NoAnswer
    PROVE  Simulated
BY KeepMaps, AnswerUnchanged, Silent

LEMMA Looked ==
    /\ \A id \in Ids : thread[id] = View(kv[id])
    /\ \A w \in Workers : answer[w] = AnswerOf(job[w])
BY DEF thread, answer

\* The abstract steps, told by what they do to thread and answer.
LEMMA AsAppend ==
    ASSUME NEW w \in Workers, NEW id \in Ids, NEW m \in Batches,
           thread' = [thread EXCEPT ![id] = Threads!Extended(thread[id], m)],
           \/ /\ answer[w] = NoAnswer
              /\ answer' = [answer EXCEPT ![w] = Threads!Extended(thread[id], m)]
           \/ answer' = answer
    PROVE  Simulated
<1>1. Threads!AppendMessages(w, id, m)
  BY DEF Threads!AppendMessages, Threads!Set, Threads!Answering, thread, answer, AnswerOf
<1> QED
  BY <1>1 DEF Simulated, Threads!Next

LEMMA AsRead ==
    ASSUME NEW w \in Workers, NEW id \in Ids, thread' = thread, answer[w] = NoAnswer,
           \/ answer' = [answer EXCEPT ![w] = Threads!Seen(thread[id])]
           \/ answer' = [answer EXCEPT ![w] = Threads!EmptyThread(0)]
    PROVE  Simulated
<1>1. Threads!Read(w, id)
  BY DEF Threads!Read, Threads!Answering, thread, answer, AnswerOf
<1> QED
  BY <1>1 DEF Simulated, Threads!Next

LEMMA AsUpdate ==
    ASSUME NEW w \in Workers, NEW id \in Ids, NEW p \in Patches, thread[id] # NoThread,
           thread' = [thread EXCEPT ![id] = Threads!Patched(thread[id], p)],
           \/ /\ answer[w] = NoAnswer
              /\ answer' = [answer EXCEPT ![w] = Threads!Patched(thread[id], p)]
           \/ answer' = answer
    PROVE  Simulated
<1>1. Threads!Update(w, id, p)
  BY DEF Threads!Update, Threads!Set, Threads!Answering, thread, answer, AnswerOf
<1> QED
  BY <1>1 DEF Simulated, Threads!Next

LEMMA AsDelete ==
    ASSUME NEW id \in Ids, thread' = [thread EXCEPT ![id] = NoThread], answer' = answer
    PROVE  Simulated
<1>1. Threads!Delete(id)
  BY DEF Threads!Delete, Threads!Set, thread, answer, AnswerOf
<1> QED
  BY <1>1 DEF Simulated, Threads!Next

LEMMA AsClear ==
    ASSUME NEW old \in Ids, NEW id \in Ids, thread[id] = NoThread,
           thread' = [thread EXCEPT ![id] = Threads!EmptyThread(old)], answer' = answer
    PROVE  Simulated
<1>1. Threads!Clear(old, id)
  BY DEF Threads!Clear, Threads!Set, thread, answer, AnswerOf
<1> QED
  BY <1>1 DEF Simulated, Threads!Next

LEMMA AsReply ==
    ASSUME NEW w \in Workers, thread' = thread,
           answer' = [answer EXCEPT ![w] = NoAnswer]
    PROVE  Simulated
<1>1. Threads!Reply(w)
  BY DEF Threads!Reply, thread, answer, AnswerOf
<1> QED
  BY <1>1 DEF Simulated, Threads!Next

LEMMA IdleAnswer == AnswerOf(Idle) = NoAnswer
BY NotReplying DEF Idle

LEMMA RequestSimulated ==
    ASSUME TInv, NEW w \in Workers, NEW op \in Ops, NEW id \in Ids, Request(w, op, id)
    PROVE  Simulated
<1>1. PICK next : Keep(w, next) /\ next.pc \in {"check", "load"}
  <2>1. ASSUME NEW m, Keep(w, [Start(op, id, "load") EXCEPT !.batch = m])
        PROVE  \E next : Keep(w, next) /\ next.pc \in {"check", "load"}
    <3>1. [Start(op, id, "load") EXCEPT !.batch = m].pc = "load"
      BY DEF Start
    <3> QED
      BY <2>1, <3>1
  <2>2. ASSUME NEW p, Keep(w, [Start(op, id, "load") EXCEPT !.patch = p])
        PROVE  \E next : Keep(w, next) /\ next.pc \in {"check", "load"}
    <3>1. [Start(op, id, "load") EXCEPT !.patch = p].pc = "load"
      BY DEF Start
    <3> QED
      BY <2>2, <3>1
  <2>3. \A pc \in {"check", "load"} : Start(op, id, pc).pc \in {"check", "load"}
    BY StartUntried
  <2> QED
    BY <2>1, <2>2, <2>3 DEF Request
<1>2. AnswerOf(next) = NoAnswer /\ job[w] = Idle
  BY <1>1, NotReplying DEF Request
<1> QED
  BY <1>1, <1>2, IdleAnswer, KeepQuietly DEF TInv

\* handle_clear makes its new thread with the CAS.
LEMMA ClearSimulated ==
    ASSUME NoneIsNothing, TInv, NEW w \in Workers, NEW old \in Ids, NEW id \in Ids,
           HandleClear(w, old, id)
    PROVE  Simulated
<1>1. AnswerOf(job[w]) = NoAnswer /\ kv[id] = NoThread
  BY IdleAnswer DEF HandleClear
<1>2. AnswerOf(Start("clear", id, "reply")) = NoAnswer
  BY NotReplying DEF Start
<1>3. CASE Keep(w, Idle)
  BY <1>1, <1>3, IdleAnswer, KeepQuietly DEF TInv
<1>4. ASSUME NEW next, AnswerOf(next) = NoAnswer, Put(w, id, Fresh(old), next)
      PROVE  Simulated
  <2>1. thread' = [thread EXCEPT ![id] = Threads!EmptyThread(old)]
    BY <1>4, PutMaps, ViewFresh DEF TInv
  <2>2. answer' = answer
    BY <1>1, <1>4, PutMaps, AnswerUnchanged DEF TInv
  <2>3. thread[id] = NoThread
    BY <1>1, Looked, ViewType
  <2> QED
    BY <2>1, <2>2, <2>3, AsClear
<1> QED
  BY <1>2, <1>3, <1>4, IdleAnswer DEF HandleClear

LEMMA CheckSimulated == ASSUME TInv, NEW w \in Workers, Check(w) PROVE Simulated
<1> DEFINE next == [job[w] EXCEPT !.pc = IF job[w].op = "meta" THEN "load" ELSE "purge"]
<1>1. AnswerOf(job[w]) = NoAnswer
  BY NotReplying DEF Check
<1>2. AnswerOf(next) = NoAnswer
  <2>1. job[w] \in Jobs
    BY Running DEF Check, TInv, Pcs
  <2>2. next.pc \in {"load", "purge"}
    BY <2>1 DEF Jobs
  <2> HIDE DEF next
  <2> QED
    BY <2>2, NotReplying
<1> HIDE DEF next
<1>3. Keep(w, next) \/ Keep(w, Idle)
  BY DEF Check, next
<1> QED
  BY <1>1, <1>2, <1>3, IdleAnswer, KeepQuietly DEF TInv

\* do_delete removes its thread with the kv::delete.
LEMMA PurgeSimulated == ASSUME TInv, NEW w \in Workers, Purge(w) PROVE Simulated
<1>1. job[w] \in Jobs /\ job[w].op = "delete" /\ job[w].id \in Ids
  BY Running DEF Purge, TInv, Pcs, JobOK
<1>2. AnswerOf(job[w]) = NoAnswer /\ AnswerOf(Replies(job[w], Fresh(0))) = NoAnswer
  BY <1>1, NotReplying, RepliesOK, FreshType
<1>3. CASE Keep(w, Idle)
  BY <1>2, <1>3, IdleAnswer, KeepQuietly DEF TInv
<1>4. ASSUME NEW next, AnswerOf(next) = NoAnswer, Put(w, job[w].id, NoThread, next)
      PROVE  Simulated
  <2>1. thread' = [thread EXCEPT ![job[w].id] = NoThread]
    BY <1>1, <1>4, PutMaps DEF TInv, View
  <2>2. answer' = answer
    BY <1>1, <1>2, <1>4, PutMaps, AnswerUnchanged DEF TInv
  <2> QED
    BY <1>1, <2>1, <2>2, AsDelete
<1> QED
  BY <1>2, <1>3, <1>4, IdleAnswer DEF Purge

\* What a handler is about to answer once it goes on with what it loaded.
LEMMA ProceedAnswers ==
    ASSUME NEW j \in Jobs, j.op \in Writes \cup Reads
    PROVE  AnswerOf(Proceed(j)) = IF j.op \in Reads THEN View(j.data) ELSE NoAnswer
<1>1. CASE j.op \in Reads
  <2>1. Proceed(j) = Replies(j, j.data) /\ j.data \in Session
    BY <1>1 DEF Proceed, Jobs
  <2>2. /\ Replies(j, j.data).pc = "reply" /\ Replies(j, j.data).op = j.op
        /\ Replies(j, j.data).data = j.data
    BY <2>1, RepliesOK
  <2> QED
    BY <1>1, <2>1, <2>2 DEF AnswerOf, Replying
<1>2. CASE j.op \in Writes
  <2>1. [j EXCEPT !.pc = "write"].pc = "write"
    BY DEF Jobs
  <2>2. Proceed(j) = Idle \/ Proceed(j) = [j EXCEPT !.pc = "write"]
    BY <1>2 DEF Proceed
  <2> QED
    BY <1>2, <2>1, <2>2, IdleAnswer, NotReplying
<1> QED
  BY <1>1, <1>2

LEMMA LoadedAnswers ==
    ASSUME NoneIsNothing, NEW j \in Jobs, j.op \in Writes \cup Reads,
           NEW v \in Session \cup {NoThread}
    PROVE  AnswerOf(Loaded(j, v)) = IF j.op \in Reads THEN Threads!Seen(View(v)) ELSE NoAnswer
<1> DEFINE k == [j EXCEPT !.data = Usable(v), !.exp = v]
<1>1. k \in Jobs /\ k.data = Usable(v) /\ k.op = j.op
  BY UsableType DEF Jobs
<1>2. View(Usable(v)) = Threads!Seen(View(v))
  BY ViewUsable
<1>3. CASE v # NoThread /\ v.kind = "v1"
  <2>1. Loaded(j, v) = [k EXCEPT !.pc = "migrate"]
    BY <1>3 DEF Loaded
  <2>2. /\ Loaded(j, v).pc = "migrate" /\ Loaded(j, v).op = j.op
        /\ Loaded(j, v).data = Usable(v)
    BY <1>1, <2>1 DEF Jobs
  <2> QED
    BY <1>2, <2>2 DEF AnswerOf, Replying
<1>4. CASE ~(v # NoThread /\ v.kind = "v1")
  <2>1. Loaded(j, v) = Proceed(k)
    BY <1>4 DEF Loaded
  <2> HIDE DEF k
  <2> QED
    BY <1>1, <1>2, <2>1, ProceedAnswers
<1> QED
  BY <1>3, <1>4

\* A read takes effect when it loads.
LEMMA LoadSimulated ==
    ASSUME NoneIsNothing, TInv, NEW w \in Workers, Load(w) PROVE Simulated
<1> DEFINE j == job[w]
<1>1. j \in Jobs /\ j.pc = "load" /\ j.id \in Ids /\ j.op \in Writes \cup Reads
  BY Running DEF Load, TInv, Pcs, JobOK
<1>2. answer[w] = NoAnswer /\ AnswerOf(j) = NoAnswer
  BY <1>1, NotReplying, Looked
<1>3. PICK v \in {kv[j.id], NoThread} : Keep(w, Loaded(j, v))
  BY DEF Load
<1>4. v \in Session \cup {NoThread}
  BY <1>1, <1>3 DEF TInv, Types
<1>5. thread' = thread /\ answer' = [answer EXCEPT ![w] = AnswerOf(Loaded(j, v))]
  BY <1>3, KeepMaps DEF TInv
<1>6. Threads!Seen(View(v)) \in {Threads!Seen(thread[j.id]), Threads!EmptyThread(0)}
  BY <1>1, <1>3, Looked DEF Threads!Seen, View
<1>7. AnswerOf(Loaded(j, v)) = IF j.op \in Reads THEN Threads!Seen(View(v)) ELSE NoAnswer
  BY <1>1, <1>4, LoadedAnswers
<1>8. CASE j.op \in Reads
  BY <1>1, <1>2, <1>5, <1>6, <1>7, <1>8, AsRead
<1>9. CASE j.op \notin Reads
  BY <1>2, <1>3, <1>7, <1>9, KeepQuietly DEF TInv
<1> QED
  BY <1>8, <1>9

\* A handler that goes on after a load has answered already what it answers.
LEMMA MigratingAnswers ==
    ASSUME NEW j \in Jobs, JobOK(j), j.pc = "migrate", NEW e \in Session \cup {NoThread}
    PROVE  AnswerOf(Proceed([j EXCEPT !.exp = e])) = AnswerOf(j)
<1> DEFINE k == [j EXCEPT !.exp = e]
<1>1. k \in Jobs /\ k.op = j.op /\ k.data = j.data /\ j.op \in Writes \cup Reads
  BY DEF Jobs, JobOK
<1>2. AnswerOf(j) = IF j.op \in Reads THEN View(j.data) ELSE NoAnswer
  BY <1>1 DEF AnswerOf, Replying
<1> HIDE DEF k
<1>3. AnswerOf(Proceed(k)) = IF k.op \in Reads THEN View(k.data) ELSE NoAnswer
  BY <1>1, ProceedAnswers
<1> QED
  BY <1>1, <1>2, <1>3 DEF k

\* Storing a migration changes no thread: the bytes change, what they say does not.
LEMMA MigrateSimulated ==
    ASSUME NoneIsNothing, TInv, NEW w \in Workers, MigrateStored(w) PROVE Simulated
<1> DEFINE j == job[w]
           k == [j EXCEPT !.exp = MigratedExpects(j)]
<1>1. /\ j \in Jobs /\ JobOK(j) /\ j.pc = "migrate" /\ j.id \in Ids
      /\ j.exp \in Session /\ j.exp # NoThread /\ j.data = Usable(j.exp) /\ j.data \in Session
  BY Running DEF MigrateStored, TInv, Pcs, JobOK, Jobs, NoneIsNothing
<1>2. AnswerOf(Proceed(k)) = AnswerOf(j)
  BY <1>1, MigratingAnswers DEF MigratedExpects
<1>3. AnswerOf(Proceed(j)) = AnswerOf(j)
  <2>1. [j EXCEPT !.exp = j.exp] = j
    BY <1>1 DEF Jobs
  <2> QED
    BY <1>1, <2>1, MigratingAnswers
<1>4. ASSUME NEW next, AnswerOf(next) = AnswerOf(j),
             Keep(w, next) \/ (kv[j.id] = j.exp /\ Put(w, j.id, j.data, next))
      PROVE  Simulated
  <2>1. answer' = [answer EXCEPT ![w] = AnswerOf(next)]
    BY <1>1, <1>4, KeepMaps, PutMaps DEF TInv
  <2>2. answer' = answer
    BY <1>4, <2>1, AnswerUnchanged
  <2>3. ASSUME kv[j.id] = j.exp, Put(w, j.id, j.data, next) PROVE thread' = thread
    <3>1. View(j.data) = View(j.exp)
      BY <1>1, ViewUsable, ViewType DEF Threads!Seen
    <3>2. thread[j.id] = View(j.data)
      BY <1>1, <2>3, <3>1, Looked
    <3>3. thread' = [thread EXCEPT ![j.id] = View(j.data)]
      BY <1>1, <2>3, PutMaps DEF TInv
    <3> QED
      BY <3>2, <3>3 DEF thread
  <2>4. thread' = thread
    BY <1>4, <2>3, KeepMaps DEF TInv
  <2> QED
    BY <2>2, <2>4, Silent
<1>5. \/ kv[j.id] = j.exp /\ Put(w, j.id, j.data, Proceed(k))
      \/ kv[j.id] = j.exp /\ Put(w, j.id, j.data, Proceed(j))
      \/ Keep(w, Proceed(j))
  BY DEF MigrateStored
<1> HIDE DEF k
<1> QED
  BY <1>2, <1>3, <1>4, <1>5

\* A write takes effect when its CAS does, on the thread it then finds, whatever
\* the handler did before; a CAS that is lost takes no effect at all.
LEMMA WriteSimulated ==
    ASSUME NoneIsNothing, TInv, NEW w \in Workers, Write(w) PROVE Simulated
<1> DEFINE j == job[w]
<1>1. /\ j \in Jobs /\ JobOK(j) /\ j.pc = "write" /\ j.id \in Ids /\ j.op \in Writes
      /\ j.op = "append" => j.batch \in Batches
      /\ j.op = "update" => j.patch \in Patches
  BY Running DEF Write, TInv, Pcs, JobOK
<1>2. answer[w] = NoAnswer /\ AnswerOf(j) = NoAnswer
  BY <1>1, NotReplying, Looked
<1>3. Mutated(j) \in Session
  BY <1>1, MutatedType
<1>4. AnswerOf(Replies(j, Mutated(j))) = View(Mutated(j))
  BY <1>1, <1>3, RepliesOK DEF AnswerOf, Replying
<1>5. AnswerOf(Retried(j)) = NoAnswer
  <2>1. Retried(j).pc \in {"gaveup", "load"}
    <3> DEFINE pc == IF j.tries + 1 = CasRetryLimit THEN "gaveup" ELSE "load"
    <3>1. Retried(j) = [j EXCEPT !.tries = j.tries + 1, !.pc = pc]
      BY DEF Retried
    <3>2. pc \in {"gaveup", "load"}
      OBVIOUS
    <3> HIDE DEF pc
    <3> QED
      BY <1>1, <3>1, <3>2 DEF Jobs
  <2> QED
    BY <2>1, NotReplying
<1>6. ASSUME NEW next, AnswerOf(next) \in {View(Mutated(j)), NoAnswer},
             kv[j.id] = j.exp, Put(w, j.id, Mutated(j), next)
      PROVE  Simulated
  <2>1. thread' = [thread EXCEPT ![j.id] = View(Mutated(j))] /\ thread[j.id] = View(j.exp)
    BY <1>1, <1>6, PutMaps, Looked DEF TInv
  <2>2. \/ answer' = [answer EXCEPT ![w] = View(Mutated(j))]
        \/ answer' = answer
    <3>1. answer' = [answer EXCEPT ![w] = AnswerOf(next)]
      BY <1>1, <1>6, PutMaps DEF TInv
    <3>2. CASE AnswerOf(next) = NoAnswer
      BY <1>2, <3>1, <3>2, AnswerUnchanged
    <3> QED
      BY <1>6, <3>1, <3>2
  <2>3. CASE j.op = "append"
    <3>1. View(Mutated(j)) = Threads!Extended(thread[j.id], j.batch)
      BY <1>1, <2>1, <2>3, ViewMutated
    <3> QED
      BY <1>1, <1>2, <2>1, <2>2, <2>3, <3>1, AsAppend
  <2>4. CASE j.op = "update"
    <3>1. /\ View(Mutated(j)) = Threads!Patched(thread[j.id], j.patch)
          /\ thread[j.id] # NoThread
      BY <1>1, <2>1, <2>4, ViewMutated
    <3> QED
      BY <1>1, <1>2, <2>1, <2>2, <2>4, <3>1, AsUpdate
  <2> QED
    BY <1>1, <2>3, <2>4
<1>7. CASE Keep(w, Retried(j)) \/ Keep(w, Idle)
  BY <1>2, <1>5, <1>7, IdleAnswer, KeepQuietly DEF TInv
<1>8. CASE \/ kv[j.id] = j.exp /\ Put(w, j.id, Mutated(j), Replies(j, Mutated(j)))
           \/ kv[j.id] = j.exp /\ Put(w, j.id, Mutated(j), Idle)
  BY <1>4, <1>6, <1>8, IdleAnswer
<1> QED
  BY <1>7, <1>8 DEF Write

LEMMA FinishSimulated == ASSUME TInv, NEW w \in Workers, Finish(w) PROVE Simulated
<1>1. thread' = thread /\ answer' = [answer EXCEPT ![w] = NoAnswer]
  BY KeepMaps, IdleAnswer DEF Finish, TInv
<1> QED
  BY <1>1, AsReply

\* A search reads, and its migrations change no thread.
LEMMA SearchSimulated ==
    ASSUME NoneIsNothing, TInv, SearchStep PROVE Simulated
<1>1. CASE UNCHANGED <<kv, job>>
  <2>1. thread' = thread /\ answer' = answer
    BY <1>1 DEF thread, answer, View, Usable, Migrated, Fresh, AnswerOf, Replying
  <2> QED
    BY <2>1, Silent
<1> DEFINE id == Min(scan.page)
<1>2. CASE /\ scan.pc = "heal" /\ kv[id] = scan.exp
           /\ kv' = [kv EXCEPT ![id] = Migrated(scan.exp)] /\ job' = Noted(id)
  <2>1. id \in Ids /\ scan.exp \in Session /\ scan.exp # NoThread
    BY <1>2, MinIsThere DEF TInv, SearchOK, Types, Scans, NoneIsNothing
  <2>2. Usable(scan.exp) = Migrated(scan.exp)
    BY <2>1 DEF Usable
  <2>3. View(Migrated(scan.exp)) = View(kv[id])
    BY <1>2, <2>1, <2>2, ViewUsable, ViewType DEF Threads!Seen
  <2>4. thread' = [k \in Ids |-> View(kv'[k])]
    BY DEF thread, View, Usable, Migrated, Fresh
  <2>5. thread' = thread
    BY <1>2, <2>3, <2>4 DEF thread, TInv, Types
  <2>6. answer' = [v \in Workers |-> AnswerOf(job'[v])]
    BY DEF answer, AnswerOf, Replying
  <2>7. answer' = answer
    <3>1. \A v \in Workers : AnswerOf(Noted(id)[v]) = AnswerOf(job[v])
      BY NotedAnswers DEF TInv, Types, HandlersOK, Handler
    <3> QED
      BY <1>2, <2>6, <3>1 DEF answer
  <2> QED
    BY <2>5, <2>7, Silent
<1> QED
  BY <1>1, <1>2
     DEF SearchStep, SearchBegins, SearchPage, SearchKey, SearchHeal, Quiet

LEMMA StepSimulated == ASSUME NoneIsNothing, TInv, [Next]_vars PROVE Simulated
<1>1. ASSUME NEW w \in Workers, HandlerStep(w) PROVE Simulated
  BY <1>1, RequestSimulated, ClearSimulated, CheckSimulated, PurgeSimulated, LoadSimulated,
     MigrateSimulated, WriteSimulated, FinishSimulated DEF HandlerStep
<1>2. CASE UNCHANGED vars
  <2>1. thread' = thread /\ answer' = answer
    BY <1>2 DEF vars, thread, answer, View, Usable, Migrated, Fresh, AnswerOf, Replying
  <2> QED
    BY <2>1, Silent
<1> QED
  BY <1>1, <1>2, SearchSimulated DEF Next, HandlerStep, SearchStep

\* "kv::cas makes the read-modify-write race-free": whatever the handlers that
\* share sessions interleave, migrate, retry or lose, and whichever KV calls
\* fail, each operation of capsule-session takes effect on its thread at once.
THEOREM HandlersAreAtomic == Spec => HandlersImplementThreadStore
<1>1. Init => Threads!Init
  <2> SUFFICES ASSUME Init PROVE Threads!Init
    OBVIOUS
  <2>1. kv \in [Ids -> Session \cup {NoThread}] /\ job = [w \in Workers |-> Idle]
    BY TypedStart DEF TInv, Types, Init
  <2>2. thread \in [Ids -> Threads!Thread \cup {NoThread}]
    BY <2>1, ViewType, NoneAssumption DEF thread
  <2>3. answer = [w \in Workers |-> NoAnswer]
    BY <2>1, IdleAnswer DEF answer
  <2> QED
    BY <2>2, <2>3 DEF Threads!Init, thread, answer, AnswerOf
<1>2. TInv /\ [Next]_vars => [Threads!Next]_(Threads!vars)
  BY StepSimulated, NoneAssumption DEF Simulated
<1> QED
  BY <1>1, <1>2, AlwaysTyped, PTL DEF Spec, Threads!Spec, HandlersImplementThreadStore

-----------------------------------------------------------------------------
(* The search *)

\* The sessions a search has yet to scan, by where it is.
Left(s) ==
    {id \in Ids :
        \/ s.pc = "page" /\ s.cursor < id
        \/ s.pc = "key" /\ id \in s.page
        \/ s.pc = "heal" /\ id \in s.page \ {Min(s.page)}
        \/ s.pc \in {"key", "heal"} /\ s.more /\ \A k \in s.page : k < id}

\* A session the search has scanned.
Passed(s, id) ==
    /\ s.pc = "page" => id <= s.cursor
    /\ s.pc = "key" => \A k \in s.page : id < k
    /\ s.pc = "heal" => id <= Min(s.page)

Ascending(hits) == \A i, k \in DOMAIN hits : i < k => hits[i] < hits[k]

HitsOK(s) == Ascending(s.hits) /\ \A i \in DOMAIN s.hits : Passed(s, s.hits[i])

\* What must be found is found, or yet to come.
Covers(s) == s.must \subseteq ToSet(s.hits) \cup Left(s)

\* The search owes only sessions that match right now, and as long as no call
\* failed it has each of them behind it as a hit or still before it.
SInv ==
    /\ TInv
    /\ scan.must \subseteq Matching(kv)
    /\ HitsOK(scan)
    /\ faults = 0 /\ scan.pc # "off" => Covers(scan)

\* list_keys_page returns the first keys: it is empty only if there are none,
\* and each key it leaves out comes after the ones it returns.
LEMMA ListedFirst ==
    ASSUME NEW c \in Nat
    PROVE  /\ Listed(c) \subseteq After(c)
           /\ Listed(c) = {} => After(c) = {}
           /\ \A id \in After(c) \ Listed(c), k \in Listed(c) : k < id
<1> DEFINE A == After(c)
           Before(x) == {k \in A : k < x}
<1>1. A \in SUBSET Ids /\ A \subseteq Nat
  BY StoreAssumption DEF After, StoreAssumption
<1>2. Listed(c) = {id \in A : Cardinality(Before(id)) < PageSize}
  BY DEF Listed
<1>3. PageSize \in Nat /\ 0 < PageSize
  BY StoreAssumption DEF StoreAssumption
<1>4. ASSUME A # {} PROVE Min(A) \in Listed(c)
  <2>1. Min(A) \in A /\ \A x \in A : Min(A) <= x
    BY <1>1, <1>4, MinIsThere
  <2>2. Before(Min(A)) = {}
    BY <1>1, <2>1
  <2>3. Cardinality(Before(Min(A))) = 0
    BY <2>2, FS_EmptySet
  <2> HIDE DEF A
  <2> QED
    BY <1>2, <1>3, <2>1, <2>3
<1>5. ASSUME NEW id \in A \ Listed(c), NEW k \in Listed(c) PROVE k < id
  <2>1. SUFFICES ASSUME id <= k PROVE FALSE
    BY <1>1, <1>2
  <2>2. k \in Nat /\ id \in Nat /\ k \in A
    BY <1>1, <1>2
  <2>3. Before(id) \subseteq Before(k) /\ Before(k) \subseteq 0..k
    BY <1>1, <2>1, <2>2
  <2>4. IsFiniteSet(0..k)
    BY <2>2, FS_Interval
  <2>5. IsFiniteSet(Before(k))
    BY <2>3, <2>4, FS_Subset
  <2>6. IsFiniteSet(Before(id)) /\ Cardinality(Before(id)) <= Cardinality(Before(k))
    BY <2>3, <2>5, FS_Subset
  <2>7. Cardinality(Before(id)) \in Nat /\ Cardinality(Before(k)) \in Nat
    BY <2>5, <2>6, FS_CardinalityType
  <2>8. Cardinality(Before(k)) < PageSize
    BY <1>2
  <2>9. ~(Cardinality(Before(id)) < PageSize)
    BY <1>2, <1>5
  <2> QED
    BY <1>3, <2>6, <2>7, <2>8, <2>9
<1> QED
  BY <1>2, <1>4, <1>5

\* After a key, whichever way do_search goes on, nothing is skipped.
LEMMA ScannedKeeps ==
    ASSUME NEW s \in Scans, s.page # {}, s.pc = "heal", HitsOK(s)
    PROVE  HitsOK(Scanned(s)) /\ (Covers(s) => Covers(Scanned(s)))
<1> DEFINE n == Scanned(s)
           m == Min(s.page)
<1>1. /\ s.page \subseteq Ids /\ Ids \subseteq Nat /\ s.must \subseteq Ids /\ s.hits \in Seq(Ids)
      /\ s.more \in BOOLEAN
  BY StoreAssumption DEF Scans, StoreAssumption
<1>2. m \in s.page /\ \A k \in s.page : m <= k
  BY MinIsThere DEF Scans
<1>3. n.hits = s.hits /\ n.must = s.must /\ n.more = s.more /\ n.pc \in {"page", "key", "done"}
  BY ScannedOK
<1>4. /\ n.pc = "key" => n.page = s.page \ {m}
      /\ n.pc = "page" => n.cursor = m
      /\ n.pc = "done" => s.page = {m} /\ ~s.more
  BY ScannedOK
<1> HIDE DEF n, m
<1>5. \A i \in DOMAIN s.hits : s.hits[i] <= m /\ s.hits[i] \in Ids
  BY <1>1 DEF HitsOK, Passed, m
<1>6. \A i \in DOMAIN s.hits : Passed(n, s.hits[i])
  <2> SUFFICES ASSUME NEW i \in DOMAIN s.hits PROVE Passed(n, s.hits[i])
    OBVIOUS
  <2>1. s.hits[i] <= m /\ s.hits[i] \in Nat /\ m \in Nat
    BY <1>1, <1>2, <1>5
  <2>2. ASSUME NEW k \in s.page \ {m} PROVE s.hits[i] < k
    <3>1. k \in Nat /\ m <= k /\ k # m
      BY <1>1, <1>2
    <3> HIDE DEF m
    <3> QED
      BY <2>1, <3>1
  <2> QED
    BY <1>3, <1>4, <2>1, <2>2 DEF Passed
<1>7. HitsOK(n)
  BY <1>3, <1>6 DEF HitsOK
<1>8. Left(s) \subseteq Left(n)
  <2> SUFFICES ASSUME NEW id \in Left(s) PROVE id \in Left(n)
    OBVIOUS
  <2>1. id \in Ids /\ (id \in s.page \ {m} \/ (s.more /\ \A k \in s.page : k < id))
    BY DEF Left, m
  <2>2. m < id
    <3>1. m \in Nat /\ id \in Nat /\ m \in s.page
      BY <1>1, <1>2, <2>1
    <3>2. CASE id \in s.page \ {m}
      BY <1>2, <3>1, <3>2
    <3> QED
      BY <2>1, <3>1, <3>2
  <2>3. n.pc # "done"
    BY <1>4, <2>1
  <2>4. CASE n.pc = "page"
    BY <1>4, <2>1, <2>2, <2>4 DEF Left
  <2>5. CASE n.pc = "key"
    BY <1>3, <1>4, <2>1, <2>5 DEF Left
  <2> QED
    BY <1>3, <2>3, <2>4, <2>5
<1>9. Covers(s) => Covers(n)
  BY <1>3, <1>8 DEF Covers
<1> QED
  BY <1>7, <1>9 DEF n

\* A key that was just read is a hit if it must be one.
LEMMA FoundKeeps ==
    ASSUME scan \in Scans, scan.page # {}, scan.pc = "key", HitsOK(scan),
           NEW v \in Session \cup {NoThread}, NEW f, f = [Found(v) EXCEPT !.pc = "heal"]
    PROVE  /\ f \in Scans /\ f.page # {} /\ f.pc = "heal" /\ f.must = scan.must
           /\ HitsOK(f)
           /\ Covers(scan) /\ (Min(scan.page) \in scan.must => Matches(Usable(v)))
                  => Covers(f)
<1> DEFINE m == Min(scan.page)
<1>1. /\ scan.page \subseteq Ids /\ Ids \subseteq Nat /\ scan.must \subseteq Ids
      /\ scan.hits \in Seq(Ids)
  BY StoreAssumption DEF Scans, StoreAssumption
<1>2. m \in scan.page /\ \A k \in scan.page : m <= k
  BY MinIsThere DEF Scans
<1>3. /\ f \in Scans /\ f.page = scan.page /\ f.pc = "heal" /\ f.must = scan.must
      /\ f.more = scan.more
      /\ f.hits = IF Matches(Usable(v)) THEN Append(scan.hits, m) ELSE scan.hits
  BY FoundType DEF Scans
<1> HIDE DEF m
<1>4. \A i \in DOMAIN scan.hits : scan.hits[i] < m /\ scan.hits[i] \in Ids
  BY <1>1, <1>2 DEF HitsOK, Passed
<1>5. CASE Matches(Usable(v))
  <2>1. /\ DOMAIN f.hits = DOMAIN scan.hits \cup {Len(scan.hits) + 1}
        /\ f.hits[Len(scan.hits) + 1] = m
        /\ \A i \in DOMAIN scan.hits : f.hits[i] = scan.hits[i] /\ i < Len(scan.hits) + 1
    BY <1>1, <1>2, <1>3, <1>5
  <2>2. Len(scan.hits) \in Nat /\ DOMAIN scan.hits = 1..Len(scan.hits)
    BY <1>1
  <2>3. Ascending(f.hits)
    BY <1>4, <2>1, <2>2 DEF HitsOK, Ascending
  <2>4. \A i \in DOMAIN f.hits : Passed(f, f.hits[i])
    BY <1>1, <1>2, <1>3, <1>4, <2>1 DEF Passed, m
  <2>5. ToSet(scan.hits) \cup {m} \subseteq ToSet(f.hits)
    BY <2>1 DEF ToSet
  <2>6. Left(scan) \subseteq Left(f) \cup {m}
    BY <1>3 DEF Left, m
  <2>7. Covers(scan) => Covers(f)
    BY <1>3, <2>5, <2>6 DEF Covers
  <2> QED
    BY <1>3, <2>3, <2>4, <2>7 DEF HitsOK
<1>6. CASE ~Matches(Usable(v))
  <2>1. f.hits = scan.hits
    BY <1>3, <1>6
  <2>2. HitsOK(f)
    BY <1>1, <1>2, <1>3, <1>4, <2>1 DEF HitsOK, Passed, m
  <2>3. Left(scan) \subseteq Left(f) \cup {m}
    BY <1>3 DEF Left, m
  <2>4. Covers(scan) /\ m \notin scan.must => Covers(f)
    BY <1>3, <2>1, <2>3 DEF Covers
  <2> QED
    BY <1>3, <1>6, <2>2, <2>4 DEF m
<1> QED
  BY <1>5, <1>6

LEMMA SearchBeginsKeeps == ASSUME SInv, SearchBegins PROVE SInv'
<1>1. TInv' /\ Matching(kv)' = Matching(kv)
  BY SearchBeginsTyped DEF SInv, SearchBegins, Matching, Matches, Usable, Migrated, Fresh
<1>2. /\ scan'.pc = "page" /\ scan'.must = Matching(kv) /\ scan'.hits = <<>>
      /\ scan'.cursor = 0
  BY DEF SearchBegins, SInv, TInv, SearchOK, Types, Scans
<1>3. HitsOK(scan)'
  BY <1>2 DEF HitsOK, Ascending
<1>4. Covers(scan)'
  <2>1. \A id \in Ids : 0 < id
    BY StoreAssumption DEF StoreAssumption
  <2>2. Matching(kv) \subseteq Ids
    BY DEF Matching
  <2>3. \A id \in Ids : id \in Left(scan')
    BY <1>2, <2>1 DEF Left
  <2> QED
    BY <1>2, <2>2, <2>3 DEF Covers
<1> QED
  BY <1>1, <1>2, <1>3, <1>4 DEF SInv

LEMMA SearchPageKeeps == ASSUME SInv, SearchPage PROVE SInv'
<1> DEFINE c == scan.cursor
<1>1. TInv' /\ Matching(kv)' = Matching(kv) /\ faults' = faults
  BY SearchPageTyped DEF SInv, SearchPage, Quiet, Matching, Matches, Usable, Migrated, Fresh
<1>2. /\ scan'.pc = IF Listed(c) = {} THEN "done" ELSE "key"
      /\ scan'.page = Listed(c) /\ scan'.more = (Listed(c) # After(c))
      /\ scan'.must = scan.must /\ scan'.hits = scan.hits
  BY DEF SearchPage, SInv, TInv, Types, Scans
<1>3. c \in Nat /\ scan.hits \in Seq(Ids) /\ Ids \subseteq Nat /\ scan.pc = "page"
      /\ scan.must \subseteq Ids
  BY StoreAssumption DEF SearchPage, SInv, TInv, Types, Scans, StoreAssumption
<1>4. /\ Listed(c) \subseteq After(c)
      /\ Listed(c) = {} => After(c) = {}
      /\ \A id \in After(c) \ Listed(c), k \in Listed(c) : k < id
  BY <1>3, ListedFirst
<1>5. HitsOK(scan)'
  <2>1. \A i \in DOMAIN scan.hits : scan.hits[i] <= c /\ scan.hits[i] \in Nat
    <3>1. \A i \in DOMAIN scan.hits : Passed(scan, scan.hits[i])
      BY DEF SInv, HitsOK
    <3>2. \A i \in DOMAIN scan.hits : scan.hits[i] \in Ids
      BY <1>3
    <3> QED
      BY <1>3, <3>1, <3>2 DEF Passed
  <2>2. \A k \in After(c) : c < k /\ k \in Nat
    BY <1>3 DEF After
  <2>3. \A i \in DOMAIN scan.hits : Passed(scan', scan.hits[i])
    BY <1>2, <1>3, <1>4, <2>1, <2>2 DEF Passed
  <2> QED
    BY <1>2, <2>3 DEF SInv, HitsOK
<1>6. Covers(scan) => Covers(scan)'
  <2>1. \A id \in scan.must : id \in Ids /\ kv[id] # NoThread
    BY DEF SInv, Matching
  <2>2. \A id \in scan.must \cap Left(scan) : id \in After(c)
    BY <1>3, <2>1 DEF Left, After
  <2>3. \A id \in After(c) : id \in Left(scan')
    <3> SUFFICES ASSUME NEW id \in After(c) PROVE id \in Left(scan')
      OBVIOUS
    <3>1. scan'.pc = "key" /\ id \in Ids
      BY <1>2, <1>4 DEF After
    <3>2. id \notin Listed(c) => scan'.more /\ \A k \in Listed(c) : k < id
      BY <1>2, <1>4
    <3> QED
      BY <1>2, <3>1, <3>2 DEF Left
  <2> QED
    BY <1>2, <2>2, <2>3 DEF Covers
<1> QED
  BY <1>1, <1>2, <1>3, <1>5, <1>6 DEF SInv

LEMMA SearchKeyKeeps == ASSUME NoneIsNothing, SInv, SearchKey PROVE SInv'
<1> DEFINE id == Min(scan.page)
<1>1. TInv' /\ Matching(kv)' = Matching(kv)
  BY SearchKeyTyped
     DEF SInv, SearchKey, Quiet, Matching, Matches, Usable, Migrated, Fresh
<1>2. scan \in Scans /\ scan.page # {} /\ scan.pc = "key" /\ HitsOK(scan) /\ id \in Ids
      /\ kv[id] \in Session \cup {NoThread}
  <2>1. scan \in Scans /\ scan.page # {} /\ scan.pc = "key" /\ HitsOK(scan)
    BY DEF SearchKey, SInv, TInv, SearchOK, Types
  <2>2. id \in Ids
    BY <2>1, MinIsThere DEF Scans
  <2> QED
    BY <2>1, <2>2 DEF SInv, TInv, Types
<1>3. PICK v \in Session \cup {NoThread} :
          scan' = Searched(v) /\ (faults' = 0 => v = kv[id] /\ faults = 0)
  <2>1. CASE scan' = Searched(kv[id]) /\ faults' = faults
    BY <1>2, <2>1
  <2>2. CASE Fault /\ scan' = Searched(NoThread)
    BY <2>2 DEF Fault, SInv, TInv, Types
  <2> QED
    BY <2>1, <2>2 DEF SearchKey
<1> DEFINE f == [Found(v) EXCEPT !.pc = "heal"]
<1>4. /\ f \in Scans /\ f.page # {} /\ f.pc = "heal" /\ f.must = scan.must /\ HitsOK(f)
      /\ Covers(scan) /\ (id \in scan.must => Matches(Usable(v))) => Covers(f)
  BY <1>2, FoundKeeps
<1>5. scan' = f \/ scan' = Scanned(f)
  <2>1. Scanned(f) = Scanned(Found(v))
    BY <1>2, FoundType DEF Scanned, Resume, Scans
  <2> QED
    BY <1>3, <2>1, SearchedIs
<1>6. faults' = 0 => Covers(f)
  <2> SUFFICES ASSUME faults' = 0 PROVE Covers(f)
    OBVIOUS
  <2>1. v = kv[id] /\ Covers(scan)
    BY <1>2, <1>3 DEF SInv
  <2>2. id \in scan.must => Matches(Usable(kv[id]))
    BY DEF SInv, Matching
  <2> HIDE DEF f, id
  <2> QED
    BY <1>4, <2>1, <2>2
<1> HIDE DEF f
<1>7. /\ HitsOK(Scanned(f)) /\ (Covers(f) => Covers(Scanned(f)))
      /\ Scanned(f).must = scan.must
  BY <1>4, ScannedKeeps, ScannedOK
<1>8. HitsOK(scan') /\ (faults' = 0 => Covers(scan')) /\ scan'.must = scan.must
  BY <1>4, <1>5, <1>6, <1>7
<1>9. HitsOK(scan)' /\ (faults' = 0 => Covers(scan)')
  BY <1>8 DEF HitsOK, Covers, Ascending, Passed, Left
<1> QED
  BY <1>1, <1>8, <1>9 DEF SInv

\* A session that is migrated matches as it did.
LEMMA HealMatches ==
    ASSUME NoneIsNothing, Types, NEW id \in Ids, NEW e \in Session, kv[id] = e,
           kv' = [kv EXCEPT ![id] = Migrated(e)]
    PROVE  Matching(kv') = Matching(kv)
<1>1. e # NoThread /\ Usable(e) = Migrated(e) /\ Migrated(e) # NoThread
      /\ Usable(Migrated(e)) = Migrated(e)
  <2>1. e # NoThread
    BY DEF NoneIsNothing
  <2>2. Usable(e) = Migrated(e)
    BY <2>1 DEF Usable
  <2> QED
    BY <2>1, <2>2, UsableTwice
<1>2. \A k \in Ids : kv'[k] = IF k = id THEN Migrated(e) ELSE kv[k]
  BY DEF Types
<1>3. \A k \in Ids : /\ kv'[k] = NoThread <=> kv[k] = NoThread
                     /\ Usable(kv'[k]) = Usable(kv[k])
  BY <1>1, <1>2
<1> QED
  BY <1>3 DEF Matching

LEMMA SearchHealKeeps == ASSUME NoneIsNothing, SInv, SearchHeal PROVE SInv'
<1> DEFINE id == Min(scan.page)
<1>1. TInv'
  BY SearchHealTyped DEF SInv
<1>2. /\ scan \in Scans /\ scan.page # {} /\ scan.pc = "heal" /\ HitsOK(scan)
      /\ scan.exp \in Session /\ scan' = Scanned(scan)
  BY DEF SearchHeal, SInv, TInv, SearchOK, Types
<1>3. id \in Ids
  BY <1>2, MinIsThere DEF Scans
<1>4. HitsOK(scan') /\ (Covers(scan) => Covers(scan')) /\ scan'.must = scan.must
  BY <1>2, ScannedKeeps, ScannedOK
<1>5. Matching(kv') = Matching(kv)
  <2>1. CASE kv' = kv
    BY <2>1
  <2>2. CASE kv[id] = scan.exp /\ kv' = [kv EXCEPT ![id] = Migrated(scan.exp)]
    BY <1>2, <1>3, <2>2, HealMatches DEF SInv, TInv
  <2> QED
    BY <2>1, <2>2 DEF SearchHeal
<1>6. faults' = 0 => Covers(scan')
  <2>1. faults' = 0 => faults = 0
    BY DEF SearchHeal, Fault, SInv, TInv, Types
  <2> QED
    BY <1>2, <1>4, <2>1 DEF SInv
<1>7. HitsOK(scan)' /\ (faults' = 0 => Covers(scan)') /\ (scan.must \subseteq Matching(kv))'
  <2>1. Matching(kv)' = Matching(kv')
    BY DEF Matching, Matches, Usable, Migrated, Fresh
  <2> QED
    BY <1>4, <1>5, <1>6, <2>1 DEF HitsOK, Covers, Ascending, Passed, Left, SInv
<1> QED
  BY <1>1, <1>7 DEF SInv

\* A handler's step leaves the search where it is, and lets go of what it no
\* longer has to find.
LEMMA HandlerQuiet ==
    ASSUME NEW w \in Workers, HandlerStep(w)
    PROVE  /\ \/ kv' = kv /\ scan' = scan
              \/ scan' = [scan EXCEPT !.must = @ \cap Matching(kv')]
           /\ faults' = faults \/ faults' = faults + 1
<1>1. ASSUME NEW next, Keep(w, next) PROVE kv' = kv /\ scan' = scan
  BY <1>1 DEF Keep
<1>2. ASSUME NEW id, NEW value, NEW next, Put(w, id, value, next)
      PROVE  scan' = [scan EXCEPT !.must = @ \cap Matching(kv')]
  BY <1>2 DEF Put
<1> QED
  BY <1>1, <1>2, FaultSteps
     DEF HandlerStep, Request, HandleClear, Check, Purge, Load, MigrateStored, Write, Finish

LEMMA HandlerKeeps ==
    ASSUME SInv, TInv', NEW w \in Workers, HandlerStep(w) PROVE SInv'
<1>1. Matching(kv)' = Matching(kv')
  BY DEF Matching, Matches, Usable, Migrated, Fresh
<1>2. /\ scan'.pc = scan.pc /\ scan'.cursor = scan.cursor /\ scan'.page = scan.page
      /\ scan'.more = scan.more /\ scan'.hits = scan.hits
      /\ scan'.must \subseteq scan.must /\ scan'.must \subseteq Matching(kv')
  BY HandlerQuiet DEF SInv, TInv, Types, Scans
<1>3. faults' = 0 => faults = 0
  BY HandlerQuiet DEF SInv, TInv, Types
<1>4. HitsOK(scan)'
  BY <1>2 DEF SInv, HitsOK, Ascending, Passed
<1>5. Covers(scan) => Covers(scan)'
  BY <1>2 DEF Covers, Left
<1> QED
  BY <1>1, <1>2, <1>3, <1>4, <1>5 DEF SInv

\* do_search: a client that follows the cursors to the end, past limits, budgets
\* and pages, finds each session that matched all along, once and in order,
\* whatever is created, deleted, archived or migrated meanwhile, as long as no
\* KV read fails.
THEOREM SearchFindsAll == Spec => []SearchIsComplete
<1>1. Init => SInv
  <2> SUFFICES ASSUME Init PROVE SInv
    OBVIOUS
  <2>1. scan.must = {} /\ scan.hits = <<>> /\ scan.pc = "off"
    BY DEF Init
  <2> QED
    BY <2>1, TypedStart DEF SInv, HitsOK, Ascending
<1>2. SInv /\ [Next]_vars => SInv'
  <2> SUFFICES ASSUME SInv, [Next]_vars PROVE SInv'
    OBVIOUS
  <2>1. TInv'
    BY TypesKept, NoneAssumption DEF SInv
  <2>2. ASSUME NEW w \in Workers, HandlerStep(w) PROVE SInv'
    BY <2>1, <2>2, HandlerKeeps
  <2>3. CASE SearchStep
    BY <2>3, SearchBeginsKeeps, SearchPageKeeps, SearchKeyKeeps, SearchHealKeeps,
       NoneAssumption
       DEF SearchStep
  <2>4. CASE UNCHANGED vars
    BY <2>1, <2>4 DEF vars, SInv, Matching, Matches, Usable, Migrated, Fresh, HitsOK,
       Ascending, Passed, Covers, Left
  <2> QED
    BY <2>2, <2>3, <2>4 DEF Next, HandlerStep, SearchStep
<1>3. SInv => SearchIsComplete
  <2> SUFFICES ASSUME SInv, scan.pc = "done"
               PROVE  /\ faults = 0 => scan.must \subseteq ToSet(scan.hits)
                      /\ Ascending(scan.hits)
    BY DEF SearchIsComplete, Ascending
  <2>1. Left(scan) = {}
    BY DEF Left
  <2> QED
    BY <2>1 DEF SInv, Covers, HitsOK
<1> QED
  BY <1>1, <1>2, <1>3, PTL DEF Spec

=============================================================================
