------------------------------ MODULE Registry ------------------------------
(* The provider registry (capsule-registry/src/lib.rs): one receive loop that
   keeps the discovered providers and the active model of a principal in KV,
   answers queries, and broadcasts every change of the active model.  One
   dispatched message is one step: the loop is the only writer of the key.
   What the rest of the system sees is `heard`, the model the last broadcast
   that reached it named: a subscriber with a warm cache (capsule-react) routes
   to it.  A save and a broadcast may each fail, and nobody is told.

   Provider capsules come and go (Reload), and a discovery window may miss any
   of the loaded ones.                                                        *)
EXTENDS ModelSelection

CONSTANTS
    Capsules,   \* provider capsules that may be loaded
    Emits,      \* [Capsules -> Seq of [route, id]]: what each one describes
    Inputs,     \* what operators type or pick, as id segments
    OldIds      \* stored selections older than canonical ids

VARIABLES
    loaded,     \* capsules that answer a describe request
    stored,     \* the KV record: [providers, active]
    heard,      \* the model the last active_model_changed broadcast to arrive named
    reply,      \* the reply to the last message, a set request or a models run
    lost        \* the last broadcast, or the save it went with, failed (history)

vars == <<loaded, stored, heard, reply, lost>>

EmptyState == [providers |-> <<>>, active |-> Nothing]
NoReply == [sub |-> "none", exit |-> 0, id |-> Nothing]

\* A principal is new, or kept a selection in the old bare form.
Init ==
    /\ loaded \in SUBSET Capsules
    /\ stored \in {[EmptyState EXCEPT !.active = a] : a \in OldIds \cup {Nothing}}
    /\ heard = stored.active
    /\ reply = NoReply
    /\ lost = FALSE

\* The orders in which answers of some loaded capsules arrive in the window.
Arrivals == UNION {SetToSeqs(cs) : cs \in SUBSET loaded}
Discovered(arrival) ==
    Dedupe(FlattenSeq([i \in 1..Len(arrival) |-> StampMessage(Emits[arrival[i]])]))

\* A load, a fresh discovery when `when` holds, and what the handler works on.
WithProviders(state, when, arrival) ==
    IF when /\ Discovered(arrival) # <<>>
    THEN [state EXCEPT !.providers = Discovered(arrival)]
    ELSE state

\* save_state writes `state`, and the broadcast of a selection follows it where the
\* handler publishes one.  Neither waits for the other, and the failure of either is
\* discarded.
Commit(state, announced) ==
    \E saved, sent \in BOOLEAN :
       /\ stored' = IF saved THEN state ELSE stored
       /\ heard' = IF announced /\ sent THEN state.active ELSE heard
       /\ lost' = IF announced THEN ~(saved /\ sent) ELSE lost

\* Seeded bug: a selection that is cleared is cleared in silence.
AnnouncedModels(state) == state.active \notin {stored.active, Nothing}

\* Healing and defaulting publish when they moved the selection.
Announced(state) == state.active # stored.active

\* discover_providers, then a save of what was found: the selection is not healed.
Refresh ==
    /\ \E a \in Arrivals : Commit(WithProviders(stored, TRUE, a), FALSE)
    /\ reply' = NoReply
    /\ UNCHANGED loaded

\* registry.v1.get_providers.
HandleGetProviders == Refresh

\* registry.v1.get_active_model: discover once, heal, select a default.
HandleGetActiveModel ==
    \E a \in Arrivals :
       LET state == AutoSelected(Reconciled(
                       WithProviders(stored, stored.providers = <<>>, a)))
       IN  /\ Commit(state, Announced(state))
           /\ reply' = NoReply
           /\ UNCHANGED loaded

\* set_active_model_by_id on `state`; an input that does not resolve is answered
\* with an error and nothing is saved, a fresh discovery included.
SetActive(state, input) ==
    LET found == ResolveSelection(input, state.providers)
        next == [state EXCEPT !.active = found.id]
    IN  IF found.ok
        THEN /\ Commit(next, TRUE)
             /\ reply' = [sub |-> "set", exit |-> 0, id |-> found.id]
        ELSE /\ reply' = [sub |-> "set", exit |-> 1, id |-> Nothing]
             /\ UNCHANGED <<stored, heard, lost>>

\* set_active_model_by_id on what is stored; providers are discovered if none are.
SetActiveModelById ==
    /\ \E a \in Arrivals, input \in Inputs :
          SetActive(WithProviders(stored, stored.providers = <<>>, a), input)
    /\ UNCHANGED loaded

\* registry.v1.set_active_model.
HandleSetActiveModel == SetActiveModelById

\* /models <id>, or /models alone, which offers a picker of what it discovers.
DispatchCommand == SetActiveModelById \/ Refresh

\* The picker's callback.
DispatchSelection == SetActiveModelById

\* A models run on the state it finds; `unset` and `set` write as well.
RunModels(run, state) ==
    LET body == ModelsResult(run, state)
        last == IF run.sub = "unset" THEN [state EXCEPT !.active = Nothing] ELSE state
    IN  IF run.sub = "set" /\ body.exit = 0 THEN SetActive(state, run.input)
        ELSE /\ IF run.sub \in KnownSubcommands THEN Commit(last, Announced(last))
                ELSE UNCHANGED <<stored, heard, lost>>
             /\ reply' = [sub |-> run.sub, exit |-> body.exit, id |-> body.id]

\* The arguments of a models run; only `set` reads the id it is given.
Runs == [sub : {"set"}, json : BOOLEAN, input : Inputs \cup {Nothing}]
        \cup [sub : (KnownSubcommands \ {"set"}) \cup {"other"}, json : BOOLEAN,
              input : {Nothing}]

\* A models run with a valid request id.
DispatchCliRun ==
    /\ \E a \in Arrivals, run \in Runs :
          RunModels(run, Reconciled(WithProviders(stored,
                            NeedsDiscovery(run) /\ stored.providers = <<>>, a)))
    /\ UNCHANGED loaded

\* Capsules are installed, removed or restarted; the loop hears of it
\* (astrid.v1.capsules_loaded) and discovers again, or the note is missed.
Reload ==
    /\ loaded' \in SUBSET Capsules
    /\ reply' = NoReply
    /\ UNCHANGED <<stored, heard, lost>>

\* The reload branch of the loop; the start of run() differs in one point: it
\* heals and selects even when the window stays empty.
Rediscover ==
    \E a \in Arrivals, starting \in BOOLEAN :
       LET found == WithProviders(stored, TRUE, a)
           state == IF starting \/ Discovered(a) # <<>>
                    THEN AutoSelected(Reconciled(found)) ELSE stored
       IN  /\ Commit(state, Announced(state))
           /\ reply' = NoReply
           /\ UNCHANGED loaded

Next ==
    \/ HandleGetProviders \/ HandleGetActiveModel \/ HandleSetActiveModel
    \/ DispatchCommand \/ DispatchSelection
    \/ DispatchCliRun \/ Reload \/ Rediscover

Spec == Init /\ [][Next]_vars

Ids == {e.route \o e.id : e \in UNION {{Emits[c][i] : i \in 1..Len(Emits[c])} : c \in Capsules}}

TypeOK ==
    /\ loaded \subseteq Capsules
    /\ \A i \in 1..Len(stored.providers) : stored.providers[i] \in Ids
    /\ stored.active \in Ids \cup OldIds \cup {Nothing}
    /\ heard \in Ids \cup OldIds \cup {Nothing}
    /\ lost \in BOOLEAN

(* A warm cache fed by the broadcasts routes to the model that is stored, unless
   the last broadcast or the save it belongs to was lost: no path that moves the
   selection (a remap, a clear, an auto-select, an unset) moves it in silence, a
   set that was answered "ok" stands, and the next broadcast that goes through
   with its save ends what an earlier failure left apart.  Publish and save
   failures are discarded (lib.rs:137-144, 289-307), and the broadcast of a set
   does not wait for its save (lib.rs:452-459).                               *)
SubscribersFollow ==
    ~lost => /\ heard = stored.active
             /\ reply.sub = "set" /\ reply.exit = 0 => reply.id = stored.active

(* A selection is replaced or dropped only for a cause: an operator's set or
   unset, or a discovery that found some providers and not this one.  An empty
   discovery window never costs a principal its model (selection.rs:230-238). *)
MoveHasCause ==
    (stored.active # Nothing /\ stored'.active # stored.active)
      => \/ reply'.sub \in {"set", "unset"} /\ reply'.exit = 0
         \/ /\ stored'.providers # <<>>
            /\ ~Contains(stored'.providers, stored.active)

\* No step of the registry moves a selection without a cause.
SelectionMovesForCause == [][MoveHasCause]_vars
=============================================================================
