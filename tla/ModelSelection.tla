--------------------------- MODULE ModelSelection ---------------------------
(* The pure core of the provider registry (capsule-registry/src/selection.rs
   and the parsing half of lib.rs).  An id is the sequence of its segments
   between colons: a canonical id is the provider qualifier followed by the
   segments of the model, of which ollama models have several.               *)
EXTENDS Naturals, Sequences, SequencesExt, Picking

Unknown == "unknown"
Ambiguous == "ambiguous"
Nothing == <<>>          \* no active model

\* split_once(':'): an id without a colon is its own qualifier and model.
QualifierOf(id) == <<Head(id)>>
BareModelOf(id) == IF Len(id) = 1 THEN id ELSE Tail(id)

\* One describe message: entries with a concrete generate route, stamped with
\* the route's qualifier, in the provider's order; the others are dropped.
StampMessage(msg) ==
    LET routable == Picked(msg, {i \in DOMAIN msg : msg[i].route # Nothing})
    IN  [i \in 1..Len(routable) |-> routable[i].route \o routable[i].id]

\* dedupe_providers_by_id: the first entry of an id stays.
Dedupe(ids) == Picked(ids, {n \in DOMAIN ids : \A m \in 1..(n - 1) : ids[m] # ids[n]})

\* resolve_selection: exact canonical id, then bare model, then qualified.
ResolveSelection(input, ids) ==
    LET bare == {i \in DOMAIN ids : BareModelOf(ids[i]) = input}
        qualified == {i \in DOMAIN ids : /\ Len(input) > 1
                                        /\ QualifierOf(ids[i]) = QualifierOf(input)
                                        /\ BareModelOf(ids[i]) = BareModelOf(input)}
        Verdict(matches) == IF \E i \in matches : matches = {i}
                            THEN [ok |-> TRUE, id |-> ids[Min(matches)]]
                            ELSE [ok |-> FALSE, id |-> Ambiguous]
    IN  IF Contains(ids, input) THEN [ok |-> TRUE, id |-> input]
        ELSE IF bare # {} THEN Verdict(bare)
        ELSE IF qualified # {} THEN Verdict(qualified)
        ELSE [ok |-> FALSE, id |-> Unknown]

\* The first of the providers whose qualifier is the selection, or none.
Remapped(state) ==
    LET same == {i \in DOMAIN state.providers :
                    QualifierOf(state.providers[i]) = state.active}
    IN  IF same = {} THEN Nothing ELSE state.providers[Min(same)]

\* Seeded bug: an empty discovery clears the selection.
ReconciledEagerly(state) ==
    IF state.active = Nothing \/ Contains(state.providers, state.active)
    THEN state
    ELSE [state EXCEPT !.active = Remapped(state)]

\* reconcile_active_model_in_place: keep, remap an old bare id, or clear.
Reconciled(state) ==
    IF \/ state.active = Nothing
       \/ state.providers = <<>>
       \/ Contains(state.providers, state.active)
    THEN state
    ELSE [state EXCEPT !.active = Remapped(state)]

\* auto_select_defaults_in_place: the first entry, when nothing is selected.
AutoSelected(state) ==
    IF state.active = Nothing /\ state.providers # <<>>
    THEN [state EXCEPT !.active = state.providers[1]]
    ELSE state

(* The models verb: which subcommands exist, and which ones wait for the
   discovery window.                                                         *)
KnownSubcommands == {"list", "current", "set", "unset"}
NeedsDiscovery(run) ==
    \/ run.sub = "list"
    \/ run.sub = "current" /\ run.json
    \/ run.sub = "set" /\ run.input # Nothing

\* models_result: exit code and, for set and current, the id reported.
ModelsResult(run, state) ==
    LET found == ResolveSelection(run.input, state.providers)
    IN  CASE run.sub = "set" /\ run.input = Nothing -> [exit |-> 1, id |-> Nothing]
          [] run.sub = "set" /\ run.input # Nothing ->
                [exit |-> IF found.ok THEN 0 ELSE 1,
                 id |-> IF found.ok THEN found.id ELSE Nothing]
          [] run.sub = "current" ->
                [exit |-> 0,
                 id |-> IF run.json /\ ~Contains(state.providers, state.active)
                        THEN Nothing ELSE state.active]
          [] run.sub \in {"list", "unset"} -> [exit |-> 0, id |-> Nothing]
          [] OTHER -> [exit |-> 1, id |-> Nothing]
=============================================================================
