--------------------------- MODULE ProviderCatalog ---------------------------
(* What a provider capsule says it can serve (llm_describe of capsule-openai,
   with models.rs, and of capsule-openai-compat): the models the upstream lists
   when it can be reached, and what is offered when it cannot.  The registry
   takes the first entry as the provider's default.

   A model id is its characters, and whether there is white space before and
   after them, as a pasted setting may have.                                  *)
EXTENDS Naturals, Sequences, SequencesExt, Picking

CONSTANTS
    Catalog,    \* the openai capsule's MODELS: texts, in their order
    Ids,        \* ids the upstream, or the operator, may use
    MaxListed   \* bound on the upstream's list

Unreachable == <<>>     \* discover_models failed; it never returns no ids
Plain(text) == [text |-> text, before |-> FALSE, after |-> FALSE]
Unset == Plain(<<>>)

VARIABLES
    api,        \* which capsule answers: "openai" or "compat"
    listed,     \* the data of /v1/models, or Unreachable
    default,    \* the `model` setting
    offered     \* the entries published: [id, row], row a catalog id or <<>>

vars == <<api, listed, default, offered>>

Blank(id) == id.text = <<>>
Trim(id) == Plain(id.text)

(* extract_model_ids: a blank id is dropped, and one already seen; nothing usable
   counts as a failure. *)
Usable(ids) ==
    {n \in DOMAIN ids : ~Blank(ids[n]) /\ \A m \in 1 .. n - 1 : ids[m] # ids[n]}
ExtractModelIds(ids) == Picked(ids, Usable(ids))

(* lookup: the row itself, or the longest that the id begins with, wherever it
   goes on; no row begins with white space. *)
Begins(r, id) == ~id.before /\ IsPrefix(r, id.text)
Lookup(id) ==
    LET rows == {r \in Range(Catalog) : Begins(r, id)}
    IN  IF rows = {} THEN <<>>
        ELSE CHOOSE r \in rows : \A q \in rows : Len(q) <= Len(r)

\* Move x to the front if it is there.
Hoist(x, seq) ==
    IF x \in Range(seq)
    THEN <<x>> \o Picked(seq, {n \in DOMAIN seq : seq[n] # x})
    ELSE seq

\* The other capsule has no table.
Entry(id) == [id |-> id, row |-> IF api = "openai" THEN Lookup(id) ELSE <<>>]

(* build_live_entries. *)
BuildLiveEntries(ids) ==
    LET live == ExtractModelIds([i \in DOMAIN ids |-> Trim(ids[i])])
        first == Trim(default)
    IN  IF Blank(first) THEN live
        ELSE IF first \in Range(live) THEN Hoist(first, live)
        ELSE <<first>> \o live

(* build_provider_entries. *)
BuildProviderEntries ==
    Hoist(Plain(Lookup(default)), [i \in DOMAIN Catalog |-> Plain(Catalog[i])])

(* resolve_model_ids, parse_env_model. *)
ResolveModelIds(ids) ==
    IF ids # Unreachable THEN ids
    ELSE IF Blank(default) THEN <<>>
    ELSE <<Trim(default)>>

(* llm_describe. *)
Offers ==
    LET found == ExtractModelIds(listed)
        ids == CASE api = "compat" -> Hoist(Trim(default), ResolveModelIds(found))
                 [] api = "openai" /\ found # Unreachable -> BuildLiveEntries(found)
                 [] OTHER -> BuildProviderEntries
    IN  [i \in DOMAIN ids |-> Entry(ids[i])]

Lists == UNION {[1 .. n -> Ids \cup {Unset}] : n \in 0 .. MaxListed}

Init ==
    /\ api \in {"openai", "compat"}
    /\ listed \in Lists /\ default \in Ids \cup {Unset}
    /\ offered = <<>>

LlmDescribe ==
    /\ offered' = Offers
    /\ UNCHANGED <<api, listed, default>>

Next == LlmDescribe

Spec == Init /\ [][Next]_vars

Rows == {Plain(Catalog[i]) : i \in DOMAIN Catalog}

TypeOK == \A i \in DOMAIN offered :
              /\ offered[i].id \in Ids \cup {Trim(id) : id \in Ids} \cup Rows
              /\ offered[i].row \in Range(Catalog) \cup {<<>>}

(* What the registry relies on when it takes the first entry for the default
   and addresses models by id: no id twice and none blank (lib.rs:178-182), all
   that the upstream lists and nothing made up, the operator's model first
   ("always selectable and first even when the upstream catalogue does not
   advertise it", models.rs:377-380; for compat, if advertised), the others in
   the upstream's order; and a dated snapshot gets the limits of the most
   specific row it begins with (models.rs:249-253).  With nothing listed, a
   setting with white space before it finds no row (models.rs:254-273 is given
   it untrimmed, lib.rs:89-103), and none is put first.                       *)
OffersAreSound ==
    LET Id(i) == offered[i].id
        As(id) == IF api = "openai" THEN Trim(id) ELSE id
        wanted == {As(id) : id \in {x \in Range(listed) : ~Blank(x)}}
        chosen == IF Blank(default) THEN {} ELSE {Trim(default)}
        known == {Id(i) : i \in DOMAIN offered}
        FirstAt(id) == CHOOSE n \in DOMAIN listed :
              As(listed[n]) = id /\ \A m \in 1 .. n - 1 : As(listed[m]) # id
    IN  offered # <<>> =>
        /\ \A i, j \in DOMAIN offered : i # j => Id(i) # Id(j)
        /\ \A i \in DOMAIN offered : ~Blank(Id(i))
        /\ wanted # {} =>
              /\ wanted \subseteq known /\ known \subseteq wanted \cup chosen
              /\ api = "compat" => known = wanted
              /\ \A i, j \in DOMAIN offered :
                    i < j /\ Id(i) \notin chosen /\ Id(j) \notin chosen =>
                        FirstAt(Id(i)) < FirstAt(Id(j))
        /\ wanted = {} => known = (IF api = "openai" THEN Rows ELSE chosen)
        /\ \A id \in chosen \cap known :
              Id(1) = id \/ (api = "openai" /\ wanted = {} /\ default.before)
        /\ api = "openai" /\ wanted # {} => chosen \subseteq known
        /\ api = "openai" =>
              \A i \in DOMAIN offered : \A r \in Range(Catalog) :
                  Begins(r, Id(i)) => IsPrefix(r, offered[i].row)
=============================================================================
