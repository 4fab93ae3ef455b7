--------------------------- MODULE UserDirectory ---------------------------
(* The users capsule (capsules/capsule-users): platform identities linked to
   canonical users, a display-name index, and per-context name overlays, kept
   as separate keys of one KV store.  A request is one job; every KV write of
   it is a step of its own, and any KV call may fail and leave the earlier
   steps of the job done (StorageFails).  Jobs do not overlap: the host
   serialises the interceptors of a capsule (capsule-react lib.rs:50-54).  A
   link stands for its normalised (platform, instance, platform user id) key. *)
EXTENDS Naturals, FiniteSets

CONSTANTS
    Users,      \* the UUIDs create_user may draw
    Links,      \* link keys: normalised platform, instance, platform user id
    Contexts,   \* context ids (guilds, rooms, channels)
    Names,      \* display names that are indexed, already trimmed
    None        \* an absent value

BlankName == "blank"     \* trims to nothing: stored, never indexed
BadName   == "bad"       \* holds '/' or a null byte: refused
DisplayNames == Names \cup {None, BlankName, BadName}
Overlays == Contexts \X Links

VARIABLES
    user,       \* user/{id}: None, or the stored display name and key flag
    link,       \* link/...: None, or the user linked and the platform's name
    index,      \* name/{name}: None, or the user the entry points at
    overlay,    \* the context/... keys that hold an overlay
    issued,     \* UUIDs drawn so far; a v4 UUID is never drawn twice
    job,        \* the request being served
    torn        \* a delete_user has failed half way (history)

vars == <<user, link, index, overlay, issued, job, torn>>

Idle == [step |-> "idle", u |-> None, n |-> None, at |-> {}]
Job(step, u, n, at) == [step |-> step, u |-> u, n |-> n, at |-> at]

Init ==
    /\ user = [u \in Users |-> None]
    /\ link = [l \in Links |-> None]
    /\ index = [n \in Names |-> None]
    /\ overlay = {}
    /\ issued = {}
    /\ job = Idle
    /\ torn = FALSE

Exists(u) == user[u] # None
LinksOf(u) == {l \in Links : link[l] # None /\ link[l].user = u}
OverlaysOn(ls) == {o \in overlay : o[2] \in ls}

(* What the queries answer.  resolve layers context over link over canonical
   name; a link whose user is gone still answers, without a user.            *)
Resolve(l, c) ==
    IF link[l] = None THEN [user |-> None, source |-> None]
    ELSE [user |-> IF Exists(link[l].user) THEN link[l].user ELSE None,
          source |-> IF <<c, l>> \in overlay THEN "context"
                     ELSE IF link[l].name # None THEN "link"
                     ELSE IF Exists(link[l].user) /\ user[link[l].user].name # None
                          THEN "canonical" ELSE None]

\* get_context: the overlay, and the user its link names.
GetContext(l, c) ==
    [overlay |-> <<c, l>> \in overlay,
     user |-> IF link[l] = None THEN None ELSE link[l].user]

\* list_context_for_user and list_context_in_context, before they are paged.
ContextsForUser(u) == OverlaysOn(LinksOf(u))
ContextMembers(c) ==
    {<<o, GetContext(o[2], c).user>> : o \in {p \in overlay : p[1] = c}}

(* Requests.  Each one validates, reads, and either answers at once (no job)
   or leaves the writes to the steps below.                                  *)
Begin(j) == job' = j /\ UNCHANGED <<user, link, index, overlay, torn>>

HandleCreate ==
    /\ job = Idle
    /\ \E u \in Users \ issued, n \in DisplayNames \ {BadName} :
          /\ issued' = issued \cup {u}
          /\ Begin(Job("create", u, n, {}))

HandleSetDisplayName ==
    /\ job = Idle
    /\ \E u \in Users, n \in DisplayNames \ {BadName} :
          /\ Exists(u)
          /\ Begin(Job("unindex", u, n, {}))
    /\ UNCHANGED issued

HandleSetPublicKey ==
    /\ job = Idle
    /\ \E u \in Users : Exists(u) /\ Begin(Job("key", u, None, {}))
    /\ UNCHANGED issued

HandleLink ==
    /\ job = Idle
    /\ \E u \in Users, l \in Links, n \in {None} \cup Names :
          Exists(u) /\ Begin(Job("link", u, n, {l}))
    /\ UNCHANGED issued

HandleUnlink ==
    /\ job = Idle
    /\ \E l \in Links : link[l] # None /\ Begin(Job("unlink", None, None, {l}))
    /\ UNCHANGED issued

HandleDelete ==
    /\ job = Idle
    /\ \E u \in Users : Exists(u) /\ Begin(Job("links", u, user[u].name, {}))
    /\ UNCHANGED issued

HandleContextSet ==
    /\ job = Idle
    /\ \E l \in Links, c \in Contexts :
          link[l] # None /\ Begin(Job("overlay", None, c, {l}))
    /\ UNCHANGED issued

HandleContextClear ==
    /\ job = Idle
    /\ \E o \in overlay : Begin(Job("clear", None, o[1], {o[2]}))
    /\ UNCHANGED issued

(* The writes of a job, in the order the code makes them. *)

\* set_json of the user; then the name index, for a name that is not blank.
WriteUser ==
    /\ job.step \in {"create", "rename", "key"}
    /\ user' = [user EXCEPT ![job.u] =
          IF job.step = "key" THEN [name |-> @.name, key |-> ~@.key]
          ELSE [name |-> job.n, key |-> job.step = "rename" /\ @.key]]
    /\ job' = IF job.step # "key" /\ job.n \in Names
              THEN [job EXCEPT !.step = "index"] ELSE Idle
    /\ UNCHANGED <<link, index, overlay, issued, torn>>

\* The entry of another user with the same name is overwritten.
WriteIndex ==
    /\ job.step = "index"
    /\ index' = [index EXCEPT ![job.n] = job.u]
    /\ job' = Idle
    /\ UNCHANGED <<user, link, overlay, issued, torn>>

\* The entry a user's stored name is indexed under, when it points at the user.
OwnEntry(u) ==
    {n \in Names : Exists(u) /\ user[u].name = n /\ index[n] = u}

\* set_display_name: clear the old entry first, if it is still ours.
Unindex ==
    /\ job.step = "unindex"
    /\ index' = [n \in Names |-> IF n \in OwnEntry(job.u) THEN None ELSE index[n]]
    /\ job' = [job EXCEPT !.step = "rename"]
    /\ UNCHANGED <<user, link, overlay, issued, torn>>

\* link upserts: an earlier link of the key, and its overlays, are not looked at.
WriteLink ==
    /\ job.step = "link"
    /\ \E l \in job.at :
          link' = [link EXCEPT ![l] = [user |-> job.u, name |-> job.n]]
    /\ job' = Idle
    /\ UNCHANGED <<user, index, overlay, issued, torn>>

\* unlink: the overlays one by one, the link last.
UnlinkStep ==
    /\ job.step = "unlink"
    /\ IF OverlaysOn(job.at) # {}
       THEN /\ \E o \in OverlaysOn(job.at) : overlay' = overlay \ {o}
            /\ UNCHANGED <<link, job>>
       ELSE /\ link' = [l \in Links |-> IF l \in job.at THEN None ELSE link[l]]
            /\ job' = Idle
            /\ UNCHANGED overlay
    /\ UNCHANGED <<user, index, issued, torn>>

\* Seeded bug: only the first link found is swept.
SweepOneLink ==
    /\ job.step = "links"
    /\ job' = [job EXCEPT !.step = "overlays", !.at = LinksOf(job.u)]
    /\ link' \in IF LinksOf(job.u) = {} THEN {link}
                 ELSE {[link EXCEPT ![l] = None] : l \in LinksOf(job.u)}
    /\ UNCHANGED <<user, index, overlay, issued, torn>>

\* delete_user, cascade 1: the links aimed at the user, remembered in job.at.
SweepLinks ==
    /\ job.step = "links"
    /\ IF LinksOf(job.u) # {}
       THEN \E l \in LinksOf(job.u) :
               /\ link' = [link EXCEPT ![l] = None]
               /\ job' = [job EXCEPT !.at = @ \cup {l}]
       ELSE job' = [job EXCEPT !.step = "overlays"] /\ UNCHANGED link
    /\ UNCHANGED <<user, index, overlay, issued, torn>>

\* Cascade 2: the overlays of the links this run of the job swept.
SweepOverlays ==
    /\ job.step = "overlays"
    /\ IF OverlaysOn(job.at) # {}
       THEN /\ \E o \in OverlaysOn(job.at) : overlay' = overlay \ {o}
            /\ UNCHANGED job
       ELSE job' = [job EXCEPT !.step = "entry"] /\ UNCHANGED overlay
    /\ UNCHANGED <<user, link, index, issued, torn>>

\* Cascade 3: the name index, if it still points at the user.
DropEntry ==
    /\ job.step = "entry"
    /\ index' = [n \in Names |-> IF n \in OwnEntry(job.u) THEN None ELSE index[n]]
    /\ job' = [job EXCEPT !.step = "user"]
    /\ UNCHANGED <<user, link, overlay, issued, torn>>

DropUser ==
    /\ job.step = "user"
    /\ user' = [user EXCEPT ![job.u] = None]
    /\ job' = Idle
    /\ UNCHANGED <<link, index, overlay, issued, torn>>

ContextStep ==
    /\ job.step \in {"overlay", "clear"}
    /\ LET keys == {job.n} \X job.at
       IN  overlay' = IF job.step = "overlay" THEN overlay \cup keys
                                              ELSE overlay \ keys
    /\ job' = Idle
    /\ UNCHANGED <<user, link, index, issued, torn>>

\* A KV call fails (or the host kills the handler): `?` returns, an error is
\* published, and what the job wrote so far stays.
StorageFails ==
    /\ job # Idle
    /\ torn' = (torn \/ job.step \in {"links", "overlays"})
    /\ job' = Idle
    /\ UNCHANGED <<user, link, index, overlay, issued>>

Next ==
    \/ HandleCreate \/ HandleSetDisplayName \/ HandleSetPublicKey
    \/ HandleLink \/ HandleUnlink \/ HandleDelete
    \/ HandleContextSet \/ HandleContextClear
    \/ WriteUser \/ WriteIndex \/ Unindex \/ WriteLink \/ UnlinkStep
    \/ SweepLinks \/ SweepOverlays \/ DropEntry \/ DropUser \/ ContextStep
    \/ StorageFails

Spec == Init /\ [][Next]_vars

TypeOK ==
    /\ user \in [Users -> [name : DisplayNames, key : BOOLEAN] \cup {None}]
    /\ link \in [Links -> [user : Users, name : Names \cup {None}] \cup {None}]
    /\ index \in [Names -> Users \cup {None}]
    /\ overlay \subseteq Overlays
    /\ issued \subseteq Users
    /\ job.at \subseteq Links
    /\ torn \in BOOLEAN

(* At every step of every job, and whichever call fails, what a lookup finds
   exists: a name-index entry points at a stored user of that name, and a link
   resolves to a stored user.  This is what the order of the cascades in
   delete_user (store.rs:416-469) and of the three writes of set_display_name
   (store.rs:239-258) is for.                                                *)
ReferencesAreLive ==
    /\ \A n \in Names : index[n] # None =>
          Exists(index[n]) /\ user[index[n]].name = n
    /\ \A l \in Links, c \in Contexts :
          link[l] # None => Resolve(l, c).user # None

(* An overlay outlives its link only after a delete_user failed between its
   first and its second cascade: a retried delete looks for links again, finds
   none, and leaves the overlays to whoever links that platform user next.
   Every other job, failed or not, leaves no member without a link.          *)
OverlaysHaveLinks ==
    (job.step # "overlays" /\ job.step # "links" /\ ~torn) =>
        \A c \in Contexts : \A m \in ContextMembers(c) : m[2] # None

(* No lookup leads nowhere, by name, by link or by context (store.rs:416-469). *)
DirectoryIsSound == ReferencesAreLive /\ OverlaysHaveLinks
=============================================================================
