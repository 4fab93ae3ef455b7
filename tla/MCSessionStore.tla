---------------------------- MODULE MCSessionStore ----------------------------
(* Small instances of SessionStore for TLC, two in one run: either several
   handlers share two sessions, or one handler at a time works on three while a
   client searches them.  The other bounds are in the .cfg file.              *)
EXTENDS SessionStore, FiniteSets, TLC

VARIABLE searching  \* which of the two

Symmetry == Permutations(Workers) \cup Permutations(Batches)

\* A rename, and an archive that clears the title.
MCPatches == {[title |-> TRUE], [title |-> FALSE, archived |-> TRUE]}

AnyVersion == {"v1", "v2", "future"}

Busy == {w \in Workers : job[w] # Idle}
Held == {id \in Ids : kv[id] # NoThread}

Within ==
    IF searching
    THEN /\ Cardinality(Busy) <= 1 /\ Cardinality(sent) <= 1 /\ ops + faults <= 2
         /\ \A id \in Held : kv[id].kind # "future"
    ELSE scan.pc = "off" /\ Held \cup {job[w].id : w \in Busy} \subseteq {1, 2}

\* The handlers' two sessions start alike, or one of them is absent.
MCInit ==
    /\ Init /\ searching \in BOOLEAN /\ Within
    /\ ~searching => kv[2] \in {NoThread, kv[1]}
MCNext == Next /\ UNCHANGED searching /\ Within'
MCSpec == MCInit /\ [][MCNext]_<<vars, searching>>
==============================================================================
