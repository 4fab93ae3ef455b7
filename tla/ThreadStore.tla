----------------------------- MODULE ThreadStore -----------------------------
(***************************************************************************)
(* What capsule-session promises to its callers: a store of conversation   *)
(* threads whose every operation takes effect at one instant, although it  *)
(* is served by concurrent handlers that each make several KV calls.       *)
(***************************************************************************)
EXTENDS Sequences

CONSTANTS Ids, Workers, Batches, Patches, NoThread, NoAnswer

VARIABLES
    thread,     \* the threads: NoThread, or messages and metadata
    answer      \* what a handler is about to reply, NoAnswer in between

vars == <<thread, answer>>

EmptyThread(parent) ==
    [msgs |-> <<>>, title |-> FALSE, archived |-> FALSE, parent |-> parent]

\* A read of a thread that does not exist sees an empty one.
Seen(t) == IF t = NoThread THEN EmptyThread(0) ELSE t

Extended(t, m) == [Seen(t) EXCEPT !.msgs = Append(@, m)]

\* update: PATCH by presence.
Patched(t, patch) ==
    [t EXCEPT !.title = IF "title" \in DOMAIN patch THEN patch.title ELSE @,
              !.archived = IF "archived" \in DOMAIN patch THEN patch.archived ELSE @]

Set(id, t) == thread' = [thread EXCEPT ![id] = t]

Answering(w, t) == answer[w] = NoAnswer /\ answer' = [answer EXCEPT ![w] = t]

-----------------------------------------------------------------------------
\* session.append, and get_messages with append_before_read: the thread grows
\* by exactly the caller's messages, and the caller sees the result. If the
\* store fails, the messages may be there although no answer says so.
AppendMessages(w, id, m) ==
    /\ Set(id, Extended(thread[id], m))
    /\ Answering(w, Extended(thread[id], m)) \/ UNCHANGED answer

\* If the store fails, a reader is served an empty thread.
Read(w, id) ==
    /\ Answering(w, Seen(thread[id])) \/ Answering(w, EmptyThread(0))
    /\ UNCHANGED thread

\* An update touches a thread that exists, never a stealth create.
Update(w, id, patch) ==
    /\ thread[id] # NoThread
    /\ Set(id, Patched(thread[id], patch))
    /\ Answering(w, Patched(thread[id], patch)) \/ UNCHANGED answer

Delete(id) == Set(id, NoThread) /\ UNCHANGED answer

\* clear starts a new thread that points back to the old one, which is kept.
Clear(old, id) ==
    thread[id] = NoThread /\ Set(id, EmptyThread(old)) /\ UNCHANGED answer

Reply(w) == answer' = [answer EXCEPT ![w] = NoAnswer] /\ UNCHANGED thread

Next ==
    \/ \E w \in Workers, id \in Ids :
          \/ \E m \in Batches : AppendMessages(w, id, m)
          \/ Read(w, id)
          \/ \E p \in Patches : Update(w, id, p)
    \/ \E id \in Ids : Delete(id) \/ \E old \in Ids : Clear(old, id)
    \/ \E w \in Workers : Reply(w)

Thread == [msgs : Seq(Batches), title : BOOLEAN, archived : BOOLEAN,
           parent : Ids \cup {0}]

Init ==
    /\ thread \in [Ids -> Thread \cup {NoThread}]
    /\ answer = [w \in Workers |-> NoAnswer]

Spec == Init /\ [][Next]_vars
==============================================================================
