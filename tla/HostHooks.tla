----------------------------- MODULE HostHooks -----------------------------
(* Host hooks end to end.  An `aos hook` process (unicity-aos-bootstrap
   hook.rs) publishes one event of a host session and waits for the answer on
   a topic of its own; capsule-mcp authenticates the session token and releases
   the event (host_hooks.rs `handle`); capsule-hook-bridge fans it out and, for
   a prompt, collects context (lib.rs `handle_oracle_hook`); capsule-mcp checks
   the answer against the token stored then, passes it on, and retires the
   token of a session that ended (host_hooks.rs `relay_response`).

   Messages are delivered in any order, a handler may fail and lose its
   message, a process may give up waiting.  Handlers overlap: a relay between
   two of its calls is a message to "pass" or to "retire".  A process is named by its
   correlation id; its route id, a hash of session and token, is that pair.  *)
EXTENDS Naturals, FiniteSets, Sequences, SequencesExt

CONSTANTS
    Clients,        \* `aos hook` processes, one event each
    Sessions,       \* host session ids
    Tokens,         \* ASTRID_HOOK_TOKEN values
    Contributors,   \* capsules that answer message_received
    Size,           \* [Contributors -> Nat]: bytes of context each one offers
    Cap,            \* MAX_HOST_CONTEXT_BYTES = MAX_CONTEXT_BYTES
    None            \* no token stored

Sep == 2            \* the blank line between two contexts

Registering == {"session_start", "user_prompt_submit"}      \* can_register
Ending == {"stop", "session_end"}                           \* retired by relay
Supported == Registering \cup Ending \cup {"pre_tool_use"}  \* the bridge knows
Events == {"session_start", "user_prompt_submit", "pre_tool_use", "stop",
           "notification"}

VARIABLES
    token,      \* capsule-mcp KV: the token a session is registered with
    client,     \* the processes
    bus,        \* messages between the capsules
    window,     \* contexts a bridge handler has collected, per open window
    owner,      \* tokens admitted to a session and not retired since (history)
    overlapped  \* sessions two ends of which were relayed at once (history)

vars == <<token, client, bus, window, owner, overlapped>>

Off == [pc |-> "idle", session |-> None, token |-> None, event |-> None,
        context |-> <<>>]
Closed == [open |-> FALSE, got |-> <<>>, total |-> 0, offered |-> {}]
Message(to, c, context) == [to |-> to, c |-> c, context |-> context]

\* Hosts may have registered before.
Init ==
    /\ token \in [Sessions -> Tokens \cup {None}]
    /\ client = [c \in Clients |-> Off]
    /\ bus = {}
    /\ window = [c \in Clients |-> Closed]
    /\ owner = [s \in Sessions |-> {token[s]} \ {None}]
    /\ overlapped = {}

\* A hook fires: the payload and the token passed the process's own checks, and
\* the process listens on its delivery topic.
Deliver(c) ==
    /\ client[c].pc = "idle"
    /\ \E s \in Sessions, t \in Tokens, e \in Events :
          client' = [client EXCEPT ![c] = [pc |-> "waiting", session |-> s,
                        token |-> t, event |-> e, context |-> <<>>]]
    /\ bus' = bus \cup {Message("ingress", c, <<>>)}
    /\ UNCHANGED <<token, window, owner, overlapped>>

\* validate_request refuses what the process let through (a turn id of more than
\* 256 bytes, a payload that grew when it was encoded again); or a call to the KV
\* or the bus fails, and with it the rest of the handler.
Refuse(m) ==
    /\ m \in bus
    /\ bus' = bus \ {m}
    /\ UNCHANGED <<token, client, window, owner, overlapped>>

\* authenticate_token: the stored token must be the claimed one; without one,
\* the events that open a session register theirs.  One step: it takes effect at
\* its first read, at the compare-and-swap, or at the read after one that lost.
Authenticates(s, t, e) ==
    \/ token[s] = t
    \/ token[s] = None /\ e \in Registering

HandleIngress(m) ==
    /\ m \in bus /\ m.to = "ingress"
    /\ LET s == client[m.c].session
           t == client[m.c].token
       IN  IF Authenticates(s, t, client[m.c].event)
           THEN /\ token' = [token EXCEPT ![s] = t]
                /\ owner' = [owner EXCEPT ![s] = @ \cup {t}]
                /\ \/ bus' = (bus \ {m}) \cup {Message("bridge", m.c, <<>>)}
                   \/ bus' = bus \ {m}     \* the publish failed
           ELSE /\ bus' = bus \ {m}
                /\ UNCHANGED <<token, owner>>
    /\ UNCHANGED <<client, window, overlapped>>

\* handle_oracle_hook: an event without a canonical hook is dropped; a prompt
\* opens a window; any other event is published and answered at once.
HandleOracleHook(m) ==
    /\ m \in bus /\ m.to = "bridge"
    /\ LET e == client[m.c].event
       IN  /\ bus' = (bus \ {m}) \cup
                 IF e \in Supported \ {"user_prompt_submit"}
                 THEN {Message("relay", m.c, <<>>)} ELSE {}
           /\ window' = [window EXCEPT ![m.c].open = (e = "user_prompt_submit")]
    /\ UNCHANGED <<token, client, owner, overlapped>>

\* push_context: a context that would pass the limit is dropped.  The bytes are
\* counted as the contexts come.
Separator(got) == IF got = <<>> THEN 0 ELSE Sep
PushContext(w, p) ==
    LET total == w.total + Separator(w.got) + Size[p]
    IN  IF total <= Cap THEN [w EXCEPT !.got = Append(@, p), !.total = total] ELSE w

CollectContext(c, p) ==
    /\ window[c].open /\ p \notin window[c].offered
    /\ window' = [window EXCEPT ![c] =
                     [PushContext(@, p) EXCEPT !.offered = window[c].offered \cup {p}]]
    /\ UNCHANGED <<token, client, bus, owner, overlapped>>

\* Quiescence or the deadline; a failed recv answers nothing.
CloseWindow(c) ==
    /\ window[c].open
    /\ \/ bus' = bus \cup {Message("relay", c, window[c].got)}
       \/ UNCHANGED bus
    /\ window' = [window EXCEPT ![c] = Closed]
    /\ UNCHANGED <<token, client, owner, overlapped>>

\* The bytes of the contexts joined by blank lines.
Bytes(got) ==
    LET upto[k \in 0..Len(got)] ==
            IF k = 0 THEN 0
            ELSE upto[k - 1] + (IF k = 1 THEN 0 ELSE Sep) + Size[got[k]]
    IN  upto[Len(got)]

\* validate_response_shape: what the relay would not pass on.
ContextFits(m) == Bytes(m.context) <= Cap

\* A message to a relay that is past its check and will retire its session.
Closes(m, s) ==
    /\ m.to \in {"pass", "retire"}
    /\ client[m.c].session = s /\ client[m.c].event \in Ending

\* relay_response, up to its read: the route must be that of the token stored.
RelayResponse(m) ==
    /\ m \in bus /\ m.to = "relay"
    /\ LET s == client[m.c].session
       IN  IF ContextFits(m) /\ token[s] = client[m.c].token
           THEN /\ bus' = (bus \ {m}) \cup {Message("pass", m.c, m.context)}
                /\ overlapped' = IF client[m.c].event \in Ending
                                    /\ \E n \in bus : Closes(n, s)
                                 THEN overlapped \cup {s} ELSE overlapped
           ELSE bus' = bus \ {m} /\ UNCHANGED overlapped
    /\ UNCHANGED <<token, client, window, owner>>

\* Its publish: the answer reaches the process if that still listens.
PassOn(m) ==
    /\ m \in bus /\ m.to = "pass"
    /\ client' = [client EXCEPT ![m.c] =
                     IF @.pc = "waiting"
                     THEN [@ EXCEPT !.pc = "done", !.context = m.context] ELSE @]
    /\ bus' = (bus \ {m}) \cup IF client[m.c].event \in Ending
                               THEN {Message("retire", m.c, <<>>)} ELSE {}
    /\ UNCHANGED <<token, window, owner, overlapped>>

\* Its delete, of whatever is stored by then.
Retire(m) ==
    /\ m \in bus /\ m.to = "retire"
    /\ LET s == client[m.c].session
       IN  /\ token' = [token EXCEPT ![s] = None]
           /\ owner' = [owner EXCEPT ![s] = @ \ {client[m.c].token}]
    /\ bus' = bus \ {m}
    /\ UNCHANGED <<client, window, overlapped>>

\* read_until_topic times out; whatever is in flight for the process goes on.
GiveUp(c) ==
    /\ client[c].pc = "waiting"
    /\ client' = [client EXCEPT ![c].pc = "gone"]
    /\ UNCHANGED <<token, bus, window, owner, overlapped>>

Next ==
    \/ \E c \in Clients : Deliver(c) \/ CloseWindow(c) \/ GiveUp(c)
    \/ \E c \in Clients, p \in Contributors : CollectContext(c, p)
    \/ \E m \in bus : \/ Refuse(m) \/ HandleIngress(m) \/ HandleOracleHook(m)
                      \/ RelayResponse(m) \/ PassOn(m) \/ Retire(m)

Spec == Init /\ [][Next]_vars

TypeOK ==
    /\ token \in [Sessions -> Tokens \cup {None}]
    /\ \A c \in Clients : /\ client[c].pc \in {"idle", "waiting", "done", "gone"}
                          /\ ToSet(client[c].context) \subseteq Contributors
    /\ \A m \in bus : /\ m.to \in {"ingress", "bridge", "relay", "pass", "retire"}
                      /\ m.c \in Clients
    /\ overlapped \subseteq Sessions
    /\ \A c \in Clients : ToSet(window[c].got) \subseteq window[c].offered

(* Between two retirements a session has one owner: whatever order the requests
   and the answers of several hosts arrive in, and whichever calls fail, events
   of two tokens are never both admitted, and the delete at the end of a session
   never takes away a registration made after it.  Two answers that end one
   session and are relayed at once are excepted: the slower delete may fall on
   the next host's registration (host_hooks.rs:150-170).                     *)
RouteHasOneOwner ==
    \A s \in Sessions \ overlapped : owner[s] = {token[s]} \ {None}

(* The count kept while contexts come and the length of their join agree, and
   so do the two 64 KiB limits on them: no answer the bridge sends is too large
   for the relay, in whatever order the contexts came, and a context is left out
   only when it did not fit behind the ones before it (lib.rs:523-536,
   host_hooks.rs `validate_response_shape`).                                 *)
CollectedContextPasses ==
    /\ \A m \in bus : m.to = "relay" => ContextFits(m)
    /\ \A c \in Clients : \A p \in window[c].offered :
          p \notin ToSet(window[c].got) => Bytes(Append(window[c].got, p)) > Cap
=============================================================================
