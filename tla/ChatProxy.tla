------------------------------ MODULE ChatProxy ------------------------------
(* The CLI proxy (capsule-cli): one loop that reads what its socket clients
   send, binds each connection to one principal for life and to the session of
   its last prompt, and hands bus traffic back.  A reply is streamed as deltas
   on one subscription and closed by a final response on another; the loop
   polls the delta subscription first, then the other, and the proxy takes what
   was streamed out of the final response.  Publishers do not wait for the
   loop: they may publish between the two polls.

   The client's screen appends every text it is sent and starts afresh after a
   final one (lib.rs:229-231), or when the client goes over to another session.
   What is streamed of a turn is a sequence of numbered chunks, over all rounds
   between its tool calls; chunk 0 is the text of a failure, which is not
   streamed.  The turns are react's, seen from the bus.                       *)
EXTENDS Naturals, Sequences, FiniteSets, SequencesExt

CONSTANTS
    Conns,          \* socket connections
    Principals,     \* principals a client may claim, "default" among them
    Sessions,       \* session ids, chosen by clients
    MaxStreams,     \* MAX_STREAM_SESSIONS
    MaxChunks,      \* bound on the chunks of a reply
    MaxTurns,       \* bound on the number of turns
    None

Default == "default"
Malformed == "malformed"
Pairs == Principals \X Sessions

VARIABLES
    conn,       \* the connections, and what each client's screen shows
    turn,       \* turns in progress, by principal and session
    deltas,     \* queue of the delta subscription
    finals,     \* queue of the response subscription
    accum,      \* stream_accum: streamed text by session
    between,    \* the loop is between its two polls
    count,      \* turns begun so far
    dirty       \* sessions whose stream was disturbed (history)

vars == <<conn, turn, deltas, finals, accum, between, count, dirty>>

Down == [up |-> FALSE, principal |-> None, session |-> None, joined |-> 0,
         screen |-> <<>>, shown |-> None]
\* A turn: its number, the chunks streamed, and those before its current round.
NoTurn == [n |-> 0, sent |-> 0, from |-> 0]

Init ==
    /\ conn = [c \in Conns |-> Down]
    /\ turn = [ps \in Pairs |-> NoTurn]
    /\ deltas = <<>> /\ finals = <<>>
    /\ accum = [s \in Sessions |-> <<>>]
    /\ between = FALSE
    /\ count = 0
    /\ dirty = {}

Chunks(n, from, to) == [i \in 1..(to - from + 1) |-> <<n, from + i - 1>>]

Connect(c) ==
    /\ ~between /\ ~conn[c].up
    /\ conn' = [conn EXCEPT ![c] = [Down EXCEPT !.up = TRUE]]
    /\ UNCHANGED <<turn, deltas, finals, accum, between, count, dirty>>

Disconnect(c) ==
    /\ conn[c].up
    /\ conn' = [conn EXCEPT ![c] = Down]
    /\ UNCHANGED <<turn, deltas, finals, accum, between, count, dirty>>

\* decide_ingress: the principal a message is forwarded under, or None.
DecideIngress(bound, claimed) ==
    IF bound = None
    THEN IF claimed = None THEN Default
         ELSE IF claimed = Malformed THEN None ELSE claimed
    ELSE IF claimed \in {None, bound} THEN bound ELSE None

(* handle_ingress.  `what` is a prompt of some session, another allowed topic,
   or a message that is not forwarded (a blocked topic, no topic or payload);
   the last one binds the principal all the same, and no session.  A forwarded
   prompt starts a turn of its principal and session, if none is running.     *)
HandleIngress(c) ==
    /\ ~between /\ conn[c].up
    /\ \E claimed \in Principals \cup {None, Malformed},
          what \in {"prompt", "other"}, s \in Sessions :
          LET p == DecideIngress(conn[c].principal, claimed)
              joins == what = "prompt" /\ s # conn[c].session
              starts == what = "prompt" /\ turn[<<p, s>>].n = 0
          IN  /\ p # None
              /\ starts => count < MaxTurns
              /\ conn' = [conn EXCEPT ![c].principal = p,
                    ![c].session = IF joins THEN s ELSE @,
                    ![c].joined = IF joins THEN count ELSE @,
                    ![c].screen = IF joins THEN <<>> ELSE @]
              /\ count' = IF starts THEN count + 1 ELSE count
              /\ turn' = IF starts THEN [turn EXCEPT ![<<p, s>>].n = count + 1] ELSE turn
              \* two principals on one session id share an accumulator
              /\ dirty' = IF starts /\ \E q \in Principals \ {p} : turn[<<q, s>>].n # 0
                          THEN dirty \cup {s} ELSE dirty
    /\ UNCHANGED <<deltas, finals, accum, between>>

\* `full` is what a user should have been shown of the turn, the message included.
Message(ps, n, text, full) ==
    [to |-> ps[1], session |-> ps[2], n |-> n, text |-> text, full |-> full]
Disturb(ps) == dirty' = dirty \cup {ps[2]}

\* The agent publishes the next chunk; a full queue drops it.
StreamDelta(ps) ==
    /\ turn[ps].n # 0 /\ turn[ps].sent < MaxChunks
    /\ LET n == turn[ps].n
           i == turn[ps].sent + 1
       IN  \/ /\ deltas' = Append(deltas, Message(ps, n, Chunks(n, i, i), Chunks(n, 1, i)))
              /\ IF between \/ \E j \in 1..Len(finals) : finals[j].session = ps[2]
                 THEN Disturb(ps) ELSE UNCHANGED dirty
           \/ deltas' = deltas /\ Disturb(ps)
    /\ turn' = [turn EXCEPT ![ps].sent = @ + 1]
    /\ UNCHANGED <<conn, finals, accum, between, count>>

\* The LLM asked for tools: reset_turn, and what it says next is a new response.
ToolRound(ps) ==
    /\ turn[ps].from # turn[ps].sent
    /\ turn' = [turn EXCEPT ![ps].from = turn[ps].sent]
    /\ UNCHANGED <<conn, deltas, finals, accum, between, count, dirty>>

\* A final response ends the turn, or is dropped on its way.  A text behind
\* streamed chunks should add nothing to them.
Final(ps, text) ==
    /\ LET n == turn[ps].n
           streamed == Chunks(n, 1, turn[ps].sent)
           full == IF turn[ps].sent = 0 THEN text ELSE streamed
       IN  \/ /\ finals' = Append(finals, Message(ps, n, text, full))
              /\ UNCHANGED dirty
           \/ finals' = finals /\ Disturb(ps)
    /\ turn' = [turn EXCEPT ![ps] = NoTurn]
    /\ UNCHANGED <<conn, deltas, accum, between, count>>

\* handle_stream_done: the reply is the text of the last round alone.
FinalResponse(ps) ==
    /\ turn[ps].n # 0 /\ turn[ps].from < turn[ps].sent
    /\ Final(ps, Chunks(turn[ps].n, turn[ps].from + 1, turn[ps].sent))

\* The turn fails at any moment (an LLM error, a timeout, a bus overflow, the
\* iteration cap, a tool that cannot be dispatched): the final is a text of its own.
FailureResponse(ps) ==
    /\ turn[ps].n # 0
    /\ Final(ps, Chunks(turn[ps].n, 0, 0))

\* The turn is cancelled, replaced or cleared, or its last round has no text: no
\* final response.
TurnAborted(ps) ==
    /\ turn[ps].n # 0
    /\ turn' = [turn EXCEPT ![ps] = NoTurn]
    /\ Disturb(ps)
    /\ UNCHANGED <<conn, deltas, finals, accum, between, count>>

\* should_deliver: the same principal, and the session of the connection.
ShouldDeliver(m, c) == c.up /\ c.principal = m.to /\ c.session = m.session

Streaming(a) == {s \in Sessions : a[s] # <<>>}

\* reconcile_stream_payload, for a delta: record it; at the cap, some session's
\* text is given up first.
Record(a, m, victim) ==
    LET kept == IF a[m.session] = <<>> /\ Cardinality(Streaming(a)) >= MaxStreams
                THEN [a EXCEPT ![victim] = <<>>] ELSE a
    IN  [kept EXCEPT ![m.session] = @ \o m.text]

\* Seeded bug: a final response that the prefix does not match is sent whole.
RemainderResends(streamed, full) ==
    IF IsPrefix(streamed, full) THEN SubSeq(full, Len(streamed) + 1, Len(full))
    ELSE full

\* ... and for a final response: what is left after the streamed prefix, and
\* nothing when the prefix does not match.
Remainder(streamed, full) ==
    IF IsPrefix(streamed, full) THEN SubSeq(full, Len(streamed) + 1, Len(full))
    ELSE <<>>

(* broadcast_poll_messages for the delta subscription, message by message. *)
PollDelta ==
    /\ ~between /\ deltas # <<>>
    /\ LET m == Head(deltas)
       IN  \E victim \in Sessions :
              /\ Streaming(accum) # {} => victim \in Streaming(accum)
              /\ accum' = Record(accum, m, victim)
              /\ dirty' = IF accum[victim] # <<>> /\ accum'[victim] = <<>>
                          THEN dirty \cup {victim} ELSE dirty
              /\ conn' = [c \in Conns |->
                    IF ShouldDeliver(m, conn[c])
                    THEN [conn[c] EXCEPT !.screen = @ \o m.text] ELSE conn[c]]
    /\ deltas' = Tail(deltas)
    /\ UNCHANGED <<turn, finals, between, count>>

\* The delta queue was empty: on to the response subscription.
NextPoll ==
    /\ ~between /\ deltas = <<>>
    /\ between' = TRUE
    /\ UNCHANGED <<conn, turn, deltas, finals, accum, count, dirty>>

(* The response subscription: everything queued is handled in one poll. *)
Finalise(state, m) ==
    LET rest == Remainder(state.accum[m.session], m.text)
    IN  [accum |-> [state.accum EXCEPT ![m.session] = <<>>],
         conn |-> [c \in Conns |->
            IF ShouldDeliver(m, state.conn[c])
            THEN [state.conn[c] EXCEPT !.screen = <<>>,
                    !.shown = [n |-> m.n, text |-> state.conn[c].screen \o rest,
                               full |-> m.full, final |-> m.text]]
            ELSE state.conn[c]]]

\* The messages of the queue, one after the other.
Finalised ==
    LET after[k \in 0..Len(finals)] ==
            IF k = 0 THEN [accum |-> accum, conn |-> conn]
            ELSE Finalise(after[k - 1], finals[k])
    IN  after[Len(finals)]

PollResponses ==
    /\ between
    /\ accum' = Finalised.accum /\ conn' = Finalised.conn
    /\ finals' = <<>>
    /\ between' = FALSE
    /\ UNCHANGED <<turn, deltas, count, dirty>>

Next ==
    \/ \E c \in Conns : Connect(c) \/ Disconnect(c) \/ HandleIngress(c)
    \/ \E ps \in Pairs : \/ StreamDelta(ps) \/ ToolRound(ps)
                         \/ FinalResponse(ps) \/ FailureResponse(ps) \/ TurnAborted(ps)
    \/ PollDelta \/ NextPoll \/ PollResponses

Spec == Init /\ [][Next]_vars

TypeOK ==
    /\ \A c \in Conns : /\ conn[c].principal \in Principals \cup {None}
                        /\ conn[c].session \in Sessions \cup {None}
    /\ dirty \subseteq Sessions
    /\ count \in 0..MaxTurns

\* What a connection shows is of a turn that began before it joined, or is whole.
Whole(c) == conn[c].shown = None \/ conn[c].shown.n <= conn[c].joined
            \/ conn[c].shown.text = conn[c].shown.full

(* What was streamed of a turn, over all its rounds, is rendered exactly once on
   every connection that was on its session when the turn began, and a final
   text that follows no streamed one is rendered whole - unless the session's
   stream was disturbed: a chunk was published between the two polls, or before
   the loop had read the final response of the turn before it, or dropped; a
   turn ended without a final response; two principals used the session id at
   once; the table was full.  Nothing of other sessions matters
   (reconcile_stream_payload, broadcast_poll_messages).                       *)
UndisturbedRepliesRenderOnce ==
    \A c \in Conns : conn[c].session \notin dirty => Whole(c)

(* "`strip_prefix` is `None` only if a delta was dropped mid-stream"
   (lib.rs:289-291), which is why the proxy then sends an empty body: as long as
   nothing disturbed the stream, what is shown ends with the final response.   *)
FinalsAreShown ==
    \A c \in Conns :
       (/\ conn[c].session \notin dirty
        /\ conn[c].shown # None /\ conn[c].shown.n > conn[c].joined) =>
          IsSuffix(conn[c].shown.final, conn[c].shown.text)
=============================================================================
