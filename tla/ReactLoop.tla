------------------------------ MODULE ReactLoop ------------------------------
(***************************************************************************)
(* The turn state machine of capsule-react: the coordinator that takes a   *)
(* user prompt through identity, prompt assembly, LLM streaming and tool   *)
(* execution.  Every interceptor of the capsule is one action (or one      *)
(* action per outcome); its KV writes, its publishes and its error returns *)
(* are part of that action.                                                *)
(*                                                                         *)
(* Interceptors run one at a time, as lib.rs:50-54 says of the plugin      *)
(* mutex, so a handler that blocks on the session capsule is still one     *)
(* step.  The bus is not ordered: any message in flight may be handled     *)
(* next, and a message that is never handled is a lost one.                *)
(*                                                                         *)
(* At most one host call of a handler fails; a failed delete of a          *)
(* correlation key, or of the watched-set entry of an Idle session, is     *)
(* only logged by the code and is not modelled.                            *)
(*                                                                         *)
(* An absent react.turn key and a stored default TurnState are the same    *)
(* state here.  An Idle TurnState keeps leftover fields in the code; no    *)
(* handler reads them before reset_conversation_turn, so Idle is IdleTurn. *)
(***************************************************************************)
EXTENDS Naturals, Sequences

CONSTANTS
    Sessions,       \* session ids
    Requests,       \* request ids (Uuid::new_v4), reused once nothing holds them
    Calls,          \* tool call ids, chosen by the LLM provider
    NoReq,          \* Uuid::nil()
    NoSession,      \* absence of a correlation key
    MaxPrompts,     \* bound: prompts per session
    MaxTools,       \* bound: tool calls announced by one stream
    MaxIterations,  \* config max_iterations
    MaxRedrive,     \* MAX_REDRIVE_RETRIES
    MaxFaults,      \* bound: failed host calls in a behaviour
    FaultKinds,     \* the host calls that may fail
    FreshCallIds,   \* providers never reuse a tool call id
    MidTurnClear    \* a frontend may clear a session whose turn is running

ASSUME ConstantsAssumption ==
    /\ NoReq \notin Requests
    /\ NoSession \notin Sessions
    /\ MaxPrompts \in Nat /\ MaxTools \in Nat /\ MaxFaults \in Nat
    /\ MaxIterations \in Nat \ {0}
    /\ MaxRedrive \in Nat
    /\ FaultKinds \subseteq {"rpc", "rpcLate", "publish", "save"}
    /\ FreshCallIds \in BOOLEAN /\ MidTurnClear \in BOOLEAN

VARIABLES
    turn,       \* react.turn.<session>: the TurnState
    req2sess,   \* react.req2sess.<request>
    call2sess,  \* react.call2sess.<call>
    active,     \* react.active_sessions
    bus,        \* requests and responses in flight between capsules
    hist,       \* user messages in the session capsule's history
    own,        \* which of them started the current turn
    finals,     \* is_final responses published for the current turn
    rounds,     \* LLM requests published for the current turn
    faults      \* host calls that have failed

kvVars == <<turn, req2sess, call2sess, active>>
obsVars == <<own, finals, rounds>>
vars == <<kvVars, bus, hist, obsVars, faults>>

-----------------------------------------------------------------------------
Phases == {"Idle", "AwaitingIdentity", "AwaitingPromptBuild", "Streaming",
           "AwaitingTools"}

\* res is the request whose tool execution produced the recorded result.
Dispatched == [id : Calls, owner : Requests, res : Requests \cup {NoReq}]

TurnState == [phase : Phases, req : Requests \cup {NoReq}, text : BOOLEAN,
              pend : Seq(Calls), disp : Seq(Dispatched), iter : Nat]

\* A TurnState whose accumulators reset_turn has just cleared.
FreshTurn(phase, req, iter) ==
    [phase |-> phase, req |-> req, text |-> FALSE,
     pend |-> <<>>, disp |-> <<>>, iter |-> iter]

IdleTurn == FreshTurn("Idle", NoReq, 0)

\* Bus messages. "turn" tags a message with the prompt it was sent for; the
\* code does not look at it (the responses are matched by session id alone).
Spark(s, n, k) == [type |-> "spark", s |-> s, turn |-> n, retry |-> k]
Assemble(s, n) == [type |-> "assemble", s |-> s, turn |-> n]
Assembled(s, n, c, k) ==
    [type |-> "assembled", s |-> s, turn |-> n, ctx |-> c, retry |-> k]
Llm(r, c) == [type |-> "llm", req |-> r, ctx |-> c]
Tool(c, r, i) == [type |-> "tool", id |-> c, req |-> r, slot |-> i]

Messages ==
    [type : {"spark"}, s : Sessions, turn : Nat, retry : Nat]
    \cup [type : {"assemble"}, s : Sessions, turn : Nat]
    \cup [type : {"assembled"}, s : Sessions, turn : Nat, ctx : Nat, retry : Nat]
    \cup [type : {"llm"}, req : Requests, ctx : Nat]
    \cup [type : {"tool"}, id : Calls, req : Requests, slot : Nat]

DispIds(t) == {t.disp[i].id : i \in DOMAIN t.disp}
PendIds(t) == {t.pend[i] : i \in DOMAIN t.pend}

FreshRequest(r) ==
    /\ req2sess[r] = NoSession
    /\ \A s \in Sessions : turn[s].req # r
    /\ \A m \in bus : m.type \in {"llm", "tool"} => m.req # r

FreshCall(c) ==
    /\ call2sess[c] = NoSession
    /\ \A s \in Sessions : c \notin DispIds(turn[s]) \cup PendIds(turn[s])
    /\ \A m \in bus : m.type = "tool" => m.id # c

\* A correlation map with the given keys deleted.
Unmap(f, keys) == [k \in DOMAIN f |-> IF k \in keys THEN NoSession ELSE f[k]]

\* A host call of the given kind fails, within the bound.
Fault(kind) == kind \in FaultKinds /\ faults < MaxFaults /\ faults' = faults + 1

\* state.save(): written, or an Err that leaves the stored TurnState alone.
Save(s, t) ==
    \/ turn' = [turn EXCEPT ![s] = t] /\ UNCHANGED faults
    \/ Fault("save") /\ UNCHANGED turn

\* An agent.v1.response with is_final (publish errors are ignored here).
Final(s) == finals' = [finals EXCEPT ![s] = @ + 1]

\* Seeded bugs: the cleanup clears a whole key prefix, or forgets one.
CleanupAllCalls(s) ==
    /\ req2sess' = Unmap(req2sess, {turn[s].req})
    /\ call2sess' = Unmap(call2sess, Calls)

CleanupAllRequests(s) ==
    /\ req2sess' = Unmap(req2sess, Requests)
    /\ call2sess' = Unmap(call2sess, DispIds(turn[s]))

CleanupForgetsCalls(s) ==
    /\ req2sess' = Unmap(req2sess, {turn[s].req})
    /\ UNCHANGED call2sess

\* cleanup_inflight_mappings
CleanupInflight(s) ==
    /\ req2sess' = Unmap(req2sess, {turn[s].req})
    /\ call2sess' = Unmap(call2sess, DispIds(turn[s]))

\* Seeded bug: the whole watched set is deleted with the session.
EndTurnUnwatchesAll(s) == active' = {} /\ Save(s, IdleTurn)

\* reset_conversation_turn and set_phase(Idle), which unregisters the session
\* before the save that may fail.
EndTurn(s) == active' = active \ {s} /\ Save(s, IdleTurn)

TearDown(s) == CleanupInflight(s) /\ EndTurn(s)

\* Seeded bug: the timeout is reported but the turn is not reset.
TimeOutReportsOnly(s) ==
    /\ turn[s].phase # "Idle"
    /\ Final(s)
    /\ UNCHANGED <<kvVars, hist, own, rounds, faults>>

\* check_timeout_with_cleanup finds the phase over its limit. A failed save
\* returns before the mappings are cleaned up.
TimeOut(s) ==
    /\ turn[s].phase # "Idle"
    /\ Final(s)
    /\ active' = active \ {s}
    /\ \/ /\ turn' = [turn EXCEPT ![s] = IdleTurn]
          /\ CleanupInflight(s)
          /\ UNCHANGED faults
       \/ Fault("save") /\ UNCHANGED <<turn, req2sess, call2sess>>
    /\ UNCHANGED <<hist, own, rounds>>

-----------------------------------------------------------------------------
Init ==
    /\ turn = [s \in Sessions |-> IdleTurn]
    /\ req2sess = [r \in Requests |-> NoSession]
    /\ call2sess = [c \in Calls |-> NoSession]
    /\ active = {}
    /\ bus = {}
    /\ hist = [s \in Sessions |-> 0]
    /\ own = [s \in Sessions |-> 0]
    /\ finals = [s \in Sessions |-> 0]
    /\ rounds = [s \in Sessions |-> 0]
    /\ faults = 0

\* handle_user_prompt: the message is appended, the turn in flight (if any) is
\* replaced, the session registered, and the identity capsule asked.
HandleUserPrompt(s) ==
    /\ hist[s] < MaxPrompts
    /\ hist' = [hist EXCEPT ![s] = @ + 1]
    /\ CleanupInflight(s)
    /\ \/ /\ \E r \in Requests :
               /\ FreshRequest(r)
               /\ turn' = [turn EXCEPT ![s] = FreshTurn("AwaitingIdentity", r, 0)]
          /\ own' = [own EXCEPT ![s] = hist[s] + 1]
          /\ finals' = [finals EXCEPT ![s] = 0]
          /\ rounds' = [rounds EXCEPT ![s] = 0]
          /\ \/ /\ bus' = bus \cup {Spark(s, hist[s] + 1, 0)}
                /\ active' = active \cup {s}
                /\ UNCHANGED faults
             \/ /\ Fault("publish")
                /\ active' = active \cup {s}
                /\ UNCHANGED bus
             \/ /\ Fault("save")    \* register_active_session only logs
                /\ bus' = bus \cup {Spark(s, hist[s] + 1, 0)}
                /\ UNCHANGED active
       \/ /\ Fault("save")
          /\ active' = active \cup {s}
          /\ UNCHANGED <<turn, bus, obsVars>>

\* The session round trip of handle_user_prompt fails: nothing is changed in
\* react, but the message may have been stored before the reply was lost.
UserPromptAppendFails(s) ==
    /\ hist[s] < MaxPrompts
    /\ \/ Fault("rpc") /\ UNCHANGED hist
       \/ Fault("rpcLate") /\ hist' = [hist EXCEPT ![s] = @ + 1]
    /\ UNCHANGED <<kvVars, bus, obsVars>>

\* handle_cancel: no is_final response is published.
HandleCancel(s) ==
    /\ turn[s].phase # "Idle"
    /\ TearDown(s)
    /\ UNCHANGED <<bus, hist, obsVars>>

-----------------------------------------------------------------------------
\* Seeded bug: the bounced copy does not count its retries.
RedriveForever(m, expected) ==
    /\ turn[m.s].phase # expected
    /\ bus' = IF turn[m.s].phase = "Idle" THEN bus ELSE bus \ {m}
    /\ UNCHANGED <<kvVars, hist, obsVars, faults>>

\* redrive_if_unready: a response for a turn in another phase. Idle bounces it
\* back with one more retry, until the budget is spent.
Redrive(m, expected) ==
    /\ turn[m.s].phase # expected
    /\ \/ /\ turn[m.s].phase = "Idle" /\ m.retry < MaxRedrive
          /\ \/ /\ bus' = (bus \ {m}) \cup {[m EXCEPT !.retry = @ + 1]}
                /\ UNCHANGED faults
             \/ Fault("publish") /\ bus' = bus \ {m}
       \/ /\ turn[m.s].phase # "Idle" \/ m.retry >= MaxRedrive
          /\ bus' = bus \ {m} /\ UNCHANGED faults
    /\ UNCHANGED <<kvVars, hist, obsVars>>

\* fail_no_model_selected
FailNoModel(s) ==
    /\ Final(s)
    /\ UNCHANGED <<hist, own, rounds>>
    /\ CleanupInflight(s)
    /\ active' = active \ {s}

\* handle_identity_response in AwaitingIdentity: read the history, save, then
\* hand the prompt over or give up when no model is selected.
AcceptIdentity(m) ==
    LET s == m.s
        next == [turn[s] EXCEPT !.phase = "AwaitingPromptBuild"]
    IN  /\ turn[s].phase = "AwaitingIdentity"
        /\ \/ /\ turn' = [turn EXCEPT ![s] = next]
              /\ \/ /\ bus' = (bus \ {m}) \cup {Assemble(s, own[s])}
                    /\ UNCHANGED faults
                 \/ Fault("publish") /\ bus' = bus \ {m}
              /\ UNCHANGED <<req2sess, call2sess, active, hist, obsVars>>
           \/ /\ FailNoModel(s)
              /\ bus' = bus \ {m}
              /\ \/ turn' = [turn EXCEPT ![s] = IdleTurn] /\ UNCHANGED faults
                 \/ Fault("save") /\ turn' = [turn EXCEPT ![s] = next]
           \/ /\ Fault("rpc") \/ Fault("save")
              /\ bus' = bus \ {m}
              /\ UNCHANGED <<kvVars, hist, obsVars>>

HandleIdentityResponse ==
    \E m \in bus :
        /\ m.type = "spark"
        /\ \/ TimeOut(m.s) /\ bus' = bus \ {m}
           \/ Redrive(m, "AwaitingIdentity")
           \/ AcceptIdentity(m)

\* prompt-builder's assemble: fetch_session_messages falls back to no messages
\* at all when the session capsule does not answer.
PromptBuilderAssemble ==
    \E m \in bus :
        /\ m.type = "assemble"
        /\ \/ /\ bus' = (bus \ {m}) \cup {Assembled(m.s, m.turn, hist[m.s], 0)}
              /\ UNCHANGED faults
           \/ /\ Fault("rpc")
              /\ bus' = (bus \ {m}) \cup {Assembled(m.s, m.turn, 0, 0)}
        /\ UNCHANGED <<kvVars, hist, obsVars>>

\* publish_llm_request, called with the TurnState t just saved and the
\* messages that hold the first c user messages. "calls" are the call mappings
\* the caller deletes first, "rest" the bus without the handled message.
PublishLlmRequest(s, t, c, calls, rest) ==
    \/ /\ turn' = [turn EXCEPT ![s] = t]
       /\ req2sess' = [req2sess EXCEPT ![t.req] = s]
       /\ call2sess' = Unmap(call2sess, calls)
       /\ bus' = rest \cup {Llm(t.req, c)}
       /\ rounds' = [rounds EXCEPT ![s] = @ + 1]
       /\ UNCHANGED <<active, hist, own, finals, faults>>
    \/ /\ Fault("publish") \/ Fault("save")
       /\ turn' = [turn EXCEPT ![s] = t]
       /\ call2sess' = Unmap(call2sess, calls)
       /\ bus' = rest
       /\ UNCHANGED <<req2sess, active, hist, obsVars>>
    \/ /\ Final(s)
       /\ \/ turn' = [turn EXCEPT ![s] = IdleTurn] /\ UNCHANGED faults
          \/ Fault("save") /\ turn' = [turn EXCEPT ![s] = t]
       /\ active' = active \ {s}
       /\ req2sess' = Unmap(req2sess, {t.req})
       /\ call2sess' = Unmap(call2sess, calls)
       /\ bus' = rest
       /\ UNCHANGED <<hist, own, rounds>>

\* handle_prompt_response in AwaitingPromptBuild.
AcceptAssembled(m) ==
    /\ turn[m.s].phase = "AwaitingPromptBuild"
    /\ \/ PublishLlmRequest(m.s, [turn[m.s] EXCEPT !.phase = "Streaming"],
                            m.ctx, {}, bus \ {m})
       \/ /\ Fault("save")
          /\ bus' = bus \ {m}
          /\ UNCHANGED <<kvVars, hist, obsVars>>

HandlePromptResponse ==
    \E m \in bus :
        /\ m.type = "assembled"
        /\ \/ TimeOut(m.s) /\ bus' = bus \ {m}
           \/ Redrive(m, "AwaitingPromptBuild")
           \/ AcceptAssembled(m)

-----------------------------------------------------------------------------
\* Seeded bug: a stream event is matched by session, not by request.
AcceptsAnyRequest(s, m) == turn[s].phase = "Streaming"

\* The session whose running stream m is, if handle_llm_stream accepts it.
Accepts(s, m) ==
    /\ req2sess[m.req] = s
    /\ turn[s].phase = "Streaming"
    /\ turn[s].req = m.req

StreamText(s, m) ==
    /\ Accepts(s, m)
    /\ Save(s, [turn[s] EXCEPT !.text = TRUE])
    /\ UNCHANGED <<req2sess, call2sess, active, bus, hist, obsVars>>

StreamToolCallStart(s, m, c) ==
    /\ Accepts(s, m)
    /\ Len(turn[s].pend) < MaxTools
    /\ FreshCallIds => FreshCall(c)
    /\ Save(s, [turn[s] EXCEPT !.pend = Append(@, c)])
    /\ UNCHANGED <<req2sess, call2sess, active, bus, hist, obsVars>>

StreamError(s, m) ==
    /\ Accepts(s, m)
    /\ bus' = bus \ {m}
    /\ Final(s)
    /\ TearDown(s)
    /\ UNCHANGED <<hist, own, rounds>>

\* handle_stream_done with tool calls: map them, save AwaitingTools, publish
\* each; a failed publish ends the turn with the earlier calls already out.
StreamDoneTools(s, m) ==
    LET t == turn[s]
        disp == [i \in 1..Len(t.pend) |->
                    [id |-> t.pend[i], owner |-> t.req, res |-> NoReq]]
        sent(n) == {Tool(t.pend[i], t.req, i) : i \in 1..n}
        stored(n) == [c \in Calls |->
            IF c \in {t.pend[i] : i \in 1..n} THEN s ELSE call2sess[c]]
    IN  /\ Accepts(s, m)
        /\ t.pend # <<>>
        /\ req2sess' = Unmap(req2sess, {m.req})
        /\ \/ /\ call2sess' = stored(Len(t.pend))
              /\ turn' = [turn EXCEPT ![s] =
                   [t EXCEPT !.phase = "AwaitingTools", !.disp = disp, !.pend = <<>>]]
              /\ bus' = (bus \ {m}) \cup sent(Len(t.pend))
              /\ UNCHANGED <<active, finals, faults>>
           \/ /\ Fault("publish")
              /\ call2sess' = Unmap(call2sess, PendIds(t))
              /\ \E n \in 0..Len(t.pend) - 1 : bus' = (bus \ {m}) \cup sent(n)
              /\ Final(s)
              /\ turn' = [turn EXCEPT ![s] = IdleTurn]
              /\ active' = active \ {s}
           \/ /\ Fault("save")
              /\ \/ call2sess' = Unmap(call2sess, PendIds(t))
                 \/ \E n \in 0..Len(t.pend) - 1 : call2sess' = stored(n)
              /\ bus' = bus \ {m}
              /\ UNCHANGED <<turn, active, finals>>
        /\ UNCHANGED <<hist, own, rounds>>

\* handle_stream_done without tool calls: store the reply, publish it, go Idle.
\* A failed append or publish returns before the phase changes.
StreamDoneText(s, m) ==
    /\ Accepts(s, m)
    /\ turn[s].pend = <<>> /\ turn[s].text
    /\ req2sess' = Unmap(req2sess, {m.req})
    /\ bus' = bus \ {m}
    /\ \/ Final(s) /\ EndTurn(s)
       \/ Fault("rpc") /\ UNCHANGED <<turn, active, finals>>
       \/ Fault("publish") /\ UNCHANGED <<turn, active, finals>>
    /\ UNCHANGED <<call2sess, hist, own, rounds>>

\* An empty reply ends the turn without any response.
StreamDoneEmpty(s, m) ==
    /\ Accepts(s, m)
    /\ turn[s].pend = <<>> /\ ~turn[s].text
    /\ req2sess' = Unmap(req2sess, {m.req})
    /\ bus' = bus \ {m}
    /\ EndTurn(s)
    /\ UNCHANGED <<call2sess, hist, obsVars>>

\* An event that finds the session's phase over its limit; only a Done or an
\* Error is the stream's last one.
StreamTimeOut(s, m) ==
    /\ req2sess[m.req] = s
    /\ TimeOut(s)
    /\ bus' \in {bus, bus \ {m}}

\* The last event of a stream that is no session's current one.
StreamIgnored(m) ==
    /\ \A s \in Sessions : ~Accepts(s, m)
    /\ bus' = bus \ {m}
    /\ UNCHANGED <<kvVars, hist, obsVars, faults>>

HandleLlmStream ==
    \E m \in bus :
        /\ m.type = "llm"
        /\ \/ StreamIgnored(m)
           \/ \E s \in Sessions :
                \/ StreamText(s, m)
                \/ \E c \in Calls : StreamToolCallStart(s, m, c)
                \/ StreamError(s, m)
                \/ StreamDoneTools(s, m)
                \/ StreamDoneText(s, m)
                \/ StreamDoneEmpty(s, m)
                \/ StreamTimeOut(s, m)

-----------------------------------------------------------------------------
\* The dispatched call a result is recorded on: the first with its id.
FirstWithId(disp, c) ==
    {i \in DOMAIN disp : disp[i].id = c
                         /\ \A j \in DOMAIN disp : disp[j].id = c => i <= j}

\* Seeded bug: the result is recorded with the call id in the request's place.
RecordedByCall(t, m) ==
    [t EXCEPT !.disp = [i \in DOMAIN t.disp |->
        IF i \in FirstWithId(t.disp, m.id) THEN [t.disp[i] EXCEPT !.res = m.id]
        ELSE t.disp[i]]]

\* A result whose id no dispatched call has is not recorded anywhere.
Recorded(t, m) ==
    [t EXCEPT !.disp = [i \in DOMAIN t.disp |->
        IF i \in FirstWithId(t.disp, m.id) THEN [t.disp[i] EXCEPT !.res = m.req]
        ELSE t.disp[i]]]

AllDone(t) ==
    /\ t.disp # <<>>
    /\ \A i \in DOMAIN t.disp : t.disp[i].res # NoReq

\* Seeded bug: one round too many.
UnderCapInclusive(t) == t.iter + 1 <= MaxIterations

\* The iteration bound, checked before the round is stored.
UnderCap(t) == t.iter + 1 < MaxIterations

\* handle_tool_result's guards, and the turn_request_id comparison.
AcceptsResult(s, m) ==
    /\ call2sess[m.id] = s
    /\ turn[s].phase = "AwaitingTools"
    /\ \A i \in FirstWithId(turn[s].disp, m.id) : turn[s].disp[i].owner = turn[s].req

ToolResultRecorded(s, m) ==
    /\ AcceptsResult(s, m)
    /\ ~AllDone(Recorded(turn[s], m))
    /\ Save(s, Recorded(turn[s], m))
    /\ bus' = bus \ {m}
    /\ UNCHANGED <<req2sess, call2sess, active, hist, obsVars>>

\* The last result, at the iteration bound.
ToolResultStops(s, m) ==
    /\ AcceptsResult(s, m)
    /\ AllDone(Recorded(turn[s], m))
    /\ ~UnderCap(turn[s])
    /\ Final(s)
    /\ active' = active \ {s}
    /\ \/ /\ turn' = [turn EXCEPT ![s] = IdleTurn]
          /\ call2sess' = Unmap(call2sess, DispIds(turn[s]))
          /\ UNCHANGED faults
       \/ Fault("save") /\ UNCHANGED <<turn, call2sess>>
    /\ bus' = bus \ {m}
    /\ UNCHANGED <<req2sess, hist, own, rounds>>

\* The last result: append the round to the history, commit the next Streaming
\* round, delete the call mappings, ask the LLM again.
ToolResultContinues(s, m) ==
    /\ AcceptsResult(s, m)
    /\ AllDone(Recorded(turn[s], m))
    /\ UnderCap(turn[s])
    /\ \/ \E r \in Requests :
            /\ FreshRequest(r)
            /\ PublishLlmRequest(s, FreshTurn("Streaming", r, turn[s].iter + 1),
                   hist[s], DispIds(turn[s]), bus \ {m})
       \/ /\ Fault("rpc") \/ Fault("rpcLate") \/ Fault("save")
          /\ bus' = bus \ {m}
          /\ UNCHANGED <<kvVars, hist, obsVars>>

ToolResultTimeOut(s, m) ==
    /\ call2sess[m.id] = s
    /\ TimeOut(s)
    /\ bus' = bus \ {m}

ToolResultIgnored(m) ==
    /\ \A s \in Sessions : ~AcceptsResult(s, m)
    /\ bus' = bus \ {m}
    /\ UNCHANGED <<kvVars, hist, obsVars, faults>>

HandleToolResult ==
    \E m \in bus :
        /\ m.type = "tool"
        /\ \/ ToolResultIgnored(m)
           \/ \E s \in Sessions :
                \/ ToolResultRecorded(s, m)
                \/ ToolResultStops(s, m)
                \/ ToolResultContinues(s, m)
                \/ ToolResultTimeOut(s, m)

-----------------------------------------------------------------------------
\* A loop over the active sessions ends the turns of "hit"; the turns of
\* "failed" are unregistered but not saved, those of "mapped" keep their keys.
EndAll(hit, failed, mapped) ==
    /\ failed \subseteq hit
    /\ IF failed = {} THEN UNCHANGED faults ELSE Fault("save")
    /\ turn' = [s \in Sessions |-> IF s \in hit \ failed THEN IdleTurn ELSE turn[s]]
    /\ active' = active \ hit
    /\ finals' = [s \in Sessions |-> IF s \in hit THEN finals[s] + 1 ELSE finals[s]]
    /\ req2sess' = Unmap(req2sess, {turn[s].req : s \in hit \ mapped})
    /\ call2sess' = Unmap(call2sess, UNION {DispIds(turn[s]) : s \in hit \ mapped})
    /\ UNCHANGED <<bus, hist, own, rounds>>

\* Seeded bug: the watchdog looks only at the phases that wait for the LLM or
\* for tools.
WatchdogLatePhases ==
    \E late, failed \in
            SUBSET {s \in active : turn[s].phase \in {"Streaming", "AwaitingTools"}} :
        late # {} /\ EndAll(late, failed, failed)

\* handle_watchdog_tick: the active sessions over their phase limit.
HandleWatchdogTick ==
    \E late, failed \in SUBSET {s \in active : turn[s].phase # "Idle"} :
        late # {} /\ EndAll(late, failed, failed)

\* handle_bus_lag: every active session that may have lost its terminal event.
HandleBusLag ==
    LET hit == {s \in active : turn[s].phase \in {"Streaming", "AwaitingTools"}}
    IN  hit # {} /\ \E failed \in SUBSET hit : EndAll(hit, failed, {})

\* handle_session_clear, once the session capsule has answered: the old turn
\* key is deleted and the session unregistered. Its mappings stay.
HandleSessionClear(s) ==
    /\ turn[s].phase # "Idle" => MidTurnClear
    /\ turn' = [turn EXCEPT ![s] = IdleTurn]
    /\ active' = active \ {s}
    /\ UNCHANGED <<req2sess, call2sess, bus, hist, obsVars, faults>>

\* handle_lifecycle_restart: clear_ephemeral_keys.
HandleLifecycleRestart ==
    /\ turn' = [s \in Sessions |-> IdleTurn]
    /\ req2sess' = [r \in Requests |-> NoSession]
    /\ call2sess' = [c \in Calls |-> NoSession]
    /\ active' = {}
    /\ UNCHANGED <<bus, hist, obsVars, faults>>

Next ==
    \/ \E s \in Sessions : HandleUserPrompt(s)
    \/ \E s \in Sessions : UserPromptAppendFails(s)
    \/ \E s \in Sessions : HandleCancel(s)
    \/ HandleIdentityResponse
    \/ PromptBuilderAssemble
    \/ HandlePromptResponse
    \/ HandleLlmStream
    \/ HandleToolResult
    \/ HandleWatchdogTick
    \/ HandleBusLag
    \/ \E s \in Sessions : HandleSessionClear(s)
    \/ HandleLifecycleRestart

Spec == Init /\ [][Next]_vars
-----------------------------------------------------------------------------
(* Safety *)

\* Every stored TurnState, correlation key and bus message has its shape;
\* in particular a recorded result names the request that produced it.
TypeOK ==
    /\ turn \in [Sessions -> TurnState]
    /\ req2sess \in [Requests -> Sessions \cup {NoSession}]
    /\ call2sess \in [Calls -> Sessions \cup {NoSession}]
    /\ active \subseteq Sessions
    /\ bus \subseteq Messages
    /\ hist \in [Sessions -> Nat] /\ own \in [Sessions -> Nat]
    /\ finals \in [Sessions -> Nat] /\ rounds \in [Sessions -> Nat]
    /\ faults \in Nat

\* The watchdog and the bus-lag handler look only at the sessions in
\* react.active_sessions, so a running turn that is not in the set can hang
\* for ever. Holds as long as no KV write fails.
NonIdleIsWatched == \A s \in Sessions : turn[s].phase # "Idle" => s \in active

\* "Results that arrive immediately are never orphaned" (store_call_sessions
\* before the publishes): while a result is missing, its call id leads to the
\* session, whatever the other sessions' turns did meanwhile.
DispatchedCallsRoutable ==
    \A s \in Sessions : turn[s].phase = "AwaitingTools" =>
        \A i \in DOMAIN turn[s].disp :
            turn[s].disp[i].res = NoReq => call2sess[turn[s].disp[i].id] = s

\* The stream of the request a Streaming turn waits for leads to that session:
\* publish_llm_request stores the key before the request can be answered, and
\* nothing deletes it while the stream is open.
OpenStreamRoutable ==
    \A s \in Sessions, m \in bus :
        m.type = "llm" /\ turn[s].phase = "Streaming" /\ turn[s].req = m.req
            => req2sess[m.req] = s

\* One prompt asks the LLM at most max_iterations times, whatever mix of
\* tool rounds, stale events and faults it lives through.
IterationCap == \A s \in Sessions : rounds[s] <= MaxIterations

\* A frontend closes its turn on is_final; two of them for one prompt would
\* close the next prompt's turn early.
AtMostOneFinal == \A s \in Sessions : finals[s] <= 1

\* Correlation keys never outlive the turn they were written for (the reason
\* cleanup_inflight_mappings exists).
MappingsAreLive ==
    /\ \A r \in Requests, s \in Sessions :
          req2sess[r] = s => turn[s].req = r /\ turn[s].phase = "Streaming"
    /\ \A c \in Calls, s \in Sessions :
          call2sess[c] = s =>
              turn[s].phase = "AwaitingTools" /\ c \in DispIds(turn[s])

\* An LLM or tool event that outlived its request (a cancelled, timed-out or
\* replaced turn, or a restart) changes nothing when it is finally handled.
LateEventIsInert(m) ==
    (m.type \in {"llm", "tool"} /\ \A s \in Sessions : turn[s].req # m.req)
        => UNCHANGED <<kvVars, finals>>

LateEventsAreInert == [][\A m \in bus \ bus' : LateEventIsInert(m)]_vars

\* redrive_if_unready's premise: the assembled prompt a turn accepts was built
\* for it, so the LLM is asked about a history that holds the user's message.
SeesOwnPrompt ==
    \A s \in Sessions, m \in bus :
        m.type = "llm" /\ req2sess[m.req] = s => m.ctx >= own[s]

\* handle_bus_lag: "the watchdog is the backstop for any session whose Idle
\* reset failed to persist here", so such a session must stay watched.
LagLeavesWatched ==
    [][HandleBusLag => \A s \in active : turn'[s].phase # "Idle" => s \in active']_vars

-----------------------------------------------------------------------------
(* Liveness *)

\* The last event of an open stream is delivered (for the fairness of MCProgress).
StreamEnds ==
    \E m \in bus :
        /\ m.type = "llm"
        /\ \/ StreamIgnored(m)
           \/ \E s \in Sessions :
                StreamError(s, m) \/ StreamDoneTools(s, m)
                    \/ StreamDoneText(s, m) \/ StreamDoneEmpty(s, m)
==============================================================================
