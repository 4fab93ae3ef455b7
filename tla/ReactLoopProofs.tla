--------------------------- MODULE ReactLoopProofs ---------------------------
(***************************************************************************)
(* Theorems about the turns of capsule-react, for every set of sessions,   *)
(* requests and calls, every bound and whatever fails: their types, the    *)
(* set the watchdog looks at, what one prompt may cost and how often it is *)
(* answered, and where the events of its stream and of its tool calls go.  *)
(***************************************************************************)
EXTENDS ReactLoop, TLAPS

-----------------------------------------------------------------------------
(* Types *)

\* A running turn has a request: only then are the LLM and tool messages it
\* sends well typed, so TypeOK alone is not inductive.
RunningHasRequest ==
    \A s \in Sessions : turn[s].phase # "Idle" => turn[s].req \in Requests

LEMMA FreshTurnType ==
    ASSUME NEW phase \in Phases, NEW req \in Requests \cup {NoReq}, NEW iter \in Nat
    PROVE  FreshTurn(phase, req, iter) \in TurnState
BY DEF FreshTurn, TurnState

LEMMA IdleTurnType == IdleTurn \in TurnState
BY FreshTurnType DEF IdleTurn, Phases

\* Deleting keys keeps a correlation map a map.
LEMMA UnmapType ==
    ASSUME NEW K, NEW f \in [K -> Sessions \cup {NoSession}], NEW keys
    PROVE  Unmap(f, keys) \in [K -> Sessions \cup {NoSession}]
BY DEF Unmap

LEMMA CleanupType ==
    ASSUME TypeOK, NEW s \in Sessions, CleanupInflight(s)
    PROVE  /\ req2sess' \in [Requests -> Sessions \cup {NoSession}]
           /\ call2sess' \in [Calls -> Sessions \cup {NoSession}]
BY UnmapType DEF TypeOK, CleanupInflight

LEMMA SaveType ==
    ASSUME TypeOK, NEW s \in Sessions, NEW t \in TurnState, Save(s, t)
    PROVE  turn' \in [Sessions -> TurnState] /\ faults' \in Nat
BY DEF TypeOK, Save, Fault

LEMMA TimeOutType ==
    ASSUME TypeOK, NEW s \in Sessions, TimeOut(s), bus' \subseteq Messages
    PROVE  TypeOK'
<1>1. turn' \in [Sessions -> TurnState] /\ faults' \in Nat
  BY IdleTurnType DEF TypeOK, TimeOut, Fault
<1>2. /\ req2sess' \in [Requests -> Sessions \cup {NoSession}]
      /\ call2sess' \in [Calls -> Sessions \cup {NoSession}]
  BY CleanupType DEF TypeOK, TimeOut
<1>3. /\ active' \subseteq Sessions /\ finals' \in [Sessions -> Nat]
      /\ UNCHANGED <<hist, own, rounds>>
  BY DEF TypeOK, TimeOut, Final
<1> QED
  BY <1>1, <1>2, <1>3 DEF TypeOK

LEMMA PromptType ==
    ASSUME TypeOK, NEW s \in Sessions, HandleUserPrompt(s)
    PROVE  TypeOK'
<1>1. hist' \in [Sessions -> Nat] /\ hist[s] + 1 \in Nat
  BY DEF TypeOK, HandleUserPrompt, Fault, CleanupInflight
<1>2. turn' \in [Sessions -> TurnState]
  <2>1. \A r \in Requests : FreshTurn("AwaitingIdentity", r, 0) \in TurnState
    BY FreshTurnType DEF Phases
  <2> QED
    BY <2>1 DEF TypeOK, HandleUserPrompt
<1>3. Spark(s, hist[s] + 1, 0) \in Messages
  BY <1>1 DEF Spark, Messages
<1>4. bus' \subseteq Messages /\ active' \subseteq Sessions /\ faults' \in Nat
  BY <1>3 DEF TypeOK, HandleUserPrompt, Fault
<1>5. /\ own' \in [Sessions -> Nat] /\ finals' \in [Sessions -> Nat]
      /\ rounds' \in [Sessions -> Nat]
  BY <1>1 DEF TypeOK, HandleUserPrompt, obsVars
<1>6. CleanupInflight(s)
  BY DEF HandleUserPrompt
<1> QED
  BY <1>1, <1>2, <1>4, <1>5, <1>6, CleanupType DEF TypeOK

LEMMA TearDownType ==
    ASSUME TypeOK, NEW s \in Sessions, TearDown(s)
    PROVE  /\ turn' \in [Sessions -> TurnState] /\ faults' \in Nat
           /\ req2sess' \in [Requests -> Sessions \cup {NoSession}]
           /\ call2sess' \in [Calls -> Sessions \cup {NoSession}]
           /\ active' \subseteq Sessions
<1>1. turn' \in [Sessions -> TurnState] /\ faults' \in Nat
  BY SaveType, IdleTurnType DEF TearDown, EndTurn
<1>2. active' \subseteq Sessions
  BY DEF TypeOK, TearDown, EndTurn
<1> QED
  BY <1>1, <1>2, CleanupType DEF TearDown

LEMMA RedriveType ==
    ASSUME TypeOK, NEW m \in bus, m.type \in {"spark", "assembled"},
           NEW expected, Redrive(m, expected)
    PROVE  TypeOK'
<1>1. [m EXCEPT !.retry = @ + 1] \in Messages
  BY DEF TypeOK, Messages
<1>2. bus' \subseteq Messages /\ faults' \in Nat
  BY <1>1 DEF TypeOK, Redrive, Fault
<1> QED
  BY <1>2 DEF TypeOK, Redrive, kvVars, obsVars

LEMMA NextPhaseType ==
    ASSUME TypeOK, NEW s \in Sessions, NEW phase \in Phases
    PROVE  [turn[s] EXCEPT !.phase = phase] \in TurnState
BY DEF TypeOK, TurnState

LEMMA AcceptIdentityType ==
    ASSUME TypeOK, NEW m \in bus, m.type = "spark", AcceptIdentity(m)
    PROVE  TypeOK'
<1> DEFINE next == [turn[m.s] EXCEPT !.phase = "AwaitingPromptBuild"]
<1>1. m.s \in Sessions
  BY DEF TypeOK, Messages
<1>2. next \in TurnState
  BY <1>1, NextPhaseType DEF Phases
<1>3. Assemble(m.s, own[m.s]) \in Messages
  BY <1>1 DEF TypeOK, Messages, Assemble
<1>4. turn' \in [Sessions -> TurnState]
  BY <1>1, <1>2, IdleTurnType DEF TypeOK, AcceptIdentity, kvVars
<1>5. bus' \subseteq Messages /\ faults' \in Nat
  BY <1>3 DEF TypeOK, AcceptIdentity, Fault
<1>6. /\ req2sess' \in [Requests -> Sessions \cup {NoSession}]
      /\ call2sess' \in [Calls -> Sessions \cup {NoSession}]
      /\ active' \subseteq Sessions
  BY <1>1, CleanupType DEF TypeOK, AcceptIdentity, FailNoModel, kvVars
<1>7. /\ hist' \in [Sessions -> Nat] /\ own' \in [Sessions -> Nat]
      /\ finals' \in [Sessions -> Nat] /\ rounds' \in [Sessions -> Nat]
  BY <1>1 DEF TypeOK, AcceptIdentity, FailNoModel, Final, obsVars
<1> QED
  BY <1>4, <1>5, <1>6, <1>7 DEF TypeOK

LEMMA PublishType ==
    ASSUME TypeOK, NEW s \in Sessions, NEW t \in TurnState, t.req \in Requests,
           NEW c \in Nat, NEW calls, NEW rest \in SUBSET Messages,
           PublishLlmRequest(s, t, c, calls, rest)
    PROVE  TypeOK'
<1>1. turn' \in [Sessions -> TurnState] /\ faults' \in Nat
  BY IdleTurnType DEF TypeOK, PublishLlmRequest, Fault
<1>2. /\ req2sess' \in [Requests -> Sessions \cup {NoSession}]
      /\ call2sess' \in [Calls -> Sessions \cup {NoSession}]
  BY UnmapType DEF TypeOK, PublishLlmRequest
<1>3. Llm(t.req, c) \in Messages
  BY DEF Llm, Messages
<1>4. bus' \subseteq Messages /\ active' \subseteq Sessions
  BY <1>3 DEF TypeOK, PublishLlmRequest
<1>5. /\ hist' \in [Sessions -> Nat] /\ own' \in [Sessions -> Nat]
      /\ finals' \in [Sessions -> Nat] /\ rounds' \in [Sessions -> Nat]
  BY DEF TypeOK, PublishLlmRequest, Final, obsVars
<1> QED
  BY <1>1, <1>2, <1>4, <1>5 DEF TypeOK

LEMMA AcceptAssembledType ==
    ASSUME TypeOK, RunningHasRequest, NEW m \in bus, m.type = "assembled",
           AcceptAssembled(m)
    PROVE  TypeOK'
<1> DEFINE next == [turn[m.s] EXCEPT !.phase = "Streaming"]
<1>1. m.s \in Sessions /\ m.ctx \in Nat
  BY DEF TypeOK, Messages
<1>2. next \in TurnState
  BY <1>1, NextPhaseType DEF Phases
<1>3. next.req \in Requests
  BY <1>1, <1>2 DEF TypeOK, TurnState, AcceptAssembled, RunningHasRequest
<1>4. CASE PublishLlmRequest(m.s, next, m.ctx, {}, bus \ {m})
  <2>1. bus \ {m} \in SUBSET Messages
    BY DEF TypeOK
  <2> QED
    BY <1>1, <1>2, <1>3, <1>4, <2>1, PublishType
<1>5. CASE Fault("save") /\ bus' = bus \ {m} /\ UNCHANGED <<kvVars, hist, obsVars>>
  BY <1>5 DEF TypeOK, Fault, kvVars, obsVars
<1> QED
  BY <1>4, <1>5 DEF AcceptAssembled

LEMMA DispatchType ==
    ASSUME NEW t \in TurnState, NEW disp \in Seq(Dispatched)
    PROVE  [t EXCEPT !.phase = "AwaitingTools", !.disp = disp, !.pend = <<>>]
               \in TurnState
<1>1. <<>> \in Seq(Calls)
  OBVIOUS
<1> QED
  BY <1>1 DEF TurnState, Phases

LEMMA StreamTypes ==
    ASSUME TypeOK, RunningHasRequest, HandleLlmStream
    PROVE  TypeOK'
<1>1. PICK m \in bus :
          /\ m.type = "llm"
          /\ \/ StreamIgnored(m)
             \/ \E s \in Sessions :
                  \/ StreamText(s, m)
                  \/ \E c \in Calls : StreamToolCallStart(s, m, c)
                  \/ StreamError(s, m)
                  \/ StreamDoneTools(s, m)
                  \/ StreamDoneText(s, m)
                  \/ StreamDoneEmpty(s, m)
                  \/ StreamTimeOut(s, m)
  BY DEF HandleLlmStream
<1>2. m.req \in Requests
  BY <1>1 DEF TypeOK, Messages
<1>3. CASE StreamIgnored(m)
  BY <1>3 DEF TypeOK, StreamIgnored, kvVars, obsVars
<1>4. ASSUME NEW s \in Sessions, StreamText(s, m) PROVE TypeOK'
  <2>1. [turn[s] EXCEPT !.text = TRUE] \in TurnState
    BY DEF TypeOK, TurnState
  <2> QED
    BY <1>4, <2>1, SaveType DEF TypeOK, StreamText, obsVars
<1>5. ASSUME NEW s \in Sessions, NEW c \in Calls, StreamToolCallStart(s, m, c)
      PROVE  TypeOK'
  <2>1. [turn[s] EXCEPT !.pend = Append(@, c)] \in TurnState
    <3>1. turn[s] \in TurnState /\ Append(turn[s].pend, c) \in Seq(Calls)
      BY DEF TypeOK, TurnState
    <3> QED
      BY <3>1 DEF TurnState
  <2> QED
    BY <1>5, <2>1, SaveType DEF TypeOK, StreamToolCallStart, obsVars
<1>6. ASSUME NEW s \in Sessions, StreamError(s, m) PROVE TypeOK'
  <2>1. finals' \in [Sessions -> Nat] /\ bus' \subseteq Messages
    BY <1>6 DEF TypeOK, StreamError, Final
  <2> QED
    BY <1>6, <2>1, TearDownType DEF TypeOK, StreamError
<1>7. ASSUME NEW s \in Sessions, StreamDoneTools(s, m) PROVE TypeOK'
  <2> DEFINE t == turn[s]
             disp == [i \in 1..Len(t.pend) |->
                        [id |-> t.pend[i], owner |-> t.req, res |-> NoReq]]
             sent(n) == {Tool(t.pend[i], t.req, i) : i \in 1..n}
             stored(n) == [c \in Calls |->
                 IF c \in {t.pend[i] : i \in 1..n} THEN s ELSE call2sess[c]]
             next == [t EXCEPT !.phase = "AwaitingTools", !.disp = disp, !.pend = <<>>]
  <2>1. t \in TurnState /\ t.req \in Requests /\ t.pend \in Seq(Calls)
    BY <1>7 DEF TypeOK, TurnState, StreamDoneTools, Accepts, RunningHasRequest
  <2>2. disp \in Seq(Dispatched)
    <3>1. \A i \in 1..Len(t.pend) :
              [id |-> t.pend[i], owner |-> t.req, res |-> NoReq] \in Dispatched
      BY <2>1 DEF Dispatched
    <3>2. Len(t.pend) \in Nat
      BY <2>1
    <3> QED
      BY <3>1, <3>2
  <2>3. next \in TurnState
    <3> HIDE DEF disp
    <3> QED
      BY <2>1, <2>2, DispatchType
  <2>4. \A n \in 0..Len(t.pend) : sent(n) \subseteq Messages
    BY <2>1 DEF Tool, Messages
  <2>5. \A n \in Nat : stored(n) \in [Calls -> Sessions \cup {NoSession}]
    BY DEF TypeOK
  <2>6. Unmap(call2sess, PendIds(t)) \in [Calls -> Sessions \cup {NoSession}]
    BY UnmapType DEF TypeOK
  <2>7. req2sess' \in [Requests -> Sessions \cup {NoSession}]
    BY <1>7, UnmapType DEF TypeOK, StreamDoneTools
  <2> HIDE DEF disp, sent, stored, next
  <2>8. \/ /\ call2sess' = stored(Len(t.pend))
           /\ turn' = [turn EXCEPT ![s] = next]
           /\ bus' = (bus \ {m}) \cup sent(Len(t.pend))
           /\ UNCHANGED <<active, finals, faults>>
        \/ /\ Fault("publish")
           /\ call2sess' = Unmap(call2sess, PendIds(t))
           /\ \E n \in 0..Len(t.pend) - 1 : bus' = (bus \ {m}) \cup sent(n)
           /\ Final(s)
           /\ turn' = [turn EXCEPT ![s] = IdleTurn]
           /\ active' = active \ {s}
        \/ /\ Fault("save")
           /\ \/ call2sess' = Unmap(call2sess, PendIds(t))
              \/ \E n \in 0..Len(t.pend) - 1 : call2sess' = stored(n)
           /\ bus' = bus \ {m}
           /\ UNCHANGED <<turn, active, finals>>
    BY <1>7 DEF StreamDoneTools, disp, sent, stored, next
  <2>9. Len(t.pend) \in Nat
    BY <2>1
  <2>10. turn' \in {turn, [turn EXCEPT ![s] = next], [turn EXCEPT ![s] = IdleTurn]}
    BY <2>8
  <2>11. turn' \in [Sessions -> TurnState]
    BY <2>3, <2>10, IdleTurnType DEF TypeOK
  <2>12. call2sess' \in [Calls -> Sessions \cup {NoSession}]
    BY <2>5, <2>6, <2>8, <2>9
  <2>13. bus' \subseteq Messages
    <3>1. \E n \in 0..Len(t.pend) : bus' \subseteq bus \cup sent(n)
      BY <2>8, <2>9
    <3> QED
      BY <2>4, <3>1 DEF TypeOK
  <2>14. active' \in {active, active \ {s}}
    BY <2>8
  <2>15. finals' \in {finals, [finals EXCEPT ![s] = @ + 1]}
    BY <2>8 DEF Final
  <2>16. faults' \in {faults, faults + 1}
    BY <2>8 DEF Fault
  <2>17. /\ active' \subseteq Sessions /\ finals' \in [Sessions -> Nat]
         /\ faults' \in Nat
    BY <2>14, <2>15, <2>16 DEF TypeOK
  <2> QED
    BY <1>7, <2>7, <2>11, <2>12, <2>13, <2>17 DEF TypeOK, StreamDoneTools
<1>8. ASSUME NEW s \in Sessions, StreamDoneText(s, m) PROVE TypeOK'
  <2>1. turn' \in [Sessions -> TurnState] /\ faults' \in Nat
    BY <1>8, SaveType, IdleTurnType DEF TypeOK, StreamDoneText, EndTurn, Fault
  <2>2. active' \in {active, active \ {s}}
    BY <1>8 DEF StreamDoneText, EndTurn
  <2>3. finals' \in {finals, [finals EXCEPT ![s] = @ + 1]}
    BY <1>8 DEF StreamDoneText, Final
  <2>4. active' \subseteq Sessions /\ finals' \in [Sessions -> Nat]
    BY <2>2, <2>3 DEF TypeOK
  <2> QED
    BY <1>8, <2>1, <2>4, UnmapType DEF TypeOK, StreamDoneText
<1>9. ASSUME NEW s \in Sessions, StreamDoneEmpty(s, m) PROVE TypeOK'
  <2>1. turn' \in [Sessions -> TurnState] /\ faults' \in Nat
    BY <1>9, SaveType, IdleTurnType DEF StreamDoneEmpty, EndTurn
  <2>2. active' \subseteq Sessions
    BY <1>9 DEF TypeOK, StreamDoneEmpty, EndTurn
  <2> QED
    BY <1>9, <2>1, <2>2, UnmapType DEF TypeOK, StreamDoneEmpty, obsVars
<1>10. ASSUME NEW s \in Sessions, StreamTimeOut(s, m) PROVE TypeOK'
  BY <1>10, TimeOutType DEF TypeOK, StreamTimeOut
<1> QED
  BY <1>1, <1>3, <1>4, <1>5, <1>6, <1>7, <1>8, <1>9, <1>10

LEMMA RecordedType ==
    ASSUME NEW t \in TurnState, NEW m \in Messages, m.type = "tool"
    PROVE  Recorded(t, m) \in TurnState
<1> DEFINE d == [i \in DOMAIN t.disp |->
        IF i \in FirstWithId(t.disp, m.id) THEN [t.disp[i] EXCEPT !.res = m.req]
        ELSE t.disp[i]]
<1>1. m.req \in Requests
  BY DEF Messages
<1>2. t.disp \in Seq(Dispatched)
  BY DEF TurnState
<1>3. \A i \in DOMAIN t.disp : d[i] \in Dispatched
  <2> TAKE i \in DOMAIN t.disp
  <2>1. t.disp[i] \in Dispatched
    BY <1>2
  <2>2. [t.disp[i] EXCEPT !.res = m.req] \in Dispatched
    BY <1>1, <2>1 DEF Dispatched
  <2> QED
    BY <2>1, <2>2
<1>4. d \in Seq(Dispatched)
  <2>1. DOMAIN d = 1..Len(t.disp) /\ Len(t.disp) \in Nat
    BY <1>2
  <2> HIDE DEF d
  <2>2. d = [i \in 1..Len(t.disp) |-> d[i]]
    BY <2>1 DEF d
  <2> QED
    BY <1>2, <1>3, <2>1, <2>2
<1> HIDE DEF d
<1>5. [t EXCEPT !.disp = d] \in TurnState
  BY <1>4 DEF TurnState
<1> QED
  BY <1>5 DEF Recorded, d

LEMMA ToolTypes ==
    ASSUME TypeOK, RunningHasRequest, HandleToolResult
    PROVE  TypeOK'
<1>1. PICK m \in bus :
          /\ m.type = "tool"
          /\ \/ ToolResultIgnored(m)
             \/ \E s \in Sessions :
                  \/ ToolResultRecorded(s, m)
                  \/ ToolResultStops(s, m)
                  \/ ToolResultContinues(s, m)
                  \/ ToolResultTimeOut(s, m)
  BY DEF HandleToolResult
<1>2. CASE ToolResultIgnored(m)
  BY <1>2 DEF TypeOK, ToolResultIgnored, kvVars, obsVars
<1>3. ASSUME NEW s \in Sessions, ToolResultRecorded(s, m) PROVE TypeOK'
  <2>1. Recorded(turn[s], m) \in TurnState
    BY <1>1, RecordedType DEF TypeOK
  <2>2. turn' \in [Sessions -> TurnState] /\ faults' \in Nat
    BY <1>3, <2>1, SaveType DEF ToolResultRecorded
  <2> QED
    BY <1>3, <2>2 DEF TypeOK, ToolResultRecorded, obsVars
<1>4. ASSUME NEW s \in Sessions, ToolResultStops(s, m) PROVE TypeOK'
  <2>1. turn' \in {turn, [turn EXCEPT ![s] = IdleTurn]}
    BY <1>4 DEF ToolResultStops
  <2>2. call2sess' \in {call2sess, Unmap(call2sess, DispIds(turn[s]))}
    BY <1>4 DEF ToolResultStops
  <2>3. faults' \in {faults, faults + 1}
    BY <1>4 DEF ToolResultStops, Fault
  <2>4. finals' = [finals EXCEPT ![s] = @ + 1]
    BY <1>4 DEF ToolResultStops, Final
  <2>5. turn' \in [Sessions -> TurnState]
    BY <2>1, IdleTurnType DEF TypeOK
  <2>6. call2sess' \in [Calls -> Sessions \cup {NoSession}]
    BY <2>2, UnmapType DEF TypeOK
  <2>7. finals' \in [Sessions -> Nat] /\ faults' \in Nat
    BY <2>3, <2>4 DEF TypeOK
  <2> QED
    BY <1>4, <2>5, <2>6, <2>7 DEF TypeOK, ToolResultStops
<1>5. ASSUME NEW s \in Sessions, ToolResultContinues(s, m) PROVE TypeOK'
  <2>1. CASE UNCHANGED <<kvVars, hist, obsVars>> /\ bus' = bus \ {m}
             /\ faults' \in {faults, faults + 1}
    BY <2>1 DEF TypeOK, kvVars, obsVars
  <2>2. ASSUME NEW r \in Requests,
               PublishLlmRequest(s, FreshTurn("Streaming", r, turn[s].iter + 1),
                                 hist[s], DispIds(turn[s]), bus \ {m})
        PROVE  TypeOK'
    <3>1. turn[s].iter + 1 \in Nat /\ hist[s] \in Nat /\ bus \ {m} \in SUBSET Messages
      BY DEF TypeOK, TurnState
    <3>2. FreshTurn("Streaming", r, turn[s].iter + 1) \in TurnState
      BY <3>1, FreshTurnType DEF Phases
    <3>3. FreshTurn("Streaming", r, turn[s].iter + 1).req \in Requests
      BY DEF FreshTurn
    <3> HIDE DEF FreshTurn
    <3> QED
      BY <2>2, <3>1, <3>2, <3>3, PublishType
  <2> QED
    BY <1>5, <2>1, <2>2 DEF ToolResultContinues, Fault
<1>6. ASSUME NEW s \in Sessions, ToolResultTimeOut(s, m) PROVE TypeOK'
  <2>1. bus' \subseteq Messages
    BY <1>6 DEF TypeOK, ToolResultTimeOut
  <2> QED
    BY <1>6, <2>1, TimeOutType DEF ToolResultTimeOut
<1> QED
  BY <1>1, <1>2, <1>3, <1>4, <1>5, <1>6

LEMMA EndAllType ==
    ASSUME TypeOK, NEW hit, NEW failed, NEW mapped, EndAll(hit, failed, mapped)
    PROVE  TypeOK'
<1>1. faults' \in {faults, faults + 1}
  BY DEF EndAll, Fault
<1>2. turn' \in [Sessions -> TurnState] /\ finals' \in [Sessions -> Nat]
  BY IdleTurnType DEF TypeOK, EndAll
<1>3. /\ req2sess' \in [Requests -> Sessions \cup {NoSession}]
      /\ call2sess' \in [Calls -> Sessions \cup {NoSession}]
  BY UnmapType DEF TypeOK, EndAll
<1> QED
  BY <1>1, <1>2, <1>3 DEF TypeOK, EndAll

-----------------------------------------------------------------------------
(* What a step does to one session's turn and to the watched set *)

NoSaveFaults == "save" \notin FaultKinds

Keeps(s) == turn'[s] = turn[s]
Stops(s) == turn'[s] = IdleTurn
Moves(s) ==
    /\ turn[s].phase # "Idle" /\ turn'[s].phase # "Idle"
    /\ turn'[s].req = turn[s].req
Starts(s) == \E r \in Requests :
    FreshRequest(r) /\ turn'[s].req = r /\ turn'[s].phase # "Idle"

\* Only the session sx may change; it is watched when it starts from Idle, and
\* unwatched only when it stops.
OneTurn(sx) ==
    /\ sx \in Sessions
    /\ \A s \in Sessions \ {sx} : Keeps(s) /\ (s \in active => s \in active')
    /\ Keeps(sx) \/ Moves(sx) \/ Starts(sx) \/ Stops(sx)
    /\ NoSaveFaults =>
          /\ sx \in active => sx \in active' \/ Stops(sx)
          /\ turn[sx].phase = "Idle" => sx \in active' \/ Stops(sx) \/ Keeps(sx)

\* Sessions are unwatched only as their turns stop.
TurnsStop ==
    \A s \in Sessions :
        /\ Keeps(s) \/ Stops(s)
        /\ NoSaveFaults => (s \in active => s \in active' \/ Stops(s))

LEMMA KeepAll ==
    ASSUME UNCHANGED <<turn, active>>
    PROVE  TurnsStop
BY DEF TurnsStop, Keeps

LEMMA StopOne ==
    ASSUME TypeOK, NEW s \in Sessions, active' \in {active, active \ {s}},
           \/ turn' = [turn EXCEPT ![s] = IdleTurn]
           \/ turn' = turn /\ (active' = active \/ ~NoSaveFaults)
    PROVE  TurnsStop
BY DEF TypeOK, TurnsStop, Keeps, Stops

LEMMA FreshTurnFields ==
    ASSUME NEW phase, NEW req, NEW iter
    PROVE  /\ FreshTurn(phase, req, iter).phase = phase
           /\ FreshTurn(phase, req, iter).req = req
           /\ FreshTurn(phase, req, iter).pend = <<>>
           /\ FreshTurn(phase, req, iter).disp = <<>>
BY DEF FreshTurn

LEMMA MoveOne ==
    ASSUME TypeOK, NEW s \in Sessions, NEW t \in TurnState,
           turn' = [turn EXCEPT ![s] = t], active \subseteq active',
           turn[s].phase # "Idle", t.phase # "Idle", t.req = turn[s].req
    PROVE  OneTurn(s)
<1>1. Moves(s) /\ ~Starts(s)
  <2>1. turn'[s] = t
    BY DEF TypeOK
  <2> QED
    BY <2>1 DEF Moves, Starts, FreshRequest
<1>2. \A x \in Sessions \ {s} : Keeps(x)
  BY DEF TypeOK, Keeps
<1> QED
  BY <1>1, <1>2 DEF OneTurn

LEMMA PromptStep ==
    ASSUME TypeOK, NEW s \in Sessions, HandleUserPrompt(s)
    PROVE  OneTurn(s) \/ TurnsStop
<1>1. CASE turn' = turn
  BY <1>1 DEF TurnsStop, Keeps, HandleUserPrompt
<1>2. ASSUME NEW r \in Requests, FreshRequest(r),
             turn' = [turn EXCEPT ![s] = FreshTurn("AwaitingIdentity", r, 0)],
             NoSaveFaults => active' = active \cup {s},
             active \subseteq active'
      PROVE  OneTurn(s)
  <2>1. Starts(s)
    BY <1>2, FreshTurnFields DEF TypeOK, Starts
  <2>2. \A x \in Sessions \ {s} : Keeps(x)
    BY <1>2 DEF TypeOK, Keeps
  <2> QED
    BY <1>2, <2>1, <2>2 DEF OneTurn
<1> QED
  BY <1>1, <1>2 DEF HandleUserPrompt, Fault, NoSaveFaults

LEMMA TearDownStep ==
    ASSUME TypeOK, NEW s \in Sessions, EndTurn(s)
    PROVE  TurnsStop
BY StopOne DEF EndTurn, Save, Fault, NoSaveFaults

LEMMA TimeOutStep ==
    ASSUME TypeOK, NEW s \in Sessions, TimeOut(s)
    PROVE  TurnsStop
BY StopOne DEF TimeOut, Fault, NoSaveFaults

LEMMA EndAllStep ==
    ASSUME TypeOK, NEW hit, NEW failed, NEW mapped, EndAll(hit, failed, mapped)
    PROVE  TurnsStop
<1>1. NoSaveFaults => failed = {}
  BY DEF EndAll, Fault, NoSaveFaults
<1> QED
  BY <1>1 DEF EndAll, TurnsStop, Keeps, Stops

LEMMA PublishStep ==
    ASSUME TypeOK, NEW s \in Sessions, NEW t \in TurnState, NEW c, NEW calls, NEW rest,
           PublishLlmRequest(s, t, c, calls, rest), turn[s].phase # "Idle",
           t.phase # "Idle", t.req = turn[s].req \/ (FreshRequest(t.req) /\ t.req \in Requests)
    PROVE  OneTurn(s) \/ TurnsStop
<1>1. CASE turn' = [turn EXCEPT ![s] = IdleTurn] /\ active' = active \ {s}
  BY <1>1, StopOne
<1>2. CASE turn' = [turn EXCEPT ![s] = t] /\ (active' = active \/ ~NoSaveFaults)
  <2>1. turn'[s] = t /\ \A x \in Sessions \ {s} : Keeps(x)
    BY <1>2 DEF TypeOK, Keeps
  <2>2. Moves(s) \/ Starts(s)
    BY <2>1 DEF Moves, Starts
  <2>3. \A x \in Sessions \ {s} : x \in active => x \in active'
    BY DEF PublishLlmRequest
  <2> QED
    BY <1>2, <2>1, <2>2, <2>3 DEF OneTurn
<1> QED
  BY <1>1, <1>2 DEF PublishLlmRequest, Fault, NoSaveFaults

LEMMA IdentityStep ==
    ASSUME TypeOK, NEW m \in bus, m.type = "spark", AcceptIdentity(m)
    PROVE  OneTurn(m.s) \/ TurnsStop
<1> DEFINE next == [turn[m.s] EXCEPT !.phase = "AwaitingPromptBuild"]
<1>1. m.s \in Sessions /\ turn[m.s].phase # "Idle"
  BY DEF TypeOK, Messages, AcceptIdentity
<1>2. next \in TurnState
  BY <1>1, NextPhaseType DEF Phases
<1>3. next.phase = "AwaitingPromptBuild" /\ next.req = turn[m.s].req
  BY <1>1 DEF TypeOK, TurnState
<1> HIDE DEF next
<1>4. \/ turn' = [turn EXCEPT ![m.s] = next] /\ (active' = active \/ ~NoSaveFaults)
         /\ active' \in {active, active \ {m.s}}
      \/ turn' = [turn EXCEPT ![m.s] = IdleTurn] /\ active' = active \ {m.s}
      \/ UNCHANGED <<turn, active>>
  BY DEF AcceptIdentity, FailNoModel, Fault, NoSaveFaults, kvVars, next
<1>5. CASE turn' = [turn EXCEPT ![m.s] = next] /\ (active' = active \/ ~NoSaveFaults)
           /\ active' \in {active, active \ {m.s}}
  <2>1. Moves(m.s)
    BY <1>1, <1>3, <1>5 DEF TypeOK, Moves
  <2>2. \A x \in Sessions \ {m.s} : Keeps(x) /\ (x \in active => x \in active')
    BY <1>5 DEF TypeOK, Keeps
  <2> QED
    BY <1>1, <1>5, <2>1, <2>2 DEF OneTurn
<1> QED
  BY <1>1, <1>4, <1>5, StopOne, KeepAll

LEMMA AssembledStep ==
    ASSUME TypeOK, NEW m \in bus, m.type = "assembled", AcceptAssembled(m)
    PROVE  OneTurn(m.s) \/ TurnsStop
<1> DEFINE next == [turn[m.s] EXCEPT !.phase = "Streaming"]
<1>1. m.s \in Sessions /\ turn[m.s].phase # "Idle"
  BY DEF TypeOK, Messages, AcceptAssembled
<1>2. next \in TurnState
  BY <1>1, NextPhaseType DEF Phases
<1>3. next.phase = "Streaming" /\ next.req = turn[m.s].req
  BY <1>1 DEF TypeOK, TurnState
<1> HIDE DEF next
<1>4. \/ PublishLlmRequest(m.s, next, m.ctx, {}, bus \ {m})
      \/ UNCHANGED <<turn, active>>
  BY DEF AcceptAssembled, kvVars, next
<1> QED
  BY <1>1, <1>2, <1>3, <1>4, PublishStep, KeepAll

LEMMA StreamStep ==
    ASSUME TypeOK, HandleLlmStream
    PROVE  TurnsStop \/ \E s \in Sessions : OneTurn(s)
<1>1. ASSUME NEW m \in bus, StreamIgnored(m) PROVE TurnsStop
  BY <1>1, KeepAll DEF StreamIgnored, kvVars
<1>2. ASSUME NEW s \in Sessions, NEW t \in TurnState, t.phase = "Streaming",
             t.req = turn[s].req, turn[s].phase = "Streaming", Save(s, t),
             active' = active
      PROVE  TurnsStop \/ OneTurn(s)
  BY <1>2, MoveOne, KeepAll DEF Save
<1>3. ASSUME NEW m \in bus, NEW s \in Sessions, StreamText(s, m)
      PROVE  TurnsStop \/ OneTurn(s)
  <2> DEFINE t == [turn[s] EXCEPT !.text = TRUE]
  <2>1. t \in TurnState /\ t.phase = turn[s].phase /\ t.req = turn[s].req
    BY DEF TypeOK, TurnState
  <2>2. turn[s].phase = "Streaming" /\ Save(s, t) /\ active' = active
    BY <1>3 DEF StreamText, Accepts
  <2> HIDE DEF t
  <2> QED
    BY <1>2, <2>1, <2>2
<1>4. ASSUME NEW m \in bus, NEW s \in Sessions, NEW c \in Calls,
             StreamToolCallStart(s, m, c)
      PROVE  TurnsStop \/ OneTurn(s)
  <2> DEFINE p == Append(turn[s].pend, c)
             t == [turn[s] EXCEPT !.pend = p]
  <2>1. turn[s] \in TurnState /\ p \in Seq(Calls)
    BY DEF TypeOK, TurnState
  <2>2. turn[s].phase = "Streaming" /\ Save(s, t) /\ active' = active
    BY <1>4 DEF StreamToolCallStart, Accepts
  <2> HIDE DEF p
  <2>3. t \in TurnState /\ t.phase = turn[s].phase /\ t.req = turn[s].req
    BY <2>1 DEF TurnState
  <2> HIDE DEF t
  <2> QED
    BY <1>2, <2>2, <2>3
<1>5. ASSUME NEW m \in bus, NEW s \in Sessions, StreamDoneTools(s, m)
      PROVE  TurnsStop \/ OneTurn(s)
  <2> DEFINE disp == [i \in 1..Len(turn[s].pend) |->
                 [id |-> turn[s].pend[i], owner |-> turn[s].req, res |-> NoReq]]
             next == [turn[s] EXCEPT !.phase = "AwaitingTools", !.disp = disp,
                                     !.pend = <<>>]
  <2>1. turn[s] \in TurnState /\ turn[s].phase = "Streaming"
    BY <1>5 DEF TypeOK, StreamDoneTools, Accepts
  <2>2. \/ turn' = [turn EXCEPT ![s] = next] /\ active' = active
        \/ turn' = [turn EXCEPT ![s] = IdleTurn] /\ active' = active \ {s}
        \/ UNCHANGED <<turn, active>>
    BY <1>5 DEF StreamDoneTools
  <2> HIDE DEF disp
  <2>3. next.phase = "AwaitingTools" /\ next.req = turn[s].req
    BY <2>1 DEF TurnState
  <2> HIDE DEF next
  <2>4. CASE turn' = [turn EXCEPT ![s] = next] /\ active' = active
    <3>1. turn'[s] = next /\ \A x \in Sessions \ {s} : Keeps(x)
      BY <2>4 DEF TypeOK, Keeps
    <3>2. Moves(s)
      BY <2>1, <2>3, <3>1 DEF Moves
    <3> QED
      BY <2>1, <2>4, <3>1, <3>2 DEF OneTurn
  <2> QED
    BY <2>2, <2>4, StopOne, KeepAll
<1>6. ASSUME NEW m \in bus, NEW s \in Sessions,
             \/ StreamError(s, m) \/ StreamDoneText(s, m)
             \/ StreamDoneEmpty(s, m) \/ StreamTimeOut(s, m)
      PROVE  TurnsStop
  BY <1>6, TearDownStep, TimeOutStep, KeepAll
     DEF StreamError, StreamDoneText, StreamDoneEmpty, StreamTimeOut, TearDown
<1> QED
  BY <1>1, <1>3, <1>4, <1>5, <1>6 DEF HandleLlmStream

LEMMA ToolStep ==
    ASSUME TypeOK, HandleToolResult
    PROVE  TurnsStop \/ \E s \in Sessions : OneTurn(s)
<1>1. ASSUME NEW m \in bus, ToolResultIgnored(m) PROVE TurnsStop
  BY <1>1, KeepAll DEF ToolResultIgnored, kvVars
<1>2. ASSUME NEW m \in bus, m.type = "tool", NEW s \in Sessions,
             ToolResultRecorded(s, m)
      PROVE  TurnsStop \/ OneTurn(s)
  <2>1. turn[s] \in TurnState /\ turn[s].phase = "AwaitingTools" /\ m \in Messages
    BY <1>2 DEF TypeOK, ToolResultRecorded, AcceptsResult
  <2>2. Recorded(turn[s], m) \in TurnState
    BY <1>2, <2>1, RecordedType
  <2>3. /\ Recorded(turn[s], m).phase = "AwaitingTools"
        /\ Recorded(turn[s], m).req = turn[s].req
    BY <2>1 DEF Recorded, TurnState
  <2>4. \/ turn' = [turn EXCEPT ![s] = Recorded(turn[s], m)]
        \/ turn' = turn
    BY <1>2 DEF ToolResultRecorded, Save
  <2>5. active' = active
    BY <1>2 DEF ToolResultRecorded
  <2> QED
    BY <2>1, <2>2, <2>3, <2>4, <2>5, MoveOne, KeepAll
<1>3. ASSUME NEW m \in bus, NEW s \in Sessions, ToolResultStops(s, m)
      PROVE  TurnsStop
  BY <1>3, StopOne DEF ToolResultStops, Fault, NoSaveFaults
<1>4. ASSUME NEW m \in bus, NEW s \in Sessions, ToolResultContinues(s, m)
      PROVE  TurnsStop \/ OneTurn(s)
  <2>1. turn[s].phase = "AwaitingTools"
    BY <1>4 DEF ToolResultContinues, AcceptsResult
  <2>2. turn[s].iter + 1 \in Nat
    BY DEF TypeOK, TurnState
  <2>3. CASE UNCHANGED <<turn, active>>
    BY <2>3, KeepAll
  <2>4. ASSUME NEW r \in Requests, FreshRequest(r),
               PublishLlmRequest(s, FreshTurn("Streaming", r, turn[s].iter + 1),
                                 hist[s], DispIds(turn[s]), bus \ {m})
        PROVE  TurnsStop \/ OneTurn(s)
    <3> DEFINE t == FreshTurn("Streaming", r, turn[s].iter + 1)
    <3>1. t \in TurnState
      BY <2>2, FreshTurnType DEF Phases
    <3>2. t.phase = "Streaming" /\ t.req = r
      BY FreshTurnFields
    <3> HIDE DEF t
    <3>3. PublishLlmRequest(s, t, hist[s], DispIds(turn[s]), bus \ {m})
      BY <2>4 DEF t
    <3> QED
      BY <2>1, <2>4, <3>1, <3>2, <3>3, PublishStep
  <2> QED
    BY <1>4, <2>3, <2>4 DEF ToolResultContinues, kvVars
<1>5. ASSUME NEW m \in bus, NEW s \in Sessions, ToolResultTimeOut(s, m)
      PROVE  TurnsStop
  BY <1>5, TimeOutStep DEF ToolResultTimeOut
<1> QED
  BY <1>1, <1>2, <1>3, <1>4, <1>5 DEF HandleToolResult

\* Every step of the system stops some turns, or moves or starts just one.
LEMMA NextStep ==
    ASSUME TypeOK, [Next]_vars
    PROVE  TurnsStop \/ \E s \in Sessions : OneTurn(s)
<1>1. ASSUME NEW s \in Sessions, HandleUserPrompt(s)
      PROVE  TurnsStop \/ OneTurn(s)
  BY <1>1, PromptStep
<1>2. ASSUME NEW s \in Sessions, UserPromptAppendFails(s) PROVE TurnsStop
  BY <1>2, KeepAll DEF UserPromptAppendFails, kvVars
<1>3. ASSUME NEW s \in Sessions, HandleCancel(s) PROVE TurnsStop
  BY <1>3, TearDownStep DEF HandleCancel, TearDown
<1>4. CASE HandleIdentityResponse
  <2>1. PICK m \in bus :
            /\ m.type = "spark"
            /\ TimeOut(m.s) \/ Redrive(m, "AwaitingIdentity") \/ AcceptIdentity(m)
    BY <1>4 DEF HandleIdentityResponse
  <2>2. m.s \in Sessions
    BY <2>1 DEF TypeOK, Messages
  <2>3. CASE Redrive(m, "AwaitingIdentity")
    BY <2>3, KeepAll DEF Redrive, kvVars
  <2> QED
    BY <2>1, <2>2, <2>3, TimeOutStep, IdentityStep
<1>5. CASE PromptBuilderAssemble
  BY <1>5, KeepAll DEF PromptBuilderAssemble, kvVars
<1>6. CASE HandlePromptResponse
  <2>1. PICK m \in bus :
            /\ m.type = "assembled"
            /\ TimeOut(m.s) \/ Redrive(m, "AwaitingPromptBuild") \/ AcceptAssembled(m)
    BY <1>6 DEF HandlePromptResponse
  <2>2. m.s \in Sessions
    BY <2>1 DEF TypeOK, Messages
  <2>3. CASE Redrive(m, "AwaitingPromptBuild")
    BY <2>3, KeepAll DEF Redrive, kvVars
  <2> QED
    BY <2>1, <2>2, <2>3, TimeOutStep, AssembledStep
<1>7. CASE HandleWatchdogTick \/ HandleBusLag
  BY <1>7, EndAllStep DEF HandleWatchdogTick, HandleBusLag
<1>8. ASSUME NEW s \in Sessions, HandleSessionClear(s) PROVE TurnsStop
  BY <1>8, StopOne DEF HandleSessionClear
<1>9. CASE HandleLifecycleRestart
  BY <1>9 DEF HandleLifecycleRestart, TurnsStop, Stops
<1>10. CASE UNCHANGED vars
  BY <1>10, KeepAll DEF vars, kvVars
<1> QED
  BY <1>1, <1>2, <1>3, <1>4, <1>5, <1>6, <1>7, <1>8, <1>9, <1>10,
     StreamStep, ToolStep DEF Next

LEMMA NextType ==
    ASSUME TypeOK, RunningHasRequest, [Next]_vars
    PROVE  TypeOK'
<1>1. ASSUME NEW s \in Sessions, HandleUserPrompt(s) PROVE TypeOK'
  BY <1>1, PromptType
<1>2. ASSUME NEW s \in Sessions, UserPromptAppendFails(s) PROVE TypeOK'
  <2>1. hist' \in {hist, [hist EXCEPT ![s] = @ + 1]} /\ faults' \in {faults, faults + 1}
    BY <1>2 DEF UserPromptAppendFails, Fault
  <2>2. hist' \in [Sessions -> Nat] /\ faults' \in Nat
    BY <2>1 DEF TypeOK
  <2> QED
    BY <1>2, <2>2 DEF TypeOK, UserPromptAppendFails, kvVars, obsVars
<1>3. ASSUME NEW s \in Sessions, HandleCancel(s) PROVE TypeOK'
  BY <1>3, TearDownType DEF TypeOK, HandleCancel, obsVars
<1>4. CASE HandleIdentityResponse
  <2>1. PICK m \in bus :
            /\ m.type = "spark"
            /\ \/ TimeOut(m.s) /\ bus' = bus \ {m}
               \/ Redrive(m, "AwaitingIdentity")
               \/ AcceptIdentity(m)
    BY <1>4 DEF HandleIdentityResponse
  <2>2. m.s \in Sessions /\ bus \ {m} \subseteq Messages
    BY <2>1 DEF TypeOK, Messages
  <2> QED
    BY <2>1, <2>2, TimeOutType, RedriveType, AcceptIdentityType
<1>5. CASE PromptBuilderAssemble
  <2>1. PICK m \in bus :
            /\ m.type = "assemble"
            /\ \/ /\ bus' = (bus \ {m}) \cup {Assembled(m.s, m.turn, hist[m.s], 0)}
                  /\ UNCHANGED faults
               \/ /\ Fault("rpc")
                  /\ bus' = (bus \ {m}) \cup {Assembled(m.s, m.turn, 0, 0)}
            /\ UNCHANGED <<kvVars, hist, obsVars>>
    BY <1>5 DEF PromptBuilderAssemble
  <2>2. /\ Assembled(m.s, m.turn, hist[m.s], 0) \in Messages
        /\ Assembled(m.s, m.turn, 0, 0) \in Messages
    BY <2>1 DEF TypeOK, Messages, Assembled
  <2>3. bus' \subseteq Messages /\ faults' \in {faults, faults + 1}
    BY <2>1, <2>2 DEF TypeOK, Fault
  <2> QED
    BY <2>1, <2>3 DEF TypeOK, kvVars, obsVars
<1>6. CASE HandlePromptResponse
  <2>1. PICK m \in bus :
            /\ m.type = "assembled"
            /\ \/ TimeOut(m.s) /\ bus' = bus \ {m}
               \/ Redrive(m, "AwaitingPromptBuild")
               \/ AcceptAssembled(m)
    BY <1>6 DEF HandlePromptResponse
  <2>2. m.s \in Sessions /\ bus \ {m} \subseteq Messages
    BY <2>1 DEF TypeOK, Messages
  <2> QED
    BY <2>1, <2>2, TimeOutType, RedriveType, AcceptAssembledType
<1>7. CASE HandleWatchdogTick \/ HandleBusLag
  BY <1>7, EndAllType DEF HandleWatchdogTick, HandleBusLag
<1>8. ASSUME NEW s \in Sessions, HandleSessionClear(s) PROVE TypeOK'
  BY <1>8, IdleTurnType DEF TypeOK, HandleSessionClear, obsVars
<1>9. CASE HandleLifecycleRestart
  BY <1>9, IdleTurnType DEF TypeOK, HandleLifecycleRestart, obsVars
<1>10. CASE UNCHANGED vars
  BY <1>10 DEF TypeOK, vars, kvVars, obsVars
<1> QED
  BY <1>1, <1>2, <1>3, <1>4, <1>5, <1>6, <1>7, <1>8, <1>9, <1>10,
     StreamTypes, ToolTypes DEF Next

LEMMA InitOK == Init => TypeOK /\ RunningHasRequest /\ NonIdleIsWatched
<1>1. IdleTurn.phase = "Idle"
  BY FreshTurnFields DEF IdleTurn
<1> QED
  BY <1>1, IdleTurnType DEF Init, TypeOK, RunningHasRequest, NonIdleIsWatched

\* A turn keeps its request id while it runs, and gets a new one as it starts.
LEMMA NextRunning ==
    ASSUME TypeOK, RunningHasRequest, [Next]_vars
    PROVE  RunningHasRequest'
<1>1. IdleTurn.phase = "Idle"
  BY FreshTurnFields DEF IdleTurn
<1> QED
  BY <1>1, NextStep
     DEF RunningHasRequest, TurnsStop, OneTurn, Keeps, Moves, Starts, Stops

-----------------------------------------------------------------------------
(* Theorems *)

\* The state of capsule-react has its type in every reachable state, with or
\* without failing host calls; RunningHasRequest is what makes it inductive.
THEOREM TypeCorrect == Spec => []TypeOK
<1>1. TypeOK /\ RunningHasRequest /\ [Next]_vars => (TypeOK /\ RunningHasRequest)'
  BY NextType, NextRunning
<1> QED
  BY <1>1, InitOK, PTL DEF Spec

\* As long as no KV write fails, the watchdog and the bus-lag handler see every
\* running turn: react.active_sessions never misses one.
THEOREM RunningIsWatched ==
    ASSUME "save" \notin FaultKinds
    PROVE  Spec => []NonIdleIsWatched
<1>1. IdleTurn.phase = "Idle"
  BY FreshTurnFields DEF IdleTurn
<1>2. TypeOK /\ NonIdleIsWatched /\ [Next]_vars => NonIdleIsWatched'
  BY <1>1, NextStep
     DEF NonIdleIsWatched, NoSaveFaults, TurnsStop, OneTurn, Keeps, Moves, Starts, Stops
<1> QED
  BY <1>2, InitOK, TypeCorrect, PTL DEF Spec

-----------------------------------------------------------------------------
(* What a prompt may cost and how often it is answered.  Neither bound is    *)
(* inductive: the number of requests is bounded by the iteration that the   *)
(* turn stores, and the final response by the phase, as a turn that still   *)
(* runs has not been answered.                                              *)

Waiting == {"AwaitingIdentity", "AwaitingPromptBuild"}
Working == {"Streaming", "AwaitingTools"}

\* A turn t that has asked the LLM n times.
Budget(t, n) ==
    /\ n <= MaxIterations
    /\ t.phase \in Waiting => t.iter = 0 /\ n = 0
    /\ t.phase \in Working => n <= t.iter + 1 /\ t.iter + 1 <= MaxIterations

\* A turn t that has been answered n times.
Answers(t, n) == n <= 1 /\ (t.phase # "Idle" => n = 0)

Counts ==
    \A s \in Sessions :
        /\ Budget(turn[s], rounds[s])
        /\ NoSaveFaults => Answers(turn[s], finals[s])

-----------------------------------------------------------------------------
\* Turns that stop may be answered; no other turn changes.
Stopping ==
    /\ rounds' = rounds
    /\ \A s \in Sessions :
          /\ turn'[s] \in {turn[s], IdleTurn}
          /\ \/ finals'[s] = finals[s]
             \/ /\ finals'[s] = finals[s] + 1
                /\ turn[s].phase # "Idle"
                /\ NoSaveFaults => turn'[s] = IdleTurn

LEMMA IdleFields == IdleTurn.phase = "Idle"
BY FreshTurnFields DEF IdleTurn

LEMMA Stopped ==
    ASSUME TypeOK, Counts, Stopping
    PROVE  Counts'
<1> SUFFICES ASSUME NEW s \in Sessions
             PROVE  /\ Budget(turn'[s], rounds'[s])
                    /\ NoSaveFaults => Answers(turn'[s], finals'[s])
  BY DEF Counts
<1>1. Budget(turn[s], rounds[s]) /\ (NoSaveFaults => Answers(turn[s], finals[s]))
  BY DEF Counts
<1>2. rounds[s] \in Nat /\ finals[s] \in Nat
  BY DEF TypeOK
<1>3. Budget(turn'[s], rounds'[s])
  BY <1>1, IdleFields DEF Stopping, Budget, Waiting, Working
<1>4. ASSUME NoSaveFaults PROVE Answers(turn'[s], finals'[s])
  BY <1>1, <1>2, <1>4, IdleFields DEF Stopping, Answers
<1> QED
  BY <1>3, <1>4

\* The turn of s goes on as t; nobody is answered.
LEMMA Continued ==
    ASSUME TypeOK, Counts, NEW s \in Sessions, NEW t,
           turn' = [turn EXCEPT ![s] = t], finals' = finals,
           rounds' \in {rounds, [rounds EXCEPT ![s] = @ + 1]},
           turn[s].phase # "Idle", Budget(t, rounds'[s])
    PROVE  Counts'
<1> SUFFICES ASSUME NEW x \in Sessions
             PROVE  /\ Budget(turn'[x], rounds'[x])
                    /\ NoSaveFaults => Answers(turn'[x], finals'[x])
  BY DEF Counts
<1>1. turn'[s] = t /\ (x # s => turn'[x] = turn[x] /\ rounds'[x] = rounds[x])
  BY DEF TypeOK
<1>2. Budget(turn'[x], rounds'[x])
  BY <1>1 DEF Counts
<1>3. NoSaveFaults => Answers(turn'[x], finals'[x])
  BY <1>1 DEF Counts, Answers
<1> QED
  BY <1>2, <1>3

-----------------------------------------------------------------------------
(* One lemma per interceptor *)

LEMMA PromptCounts ==
    ASSUME TypeOK, Counts, NEW s \in Sessions, HandleUserPrompt(s)
    PROVE  Counts'
<1>1. CASE UNCHANGED <<turn, obsVars>>
  BY <1>1, Stopped DEF Stopping, obsVars
<1>2. ASSUME NEW r \in Requests,
             turn' = [turn EXCEPT ![s] = FreshTurn("AwaitingIdentity", r, 0)],
             finals' = [finals EXCEPT ![s] = 0], rounds' = [rounds EXCEPT ![s] = 0]
      PROVE  Counts'
  <2>1. /\ turn'[s].phase = "AwaitingIdentity" /\ turn'[s].iter = 0
        /\ finals'[s] = 0 /\ rounds'[s] = 0
    BY <1>2 DEF TypeOK, FreshTurn
  <2>2. Budget(turn'[s], rounds'[s]) /\ Answers(turn'[s], finals'[s])
    BY <2>1, ConstantsAssumption DEF Budget, Answers, Waiting, Working
  <2>3. \A x \in Sessions \ {s} :
            turn'[x] = turn[x] /\ finals'[x] = finals[x] /\ rounds'[x] = rounds[x]
    BY <1>2 DEF TypeOK
  <2> QED
    BY <2>2, <2>3 DEF Counts
<1> QED
  BY <1>1, <1>2 DEF HandleUserPrompt

LEMMA EndTurnCounts ==
    ASSUME TypeOK, NEW s \in Sessions, EndTurn(s), rounds' = rounds,
           \/ finals' = finals
           \/ finals' = [finals EXCEPT ![s] = @ + 1] /\ turn[s].phase # "Idle"
    PROVE  Stopping
<1>1. turn' \in {turn, [turn EXCEPT ![s] = IdleTurn]}
  BY DEF EndTurn, Save
<1>2. NoSaveFaults => turn' = [turn EXCEPT ![s] = IdleTurn]
  BY DEF EndTurn, Save, Fault, NoSaveFaults
<1> QED
  BY <1>1, <1>2 DEF TypeOK, Stopping

LEMMA TimeOutCounts ==
    ASSUME TypeOK, NEW s \in Sessions, TimeOut(s)
    PROVE  Stopping
<1>1. turn' \in {turn, [turn EXCEPT ![s] = IdleTurn]} /\ turn[s].phase # "Idle"
  BY DEF TimeOut
<1>2. NoSaveFaults => turn' = [turn EXCEPT ![s] = IdleTurn]
  BY DEF TimeOut, Fault, NoSaveFaults
<1>3. finals' = [finals EXCEPT ![s] = @ + 1] /\ rounds' = rounds
  BY DEF TimeOut, Final
<1> QED
  BY <1>1, <1>2, <1>3 DEF TypeOK, Stopping

LEMMA QuietCounts ==
    ASSUME turn' = turn, UNCHANGED obsVars
    PROVE  Stopping
BY DEF Stopping, obsVars

LEMMA IdentityCounts ==
    ASSUME TypeOK, Counts, HandleIdentityResponse
    PROVE  Counts'
<1>1. PICK m \in bus : /\ m.type = "spark"
                       /\ \/ TimeOut(m.s)
                          \/ Redrive(m, "AwaitingIdentity")
                          \/ AcceptIdentity(m)
  BY DEF HandleIdentityResponse
<1>2. m.s \in Sessions
  BY <1>1 DEF TypeOK, Messages
<1>3. CASE TimeOut(m.s)
  BY <1>2, <1>3, TimeOutCounts, Stopped
<1>4. CASE Redrive(m, "AwaitingIdentity")
  BY <1>4, QuietCounts, Stopped DEF Redrive, kvVars
<1>5. CASE AcceptIdentity(m)
  <2> DEFINE s == m.s
             next == [turn[s] EXCEPT !.phase = "AwaitingPromptBuild"]
  <2>1. turn[s] \in TurnState /\ turn[s].phase = "AwaitingIdentity"
    BY <1>2, <1>5 DEF TypeOK, AcceptIdentity
  <2>2. next.phase = "AwaitingPromptBuild" /\ next.iter = turn[s].iter
    BY <2>1 DEF TurnState
  <2>3. Budget(next, rounds[s])
    BY <1>2, <2>1, <2>2 DEF Counts, Budget, Waiting, Working
  <2> HIDE DEF next
  <2>4. CASE turn' = [turn EXCEPT ![s] = next] /\ UNCHANGED <<finals, rounds>>
    BY <1>2, <2>1, <2>3, <2>4, Continued
  <2>5. CASE turn' = turn /\ UNCHANGED obsVars
    BY <2>5, QuietCounts, Stopped
  <2>6. CASE turn' = [turn EXCEPT ![s] = IdleTurn] /\ FailNoModel(s)
    <3>1. finals' = [finals EXCEPT ![s] = @ + 1] /\ rounds' = rounds
      BY <2>6 DEF FailNoModel, Final
    <3> QED
      BY <1>2, <2>1, <2>6, <3>1, Stopped DEF TypeOK, Stopping
  <2>7. CASE /\ turn' = [turn EXCEPT ![s] = next] /\ FailNoModel(s)
             /\ ~NoSaveFaults
    <3>1. rounds' = rounds
      BY <2>7 DEF FailNoModel
    <3>2. turn'[s] = next /\ \A x \in Sessions \ {s} : turn'[x] = turn[x]
      BY <1>2, <2>7 DEF TypeOK
    <3> QED
      BY <2>3, <2>7, <3>1, <3>2 DEF Counts
  <2> QED
    BY <1>5, <2>4, <2>5, <2>6, <2>7
    DEF AcceptIdentity, next, obsVars, kvVars, Fault, NoSaveFaults
<1> QED
  BY <1>1, <1>3, <1>4, <1>5

\* A turn t of s that is already stored or about to be asks the LLM: it is
\* under the bound, whether the request goes out, fails, or finds no model.
LEMMA PublishCounts ==
    ASSUME TypeOK, Counts, NEW s \in Sessions, NEW t, NEW c, NEW calls, NEW rest,
           turn[s].phase # "Idle", Budget(t, rounds[s]), Budget(t, rounds[s] + 1),
           t.phase # "Idle", PublishLlmRequest(s, t, c, calls, rest)
    PROVE  Counts'
<1>1. rounds[s] \in Nat /\ rounds \in [Sessions -> Nat]
  BY DEF TypeOK
<1>2. CASE /\ turn' = [turn EXCEPT ![s] = t]
           /\ rounds' = [rounds EXCEPT ![s] = @ + 1] /\ finals' = finals
  <2>1. Budget(t, rounds'[s])
    BY <1>1, <1>2
  <2> QED
    BY <1>2, <2>1, Continued
<1>3. CASE turn' = [turn EXCEPT ![s] = t] /\ UNCHANGED obsVars
  BY <1>3, Continued DEF obsVars
<1>4. CASE /\ turn' = [turn EXCEPT ![s] = IdleTurn] /\ Final(s) /\ rounds' = rounds
  BY <1>4, Stopped DEF TypeOK, Stopping, Final
<1>5. CASE /\ turn' = [turn EXCEPT ![s] = t] /\ rounds' = rounds /\ ~NoSaveFaults
  <2>1. turn'[s] = t /\ \A x \in Sessions \ {s} : turn'[x] = turn[x]
    BY <1>5 DEF TypeOK
  <2> QED
    BY <1>5, <2>1 DEF Counts
<1> QED
  BY <1>2, <1>3, <1>4, <1>5 DEF PublishLlmRequest, Fault, NoSaveFaults

LEMMA PromptResponseCounts ==
    ASSUME TypeOK, Counts, HandlePromptResponse
    PROVE  Counts'
<1>1. PICK m \in bus : /\ m.type = "assembled"
                       /\ \/ TimeOut(m.s)
                          \/ Redrive(m, "AwaitingPromptBuild")
                          \/ AcceptAssembled(m)
  BY DEF HandlePromptResponse
<1>2. m.s \in Sessions
  BY <1>1 DEF TypeOK, Messages
<1>3. CASE TimeOut(m.s)
  BY <1>2, <1>3, TimeOutCounts, Stopped
<1>4. CASE Redrive(m, "AwaitingPromptBuild")
  BY <1>4, QuietCounts, Stopped DEF Redrive, kvVars
<1>5. CASE AcceptAssembled(m)
  <2> DEFINE s == m.s
             next == [turn[s] EXCEPT !.phase = "Streaming"]
  <2>1. turn[s] \in TurnState /\ turn[s].phase = "AwaitingPromptBuild"
    BY <1>2, <1>5 DEF TypeOK, AcceptAssembled
  <2>2. next.phase = "Streaming" /\ next.iter = turn[s].iter
    BY <2>1 DEF TurnState
  <2>3. turn[s].iter = 0 /\ rounds[s] = 0
    BY <1>2, <2>1 DEF Counts, Budget, Waiting
  <2>4. Budget(next, 0) /\ Budget(next, 1)
    BY <2>2, <2>3, ConstantsAssumption DEF Budget, Waiting, Working
  <2> HIDE DEF next
  <2>5. CASE PublishLlmRequest(s, next, m.ctx, {}, bus \ {m})
    BY <1>2, <2>1, <2>2, <2>3, <2>4, <2>5, PublishCounts
  <2>6. CASE turn' = turn /\ UNCHANGED obsVars
    BY <2>6, QuietCounts, Stopped
  <2> QED
    BY <1>5, <2>5, <2>6 DEF AcceptAssembled, next, kvVars
<1> QED
  BY <1>1, <1>3, <1>4, <1>5

\* A handler that writes s's turn back with the phase and iteration it had.
LEMMA SavedCounts ==
    ASSUME TypeOK, Counts, NEW s \in Sessions, NEW t,
           turn' \in {turn, [turn EXCEPT ![s] = t]}, UNCHANGED obsVars,
           turn[s].phase \in Working, t.phase \in Working, t.iter = turn[s].iter
    PROVE  Counts'
<1>1. CASE turn' = turn
  BY <1>1, QuietCounts, Stopped
<1>2. CASE turn' = [turn EXCEPT ![s] = t]
  <2>1. Budget(t, rounds[s])
    BY DEF Counts, Budget, Waiting, Working
  <2>2. turn[s].phase # "Idle"
    BY DEF Working
  <2> QED
    BY <1>2, <2>1, <2>2, Continued DEF obsVars
<1> QED
  BY <1>1, <1>2

LEMMA StreamCounts ==
    ASSUME TypeOK, Counts, HandleLlmStream
    PROVE  Counts'
<1>1. PICK m \in bus :
          \/ StreamIgnored(m)
          \/ \E s \in Sessions :
               \/ StreamText(s, m)
               \/ \E c \in Calls : StreamToolCallStart(s, m, c)
               \/ StreamError(s, m)
               \/ StreamDoneTools(s, m)
               \/ StreamDoneText(s, m)
               \/ StreamDoneEmpty(s, m)
               \/ StreamTimeOut(s, m)
  BY DEF HandleLlmStream
<1>2. CASE StreamIgnored(m)
  BY <1>2, QuietCounts, Stopped DEF StreamIgnored, kvVars
<1>3. ASSUME NEW s \in Sessions, StreamText(s, m) PROVE Counts'
  <2> DEFINE t == [turn[s] EXCEPT !.text = TRUE]
  <2>1. turn[s].phase = "Streaming" /\ t.phase = "Streaming" /\ t.iter = turn[s].iter
    BY <1>3 DEF TypeOK, TurnState, StreamText, Accepts
  <2>2. turn' \in {turn, [turn EXCEPT ![s] = t]} /\ UNCHANGED obsVars
    BY <1>3 DEF StreamText, Save
  <2> HIDE DEF t
  <2> QED
    BY <2>1, <2>2, SavedCounts DEF Working
<1>4. ASSUME NEW s \in Sessions, NEW c \in Calls, StreamToolCallStart(s, m, c)
      PROVE  Counts'
  <2> DEFINE t == [turn[s] EXCEPT !.pend = Append(@, c)]
  <2>1. turn[s].phase = "Streaming" /\ t.phase = "Streaming" /\ t.iter = turn[s].iter
    BY <1>4 DEF TypeOK, TurnState, StreamToolCallStart, Accepts
  <2>2. turn' \in {turn, [turn EXCEPT ![s] = t]} /\ UNCHANGED obsVars
    BY <1>4 DEF StreamToolCallStart, Save
  <2> HIDE DEF t
  <2> QED
    BY <2>1, <2>2, SavedCounts DEF Working
<1>5. ASSUME NEW s \in Sessions, StreamError(s, m) PROVE Counts'
  <2>1. turn[s].phase # "Idle" /\ EndTurn(s) /\ rounds' = rounds
    BY <1>5 DEF StreamError, Accepts, TearDown
  <2>2. finals' = [finals EXCEPT ![s] = @ + 1]
    BY <1>5 DEF StreamError, Final
  <2> QED
    BY <2>1, <2>2, EndTurnCounts, Stopped
<1>6. ASSUME NEW s \in Sessions, StreamDoneTools(s, m) PROVE Counts'
  <2> DEFINE disp == [i \in 1..Len(turn[s].pend) |->
                 [id |-> turn[s].pend[i], owner |-> turn[s].req, res |-> NoReq]]
             t == [turn[s] EXCEPT !.phase = "AwaitingTools", !.disp = disp,
                                  !.pend = <<>>]
  <2>1. turn[s].phase = "Streaming" /\ rounds' = rounds
    BY <1>6 DEF StreamDoneTools, Accepts
  <2>2. t.phase = "AwaitingTools" /\ t.iter = turn[s].iter
    BY DEF TypeOK, TurnState
  <2>3. \/ turn' = [turn EXCEPT ![s] = t] /\ finals' = finals
        \/ turn' = [turn EXCEPT ![s] = IdleTurn] /\ Final(s)
        \/ turn' = turn /\ finals' = finals
    BY <1>6 DEF StreamDoneTools
  <2> HIDE DEF disp, t
  <2>4. CASE turn' = [turn EXCEPT ![s] = t] /\ finals' = finals
    <3>1. Budget(t, rounds[s])
      BY <2>1, <2>2 DEF Counts, Budget, Waiting, Working
    <3> QED
      BY <2>1, <2>4, <3>1, Continued
  <2>5. CASE turn' = [turn EXCEPT ![s] = IdleTurn] /\ Final(s)
    BY <2>1, <2>5, Stopped DEF TypeOK, Stopping, Final
  <2>6. CASE turn' = turn /\ finals' = finals
    BY <2>1, <2>6, Stopped DEF Stopping
  <2> QED
    BY <2>3, <2>4, <2>5, <2>6
<1>7. ASSUME NEW s \in Sessions, StreamDoneText(s, m) PROVE Counts'
  <2>1. turn[s].phase # "Idle" /\ rounds' = rounds
    BY <1>7 DEF StreamDoneText, Accepts
  <2>2. CASE Final(s) /\ EndTurn(s)
    <3>1. finals' = [finals EXCEPT ![s] = @ + 1]
      BY <2>2 DEF Final
    <3> QED
      BY <2>1, <2>2, <3>1, EndTurnCounts, Stopped
  <2>3. CASE turn' = turn /\ finals' = finals
    BY <2>1, <2>3, Stopped DEF Stopping
  <2> QED
    BY <1>7, <2>2, <2>3 DEF StreamDoneText
<1>8. ASSUME NEW s \in Sessions, StreamDoneEmpty(s, m) PROVE Counts'
  BY <1>8, EndTurnCounts, Stopped DEF StreamDoneEmpty, obsVars
<1>9. ASSUME NEW s \in Sessions, StreamTimeOut(s, m) PROVE Counts'
  BY <1>9, TimeOutCounts, Stopped DEF StreamTimeOut
<1> QED
  BY <1>1, <1>2, <1>3, <1>4, <1>5, <1>6, <1>7, <1>8, <1>9

LEMMA ToolCounts ==
    ASSUME TypeOK, Counts, HandleToolResult
    PROVE  Counts'
<1>1. PICK m \in bus :
          \/ ToolResultIgnored(m)
          \/ \E s \in Sessions :
               \/ ToolResultRecorded(s, m)
               \/ ToolResultStops(s, m)
               \/ ToolResultContinues(s, m)
               \/ ToolResultTimeOut(s, m)
  BY DEF HandleToolResult
<1>2. CASE ToolResultIgnored(m)
  BY <1>2, QuietCounts, Stopped DEF ToolResultIgnored, kvVars
<1>3. ASSUME NEW s \in Sessions, ToolResultRecorded(s, m) PROVE Counts'
  <2> DEFINE t == Recorded(turn[s], m)
  <2>1. turn[s].phase = "AwaitingTools"
    BY <1>3 DEF ToolResultRecorded, AcceptsResult
  <2>2. t.phase = turn[s].phase /\ t.iter = turn[s].iter
    BY DEF TypeOK, TurnState, Recorded
  <2>3. turn' \in {turn, [turn EXCEPT ![s] = t]} /\ UNCHANGED obsVars
    BY <1>3 DEF ToolResultRecorded, Save
  <2> HIDE DEF t
  <2> QED
    BY <2>1, <2>2, <2>3, SavedCounts DEF Working
<1>4. ASSUME NEW s \in Sessions, ToolResultStops(s, m) PROVE Counts'
  <2>1. turn[s].phase = "AwaitingTools" /\ rounds' = rounds
    BY <1>4 DEF ToolResultStops, AcceptsResult
  <2>2. finals' = [finals EXCEPT ![s] = @ + 1]
    BY <1>4 DEF ToolResultStops, Final
  <2>3. turn' \in {turn, [turn EXCEPT ![s] = IdleTurn]}
    BY <1>4 DEF ToolResultStops
  <2>4. NoSaveFaults => turn' = [turn EXCEPT ![s] = IdleTurn]
    BY <1>4 DEF ToolResultStops, Fault, NoSaveFaults
  <2> QED
    BY <2>1, <2>2, <2>3, <2>4, Stopped DEF TypeOK, Stopping
<1>5. ASSUME NEW s \in Sessions, ToolResultContinues(s, m) PROVE Counts'
  <2>1. turn[s].phase = "AwaitingTools" /\ UnderCap(turn[s])
    BY <1>5 DEF ToolResultContinues, AcceptsResult
  <2>2. CASE turn' = turn /\ UNCHANGED obsVars
    BY <2>2, QuietCounts, Stopped
  <2>3. ASSUME NEW r \in Requests,
               PublishLlmRequest(s, FreshTurn("Streaming", r, turn[s].iter + 1),
                                 hist[s], DispIds(turn[s]), bus \ {m})
        PROVE  Counts'
    <3> DEFINE t == FreshTurn("Streaming", r, turn[s].iter + 1)
    <3>1. t.phase = "Streaming" /\ t.iter = turn[s].iter + 1
      BY DEF FreshTurn
    <3>2. /\ turn[s].iter \in Nat /\ rounds[s] \in Nat
          /\ rounds[s] <= turn[s].iter + 1 /\ turn[s].iter + 1 < MaxIterations
      BY <2>1 DEF TypeOK, TurnState, Counts, Budget, Working, UnderCap
    <3>3. Budget(t, rounds[s]) /\ Budget(t, rounds[s] + 1)
      BY <3>1, <3>2, ConstantsAssumption DEF Budget, Waiting, Working
    <3> HIDE DEF t
    <3> QED
      BY <2>1, <2>3, <3>1, <3>3, PublishCounts DEF t
  <2> QED
    BY <1>5, <2>2, <2>3 DEF ToolResultContinues, kvVars
<1>6. ASSUME NEW s \in Sessions, ToolResultTimeOut(s, m) PROVE Counts'
  BY <1>6, TimeOutCounts, Stopped DEF ToolResultTimeOut
<1> QED
  BY <1>1, <1>2, <1>3, <1>4, <1>5, <1>6

\* The watchdog and the bus-lag handler answer the turns they end.
LEMMA EndAllCounts ==
    ASSUME TypeOK, NEW hit, NEW failed, NEW mapped, EndAll(hit, failed, mapped),
           \A s \in hit : turn[s].phase # "Idle"
    PROVE  Stopping
<1>1. NoSaveFaults => failed = {}
  BY DEF EndAll, Fault, NoSaveFaults
<1> QED
  BY <1>1 DEF EndAll, Stopping

-----------------------------------------------------------------------------
LEMMA NextCounts ==
    ASSUME TypeOK, Counts, [Next]_vars
    PROVE  Counts'
<1>1. CASE \E s \in Sessions : HandleUserPrompt(s)
  BY <1>1, PromptCounts
<1>2. CASE \E s \in Sessions : UserPromptAppendFails(s)
  BY <1>2, QuietCounts, Stopped DEF UserPromptAppendFails, kvVars
<1>3. CASE \E s \in Sessions : HandleCancel(s)
  BY <1>3, EndTurnCounts, Stopped DEF HandleCancel, TearDown, obsVars
<1>4. CASE PromptBuilderAssemble
  BY <1>4, QuietCounts, Stopped DEF PromptBuilderAssemble, kvVars
<1>5. CASE HandleWatchdogTick
  BY <1>5, EndAllCounts, Stopped DEF HandleWatchdogTick
<1>6. CASE HandleBusLag
  <2>1. PICK hit, failed : /\ EndAll(hit, failed, {})
                           /\ \A s \in hit : turn[s].phase # "Idle"
    BY <1>6 DEF HandleBusLag
  <2> QED
    BY <2>1, EndAllCounts, Stopped
<1>7. CASE \E s \in Sessions : HandleSessionClear(s)
  BY <1>7, Stopped DEF TypeOK, HandleSessionClear, Stopping, obsVars
<1>8. CASE HandleLifecycleRestart
  BY <1>8, Stopped DEF HandleLifecycleRestart, Stopping, obsVars
<1>9. CASE UNCHANGED vars
  BY <1>9, QuietCounts, Stopped DEF vars, kvVars
<1> QED
  BY <1>1, <1>2, <1>3, <1>4, <1>5, <1>6, <1>7, <1>8, <1>9, IdentityCounts,
     PromptResponseCounts, StreamCounts, ToolCounts DEF Next

LEMMA InitCounts == Init => Counts
<1> SUFFICES ASSUME Init, NEW s \in Sessions
             PROVE  Budget(turn[s], rounds[s]) /\ Answers(turn[s], finals[s])
  BY DEF Counts
<1>1. turn[s].phase = "Idle" /\ rounds[s] = 0 /\ finals[s] = 0
  BY IdleFields DEF Init
<1> QED
  BY <1>1, ConstantsAssumption DEF Budget, Answers, Waiting, Working

LEMMA CountsAlways == Spec => []Counts
<1>1. TypeOK /\ Counts /\ [Next]_vars => Counts'
  BY NextCounts
<1> QED
  BY <1>1, InitCounts, TypeCorrect, PTL DEF Spec

\* max_iterations bounds the LLM requests of one prompt, whatever tool rounds,
\* stale events, timeouts and failing host calls (saves included) it meets.
THEOREM RoundsAreBounded == Spec => []IterationCap
<1>1. Counts => IterationCap
  BY DEF Counts, Budget, IterationCap
<1> QED
  BY <1>1, CountsAlways, PTL

\* As long as no KV write fails, no prompt gets two final responses, whichever
\* of the handlers that end a turn race.
THEOREM AnsweredOnce ==
    ASSUME NoSaveFaults
    PROVE  Spec => []AtMostOneFinal
<1>1. Counts => AtMostOneFinal
  BY DEF Counts, Answers, AtMostOneFinal
<1> QED
  BY <1>1, CountsAlways, PTL

-----------------------------------------------------------------------------
(* Requests *)

\* No two turns wait for the same request.
DistinctRequests ==
    \A s, x \in Sessions :
        turn[s].req = turn[x].req /\ turn[s].req # NoReq => s = x

LEMMA IdleTurnFields ==
    /\ IdleTurn.phase = "Idle" /\ IdleTurn.req = NoReq
    /\ IdleTurn.pend = <<>> /\ IdleTurn.disp = <<>>
BY FreshTurnFields DEF IdleTurn

LEMMA NextDistinct ==
    ASSUME TypeOK, RunningHasRequest, DistinctRequests, [Next]_vars
    PROVE  DistinctRequests'
<1>1. CASE TurnsStop
  BY <1>1, IdleTurnFields DEF TurnsStop, Keeps, Stops, DistinctRequests
<1>2. ASSUME NEW s \in Sessions, OneTurn(s) PROVE DistinctRequests'
  <2>1. \A x \in Sessions \ {s} : turn'[x] = turn[x]
    BY <1>2 DEF OneTurn, Keeps
  <2>2. \/ turn'[s].req \in {turn[s].req, NoReq}
        \/ \A x \in Sessions : turn[x].req # turn'[s].req
    BY <1>2, IdleTurnFields
       DEF OneTurn, Keeps, Moves, Stops, Starts, FreshRequest
  <2> QED
    BY <2>1, <2>2 DEF DistinctRequests
<1> QED
  BY <1>1, <1>2, NextStep

\* The streams in flight: one per request, none for a turn that has not asked
\* yet, and the stream of a Streaming turn has its key.
Streams ==
    /\ DistinctRequests
    /\ \A m, n \in bus :
          m.type = "llm" /\ n.type = "llm" /\ m.req = n.req => m = n
    /\ \A s \in Sessions, m \in bus :
          m.type = "llm" /\ turn[s].phase \in Waiting => turn[s].req # m.req
    /\ OpenStreamRoutable

NoStream(r) == \A m \in bus : m.type = "llm" => m.req # r

\* What s's turn may become when no request goes out: it waits for no stream,
\* or there is none for its request, or it waits as before with its key intact.
Unasked(s) ==
    \/ turn'[s].phase \in {"Idle", "AwaitingTools"}
    \/ NoStream(turn[s].req)'
    \/ /\ turn'[s].req = turn[s].req
       /\ turn'[s].phase \in Waiting /\ turn[s].phase \in Waiting
    \/ /\ turn'[s].req = turn[s].req
       /\ turn'[s].phase = "Streaming" /\ turn[s].phase = "Streaming"
       /\ req2sess'[turn[s].req] = req2sess[turn[s].req]

NoNewStream == \A m \in bus' : m.type = "llm" => m \in bus

LEMMA StreamsKept ==
    ASSUME Streams, DistinctRequests', NoNewStream, \A s \in Sessions : Unasked(s)
    PROVE  Streams'
BY DEF Streams, Unasked, NoStream, NoNewStream, OpenStreamRoutable, Waiting

\* Deleting the key of s's own request leaves the others' alone.
LEMMA UnmapOwn ==
    ASSUME TypeOK, RunningHasRequest, DistinctRequests, NEW s \in Sessions,
           NEW x \in Sessions \ {s}, turn[x].phase # "Idle"
    PROVE  Unmap(req2sess, {turn[s].req})[turn[x].req] = req2sess[turn[x].req]
<1>1. turn[x].req \in Requests /\ turn[x].req # NoReq
  BY ConstantsAssumption DEF RunningHasRequest
<1>2. turn[s].req # turn[x].req
  BY <1>1 DEF DistinctRequests
<1> QED
  BY <1>1, <1>2 DEF TypeOK, Unmap

\* Every session but s keeps its turn and its keys, and s's turn is over.
LEMMA StreamsEnd ==
    ASSUME TypeOK, RunningHasRequest, Streams, DistinctRequests', NoNewStream,
           NEW s \in Sessions, turn' = [turn EXCEPT ![s] = IdleTurn],
           req2sess' \in {req2sess, Unmap(req2sess, {turn[s].req})}
    PROVE  Streams'
<1>1. Unasked(s)
  BY IdleTurnFields DEF TypeOK, Unasked
<1>2. ASSUME NEW x \in Sessions \ {s} PROVE Unasked(x)
  <2>1. turn'[x] = turn[x]
    BY DEF TypeOK
  <2>2. turn[x].phase # "Idle" => req2sess'[turn[x].req] = req2sess[turn[x].req]
    BY UnmapOwn DEF Streams
  <2>3. turn[x].phase \in Phases
    BY DEF TypeOK, TurnState
  <2> QED
    BY <2>1, <2>2, <2>3 DEF Unasked, Phases, Waiting
<1> QED
  BY <1>1, <1>2, StreamsKept

\* Nothing but the rest of the bus changes.
LEMMA StreamsQuiet ==
    ASSUME TypeOK, Streams, DistinctRequests', NoNewStream,
           UNCHANGED <<turn, req2sess>>
    PROVE  Streams'
<1>1. \A s \in Sessions : turn[s].phase \in Phases
  BY DEF TypeOK, TurnState
<1> QED
  BY <1>1, StreamsKept DEF Unasked, Phases, Waiting

\* s's turn is stored with the phase and request it had, or as AwaitingTools.
LEMMA StreamsSaved ==
    ASSUME TypeOK, RunningHasRequest, Streams, DistinctRequests', NoNewStream,
           NEW s \in Sessions, NEW t, turn' = [turn EXCEPT ![s] = t],
           t.req = turn[s].req,
           \/ t.phase = "AwaitingTools"
              /\ req2sess' \in {req2sess, Unmap(req2sess, {turn[s].req})}
           \/ t.phase = turn[s].phase /\ req2sess' = req2sess
           \/ t.phase \in Waiting /\ turn[s].phase \in Waiting /\ req2sess' = req2sess
    PROVE  Streams'
<1>1. \A x \in Sessions : turn[x].phase \in Phases
  BY DEF TypeOK, TurnState
<1>2. turn'[s] = t /\ \A x \in Sessions \ {s} : turn'[x] = turn[x]
  BY DEF TypeOK
<1>3. Unasked(s)
  BY <1>1, <1>2 DEF Unasked, Phases, Waiting
<1>4. ASSUME NEW x \in Sessions \ {s} PROVE Unasked(x)
  <2>1. turn[x].phase # "Idle" => req2sess'[turn[x].req] = req2sess[turn[x].req]
    BY UnmapOwn DEF Streams
  <2> QED
    BY <1>1, <1>2, <2>1 DEF Unasked, Phases, Waiting
<1> QED
  BY <1>3, <1>4, StreamsKept

\* s's turn begins, or goes on, with a request that has no stream.
LEMMA StreamsUnsent ==
    ASSUME TypeOK, RunningHasRequest, Streams, DistinctRequests', NoNewStream,
           NEW s \in Sessions, NEW t, turn' = [turn EXCEPT ![s] = t],
           req2sess' \in {req2sess, Unmap(req2sess, {turn[s].req})}, NoStream(t.req)
    PROVE  Streams'
<1>1. \A x \in Sessions : turn[x].phase \in Phases
  BY DEF TypeOK, TurnState
<1>2. turn'[s] = t /\ \A x \in Sessions \ {s} : turn'[x] = turn[x]
  BY DEF TypeOK
<1>3. Unasked(s)
  BY <1>2 DEF Unasked, NoStream, NoNewStream
<1>4. ASSUME NEW x \in Sessions \ {s} PROVE Unasked(x)
  <2>1. turn[x].phase # "Idle" => req2sess'[turn[x].req] = req2sess[turn[x].req]
    BY UnmapOwn DEF Streams
  <2> QED
    BY <1>1, <1>2, <2>1 DEF Unasked, Phases, Waiting
<1> QED
  BY <1>3, <1>4, StreamsKept

\* publish_llm_request, for a request that has no stream yet.
LEMMA PublishStreams ==
    ASSUME TypeOK, RunningHasRequest, Streams, DistinctRequests', NoSaveFaults,
           NEW s \in Sessions, NEW t, NEW c, NEW calls, NEW rest \in SUBSET bus,
           t.phase = "Streaming", t.req \in Requests, NoStream(t.req),
           \A x \in Sessions \ {s} : turn[x].req # t.req,
           PublishLlmRequest(s, t, c, calls, rest)
    PROVE  Streams'
<1>1. CASE /\ turn' = [turn EXCEPT ![s] = t] /\ bus' = rest \cup {Llm(t.req, c)}
           /\ req2sess' = [req2sess EXCEPT ![t.req] = s]
  <2>1. turn'[s] = t /\ \A x \in Sessions \ {s} : turn'[x] = turn[x]
    BY <1>1 DEF TypeOK
  <2>2. Llm(t.req, c).type = "llm" /\ Llm(t.req, c).req = t.req
    BY DEF Llm
  <2>3. req2sess'[t.req] = s
    BY <1>1 DEF TypeOK
  <2>4. \A r \in Requests \ {t.req} : req2sess'[r] = req2sess[r]
    BY <1>1 DEF TypeOK
  <2>5. \A m \in bus' : m \in bus \/ m = Llm(t.req, c)
    BY <1>1
  <2>6. \A m \in bus : m.type = "llm" => m.req \in Requests
    BY DEF TypeOK, Messages
  <2>7. \A m, n \in bus' :
            m.type = "llm" /\ n.type = "llm" /\ m.req = n.req => m = n
    BY <2>2, <2>5 DEF Streams, NoStream
  <2>8. \A x \in Sessions, m \in bus' :
            m.type = "llm" /\ turn'[x].phase \in Waiting => turn'[x].req # m.req
    BY <2>1, <2>2, <2>5 DEF Streams, Waiting
  <2>9. ASSUME NEW x \in Sessions, NEW m \in bus', m.type = "llm",
               turn'[x].phase = "Streaming", turn'[x].req = m.req
        PROVE  req2sess'[m.req] = x
    <3>1. CASE x = s
      BY <2>1, <2>3, <2>9, <3>1
    <3>2. CASE x # s
      <4>1. m \in bus /\ m.req # t.req
        BY <2>1, <2>2, <2>5, <2>9, <3>2
      <4> QED
        BY <2>1, <2>4, <2>6, <2>9, <3>2, <4>1 DEF Streams, OpenStreamRoutable
    <3> QED
      BY <3>1, <3>2
  <2> QED
    BY <2>7, <2>8, <2>9 DEF Streams, OpenStreamRoutable
<1>2. CASE turn' = [turn EXCEPT ![s] = t] /\ req2sess' = req2sess /\ bus' = rest
  BY <1>2, StreamsUnsent DEF NoNewStream
<1>3. CASE /\ turn' = [turn EXCEPT ![s] = IdleTurn]
           /\ req2sess' = Unmap(req2sess, {t.req}) /\ bus' = rest
  <2>1. Unasked(s)
    BY <1>3, IdleTurnFields DEF TypeOK, Unasked
  <2>2. ASSUME NEW x \in Sessions \ {s} PROVE Unasked(x)
    <3>1. turn'[x] = turn[x] /\ turn[x].phase \in Phases
      BY <1>3 DEF TypeOK, TurnState
    <3>2. turn[x].phase # "Idle" => req2sess'[turn[x].req] = req2sess[turn[x].req]
      BY <1>3 DEF TypeOK, Unmap, RunningHasRequest
    <3> QED
      BY <3>1, <3>2 DEF Unasked, Phases, Waiting
  <2> QED
    BY <1>3, <2>1, <2>2, StreamsKept DEF NoNewStream
<1> QED
  BY <1>1, <1>2, <1>3 DEF PublishLlmRequest, Fault, NoSaveFaults

-----------------------------------------------------------------------------
LEMMA PromptStreams ==
    ASSUME TypeOK, RunningHasRequest, Streams, DistinctRequests', NoSaveFaults,
           NEW s \in Sessions, HandleUserPrompt(s)
    PROVE  Streams'
<1>1. NoNewStream
  BY DEF HandleUserPrompt, NoNewStream, Spark
<1>2. PICK r \in Requests :
          FreshRequest(r) /\ turn' = [turn EXCEPT ![s] = FreshTurn("AwaitingIdentity", r, 0)]
  BY DEF HandleUserPrompt, Fault, NoSaveFaults
<1>3. NoStream(r)
  BY <1>2 DEF FreshRequest, NoStream
<1>4. req2sess' = Unmap(req2sess, {turn[s].req})
  BY DEF HandleUserPrompt, CleanupInflight
<1> DEFINE t == FreshTurn("AwaitingIdentity", r, 0)
<1>5. turn' = [turn EXCEPT ![s] = t] /\ NoStream(t.req)
  BY <1>2, <1>3, FreshTurnFields
<1> HIDE DEF t
<1> QED
  BY <1>1, <1>4, <1>5, StreamsUnsent

LEMMA TimeOutStreams ==
    ASSUME TypeOK, RunningHasRequest, Streams, DistinctRequests', NoSaveFaults,
           NEW s \in Sessions, TimeOut(s), NoNewStream
    PROVE  Streams'
BY StreamsEnd DEF TimeOut, CleanupInflight, Fault, NoSaveFaults

LEMMA IdentityStreams ==
    ASSUME TypeOK, RunningHasRequest, Streams, DistinctRequests', NoSaveFaults,
           HandleIdentityResponse
    PROVE  Streams'
<1>1. PICK m \in bus : /\ m.type = "spark"
                       /\ \/ TimeOut(m.s) /\ bus' = bus \ {m}
                          \/ Redrive(m, "AwaitingIdentity")
                          \/ AcceptIdentity(m)
  BY DEF HandleIdentityResponse
<1>2. m.s \in Sessions /\ m \in Messages
  BY <1>1 DEF TypeOK, Messages
<1>3. CASE TimeOut(m.s) /\ bus' = bus \ {m}
  BY <1>2, <1>3, TimeOutStreams DEF NoNewStream
<1>4. CASE Redrive(m, "AwaitingIdentity")
  <2>1. [m EXCEPT !.retry = @ + 1].type = "spark"
    BY <1>1, <1>2 DEF Messages
  <2>2. NoNewStream
    BY <1>4, <2>1 DEF Redrive, NoNewStream
  <2> QED
    BY <1>4, <2>2, StreamsQuiet DEF Redrive, kvVars
<1>5. CASE AcceptIdentity(m)
  <2> DEFINE s == m.s
             next == [turn[s] EXCEPT !.phase = "AwaitingPromptBuild"]
  <2>1. turn[s] \in TurnState /\ turn[s].phase = "AwaitingIdentity"
    BY <1>2, <1>5 DEF TypeOK, AcceptIdentity
  <2>2. next.phase = "AwaitingPromptBuild" /\ next.req = turn[s].req
    BY <2>1 DEF TurnState
  <2>3. NoNewStream
    BY <1>5 DEF AcceptIdentity, NoNewStream, Assemble
  <2> HIDE DEF next
  <2>4. \/ turn' = [turn EXCEPT ![s] = next] /\ req2sess' = req2sess
        \/ UNCHANGED <<turn, req2sess>>
        \/ /\ turn' = [turn EXCEPT ![s] = IdleTurn]
           /\ req2sess' = Unmap(req2sess, {turn[s].req})
    BY <1>5 DEF AcceptIdentity, next, FailNoModel, CleanupInflight, kvVars, Fault, NoSaveFaults
  <2>5. CASE turn' = [turn EXCEPT ![s] = next] /\ req2sess' = req2sess
    BY <1>2, <2>1, <2>2, <2>3, <2>5, StreamsSaved DEF Waiting
  <2> QED
    BY <1>2, <2>3, <2>4, <2>5, StreamsQuiet, StreamsEnd
<1> QED
  BY <1>1, <1>3, <1>4, <1>5

LEMMA PromptResponseStreams ==
    ASSUME TypeOK, RunningHasRequest, Streams, DistinctRequests', NoSaveFaults,
           HandlePromptResponse
    PROVE  Streams'
<1>1. PICK m \in bus : /\ m.type = "assembled"
                       /\ \/ TimeOut(m.s) /\ bus' = bus \ {m}
                          \/ Redrive(m, "AwaitingPromptBuild")
                          \/ AcceptAssembled(m)
  BY DEF HandlePromptResponse
<1>2. m.s \in Sessions /\ m \in Messages
  BY <1>1 DEF TypeOK, Messages
<1>3. CASE TimeOut(m.s) /\ bus' = bus \ {m}
  BY <1>2, <1>3, TimeOutStreams DEF NoNewStream
<1>4. CASE Redrive(m, "AwaitingPromptBuild")
  <2>1. [m EXCEPT !.retry = @ + 1].type = "assembled"
    BY <1>1, <1>2 DEF Messages
  <2>2. NoNewStream
    BY <1>4, <2>1 DEF Redrive, NoNewStream
  <2> QED
    BY <1>4, <2>2, StreamsQuiet DEF Redrive, kvVars
<1>5. CASE AcceptAssembled(m)
  <2> DEFINE s == m.s
             next == [turn[s] EXCEPT !.phase = "Streaming"]
  <2>1. turn[s] \in TurnState /\ turn[s].phase = "AwaitingPromptBuild"
    BY <1>2, <1>5 DEF TypeOK, AcceptAssembled
  <2>2. next.phase = "Streaming" /\ next.req = turn[s].req
    BY <2>1 DEF TurnState
  <2>3. turn[s].req \in Requests
    BY <1>2, <2>1 DEF RunningHasRequest
  <2>4. NoStream(next.req)
    BY <1>2, <2>1, <2>2 DEF Streams, NoStream, Waiting
  <2>5. \A x \in Sessions \ {s} : turn[x].req # next.req
    BY <1>2, <2>2, <2>3, ConstantsAssumption DEF Streams, DistinctRequests
  <2> HIDE DEF next
  <2>6. CASE PublishLlmRequest(s, next, m.ctx, {}, bus \ {m})
    BY <1>2, <2>2, <2>3, <2>4, <2>5, <2>6, PublishStreams
  <2> QED
    BY <1>5, <2>6 DEF AcceptAssembled, next, Fault, NoSaveFaults
<1> QED
  BY <1>1, <1>3, <1>4, <1>5

\* An open stream is the only one of its request: none is left without it.
LEMMA LastEvent ==
    ASSUME Streams, NEW m \in bus, m.type = "llm", bus' = bus \ {m}
    PROVE  NoStream(m.req)'
BY DEF Streams, NoStream

LEMMA StreamStreams ==
    ASSUME TypeOK, RunningHasRequest, Streams, DistinctRequests', NoSaveFaults,
           HandleLlmStream
    PROVE  Streams'
<1>1. PICK m \in bus :
          /\ m.type = "llm"
          /\ \/ StreamIgnored(m)
             \/ \E s \in Sessions :
                  \/ StreamText(s, m)
                  \/ \E c \in Calls : StreamToolCallStart(s, m, c)
                  \/ StreamError(s, m)
                  \/ StreamDoneTools(s, m)
                  \/ StreamDoneText(s, m)
                  \/ StreamDoneEmpty(s, m)
                  \/ StreamTimeOut(s, m)
  BY DEF HandleLlmStream
<1>2. CASE StreamIgnored(m)
  BY <1>2, StreamsQuiet DEF StreamIgnored, NoNewStream, kvVars
<1>3. ASSUME NEW s \in Sessions, StreamText(s, m) PROVE Streams'
  <2> DEFINE t == [turn[s] EXCEPT !.text = TRUE]
  <2>1. t.phase = turn[s].phase /\ t.req = turn[s].req
    BY DEF TypeOK, TurnState
  <2>2. /\ turn' = [turn EXCEPT ![s] = t] /\ req2sess' = req2sess
        /\ NoNewStream
    BY <1>3 DEF StreamText, Save, Fault, NoSaveFaults, NoNewStream
  <2> HIDE DEF t
  <2> QED
    BY <2>1, <2>2, StreamsSaved
<1>4. ASSUME NEW s \in Sessions, NEW c \in Calls, StreamToolCallStart(s, m, c)
      PROVE  Streams'
  <2> DEFINE t == [turn[s] EXCEPT !.pend = Append(@, c)]
  <2>1. t.phase = turn[s].phase /\ t.req = turn[s].req
    BY DEF TypeOK, TurnState
  <2>2. /\ turn' = [turn EXCEPT ![s] = t] /\ req2sess' = req2sess
        /\ NoNewStream
    BY <1>4 DEF StreamToolCallStart, Save, Fault, NoSaveFaults, NoNewStream
  <2> HIDE DEF t
  <2> QED
    BY <2>1, <2>2, StreamsSaved
<1>5. ASSUME NEW s \in Sessions, StreamError(s, m) PROVE Streams'
  <2>1. /\ turn' = [turn EXCEPT ![s] = IdleTurn] /\ NoNewStream
        /\ req2sess' = Unmap(req2sess, {turn[s].req})
    BY <1>5 DEF StreamError, TearDown, EndTurn, CleanupInflight, Save, Fault,
                NoSaveFaults, NoNewStream
  <2> QED
    BY <2>1, StreamsEnd
<1>6. ASSUME NEW s \in Sessions, StreamDoneTools(s, m) PROVE Streams'
  <2> DEFINE disp == [i \in 1..Len(turn[s].pend) |->
                 [id |-> turn[s].pend[i], owner |-> turn[s].req, res |-> NoReq]]
             t == [turn[s] EXCEPT !.phase = "AwaitingTools", !.disp = disp,
                                  !.pend = <<>>]
  <2>1. req2sess' = Unmap(req2sess, {turn[s].req})
    BY <1>6 DEF StreamDoneTools, Accepts
  <2>2. t.phase = "AwaitingTools" /\ t.req = turn[s].req
    BY DEF TypeOK, TurnState
  <2>3. \/ turn' = [turn EXCEPT ![s] = t]
        \/ turn' = [turn EXCEPT ![s] = IdleTurn]
    BY <1>6 DEF StreamDoneTools, Fault, NoSaveFaults
  <2>4. NoNewStream
    BY <1>6 DEF StreamDoneTools, NoNewStream, Tool
  <2> HIDE DEF disp, t
  <2> QED
    BY <2>1, <2>2, <2>3, <2>4, StreamsSaved, StreamsEnd
<1>7. ASSUME NEW s \in Sessions, StreamDoneText(s, m) PROVE Streams'
  <2>1. /\ req2sess' = Unmap(req2sess, {turn[s].req}) /\ NoNewStream
        /\ bus' = bus \ {m} /\ m.req = turn[s].req
    BY <1>7 DEF StreamDoneText, Accepts, NoNewStream
  <2>2. CASE turn' = [turn EXCEPT ![s] = IdleTurn]
    BY <2>1, <2>2, StreamsEnd
  <2>3. CASE turn' = turn
    <3>1. Unasked(s)
      BY <1>1, <2>1, <2>3, LastEvent DEF Unasked
    <3>2. ASSUME NEW x \in Sessions \ {s} PROVE Unasked(x)
      <4>1. turn[x].phase \in Phases
        BY DEF TypeOK, TurnState
      <4>2. turn[x].phase # "Idle" =>
                req2sess'[turn[x].req] = req2sess[turn[x].req]
        BY <2>1, UnmapOwn DEF Streams
      <4> QED
        BY <2>3, <4>1, <4>2 DEF Unasked, Phases, Waiting
    <3> QED
      BY <2>1, <3>1, <3>2, StreamsKept
  <2> QED
    BY <1>7, <2>2, <2>3 DEF StreamDoneText, EndTurn, Save, Fault, NoSaveFaults
<1>8. ASSUME NEW s \in Sessions, StreamDoneEmpty(s, m) PROVE Streams'
  <2>1. /\ turn' = [turn EXCEPT ![s] = IdleTurn] /\ NoNewStream
        /\ req2sess' = Unmap(req2sess, {turn[s].req})
    BY <1>8 DEF StreamDoneEmpty, Accepts, EndTurn, Save, Fault, NoSaveFaults,
                NoNewStream
  <2> QED
    BY <2>1, StreamsEnd
<1>9. ASSUME NEW s \in Sessions, StreamTimeOut(s, m) PROVE Streams'
  BY <1>9, TimeOutStreams DEF StreamTimeOut, NoNewStream
<1> QED
  BY <1>1, <1>2, <1>3, <1>4, <1>5, <1>6, <1>7, <1>8, <1>9

LEMMA ToolStreams ==
    ASSUME TypeOK, RunningHasRequest, Streams, DistinctRequests', NoSaveFaults,
           HandleToolResult
    PROVE  Streams'
<1>1. PICK m \in bus :
          \/ ToolResultIgnored(m)
          \/ \E s \in Sessions :
               \/ ToolResultRecorded(s, m)
               \/ ToolResultStops(s, m)
               \/ ToolResultContinues(s, m)
               \/ ToolResultTimeOut(s, m)
  BY DEF HandleToolResult
<1>2. CASE ToolResultIgnored(m)
  BY <1>2, StreamsQuiet DEF ToolResultIgnored, NoNewStream, kvVars
<1>3. ASSUME NEW s \in Sessions, ToolResultRecorded(s, m) PROVE Streams'
  <2> DEFINE t == Recorded(turn[s], m)
  <2>1. t.phase = turn[s].phase /\ t.req = turn[s].req
    BY DEF TypeOK, TurnState, Recorded
  <2>2. /\ turn' = [turn EXCEPT ![s] = t] /\ req2sess' = req2sess
        /\ NoNewStream
    BY <1>3 DEF ToolResultRecorded, Save, Fault, NoSaveFaults, NoNewStream
  <2> HIDE DEF t
  <2> QED
    BY <2>1, <2>2, StreamsSaved
<1>4. ASSUME NEW s \in Sessions, ToolResultStops(s, m) PROVE Streams'
  <2>1. /\ turn' = [turn EXCEPT ![s] = IdleTurn] /\ NoNewStream
        /\ req2sess' = req2sess
    BY <1>4 DEF ToolResultStops, Fault, NoSaveFaults, NoNewStream
  <2> QED
    BY <2>1, StreamsEnd
<1>5. ASSUME NEW s \in Sessions, ToolResultContinues(s, m) PROVE Streams'
  <2>1. CASE UNCHANGED <<turn, req2sess>> /\ bus' = bus \ {m}
    BY <2>1, StreamsQuiet DEF NoNewStream
  <2>2. ASSUME NEW r \in Requests, FreshRequest(r),
               PublishLlmRequest(s, FreshTurn("Streaming", r, turn[s].iter + 1),
                                 hist[s], DispIds(turn[s]), bus \ {m})
        PROVE  Streams'
    <3> DEFINE t == FreshTurn("Streaming", r, turn[s].iter + 1)
    <3>1. t.phase = "Streaming" /\ t.req = r
      BY FreshTurnFields
    <3>2. NoStream(r) /\ \A x \in Sessions : turn[x].req # r
      BY <2>2 DEF FreshRequest, NoStream
    <3> HIDE DEF t
    <3>3. PublishLlmRequest(s, t, hist[s], DispIds(turn[s]), bus \ {m})
      BY <2>2 DEF t
    <3> QED
      BY <3>1, <3>2, <3>3, PublishStreams
  <2> QED
    BY <1>5, <2>1, <2>2 DEF ToolResultContinues, kvVars
<1>6. ASSUME NEW s \in Sessions, ToolResultTimeOut(s, m) PROVE Streams'
  BY <1>6, TimeOutStreams DEF ToolResultTimeOut, NoNewStream
<1> QED
  BY <1>1, <1>2, <1>3, <1>4, <1>5, <1>6

\* The turns that a tick or a lag ends take only their own keys with them.
LEMMA EndAllStreams ==
    ASSUME TypeOK, RunningHasRequest, Streams, DistinctRequests', NoSaveFaults,
           NEW hit \in SUBSET Sessions, NEW failed, NEW mapped,
           EndAll(hit, failed, mapped)
    PROVE  Streams'
<1>1. failed = {}
  BY DEF EndAll, Fault, NoSaveFaults
<1>2. \A s \in Sessions : turn'[s] = IF s \in hit THEN IdleTurn ELSE turn[s]
  BY <1>1 DEF EndAll
<1>3. ASSUME NEW x \in Sessions PROVE Unasked(x)
  <2>1. turn[x].phase \in Phases
    BY DEF TypeOK, TurnState
  <2>2. CASE x \in hit
    BY <1>2, <2>2, IdleTurnFields DEF Unasked
  <2>3. CASE x \notin hit /\ turn[x].phase # "Idle"
    <3>1. turn[x].req \in Requests /\ turn[x].req # NoReq
      BY <2>3, ConstantsAssumption DEF RunningHasRequest
    <3>2. turn[x].req \notin {turn[s].req : s \in hit \ mapped}
      BY <2>3, <3>1 DEF Streams, DistinctRequests
    <3>3. req2sess'[turn[x].req] = req2sess[turn[x].req]
      BY <3>1, <3>2 DEF TypeOK, EndAll, Unmap
    <3> QED
      BY <1>2, <2>1, <2>3, <3>3 DEF Unasked, Phases, Waiting
  <2>4. CASE x \notin hit /\ turn[x].phase = "Idle"
    BY <1>2, <2>4 DEF Unasked
  <2> QED
    BY <2>2, <2>3, <2>4
<1>4. NoNewStream
  BY DEF EndAll, NoNewStream
<1> QED
  BY <1>3, <1>4, StreamsKept

LEMMA NextStreams ==
    ASSUME TypeOK, RunningHasRequest, Streams, NoSaveFaults, [Next]_vars
    PROVE  Streams'
<1>0. DistinctRequests'
  BY NextDistinct DEF Streams
<1>1. CASE \E s \in Sessions : HandleUserPrompt(s)
  BY <1>0, <1>1, PromptStreams
<1>2. CASE \E s \in Sessions : UserPromptAppendFails(s)
  BY <1>0, <1>2, StreamsQuiet DEF UserPromptAppendFails, NoNewStream, kvVars
<1>3. ASSUME NEW s \in Sessions, HandleCancel(s) PROVE Streams'
  <2>1. /\ turn' = [turn EXCEPT ![s] = IdleTurn] /\ NoNewStream
        /\ req2sess' = Unmap(req2sess, {turn[s].req})
    BY <1>3 DEF HandleCancel, TearDown, EndTurn, CleanupInflight, Save, Fault,
                NoSaveFaults, NoNewStream
  <2> QED
    BY <1>0, <2>1, StreamsEnd
<1>4. CASE PromptBuilderAssemble
  <2>1. NoNewStream
    BY <1>4 DEF PromptBuilderAssemble, NoNewStream, Assembled
  <2> QED
    BY <1>0, <1>4, <2>1, StreamsQuiet DEF PromptBuilderAssemble, kvVars
<1>5. CASE HandleWatchdogTick
  <2>1. PICK hit, failed \in SUBSET Sessions : EndAll(hit, failed, failed)
    BY <1>5 DEF HandleWatchdogTick, TypeOK
  <2> QED
    BY <1>0, <2>1, EndAllStreams
<1>6. CASE HandleBusLag
  <2>1. PICK hit, failed \in SUBSET Sessions : EndAll(hit, failed, {})
    BY <1>6 DEF HandleBusLag, TypeOK
  <2> QED
    BY <1>0, <2>1, EndAllStreams
<1>7. ASSUME NEW s \in Sessions, HandleSessionClear(s) PROVE Streams'
  BY <1>0, <1>7, StreamsEnd DEF HandleSessionClear, NoNewStream
<1>8. CASE HandleLifecycleRestart
  <2>1. \A s \in Sessions : Unasked(s)
    BY <1>8, IdleTurnFields DEF HandleLifecycleRestart, Unasked
  <2> QED
    BY <1>0, <1>8, <2>1, StreamsKept DEF HandleLifecycleRestart, NoNewStream
<1>9. CASE UNCHANGED vars
  BY <1>0, <1>9, StreamsQuiet DEF NoNewStream, vars, kvVars
<1> QED
  BY <1>0, <1>1, <1>2, <1>3, <1>4, <1>5, <1>6, <1>7, <1>8, <1>9,
     IdentityStreams, PromptResponseStreams, StreamStreams, ToolStreams DEF Next

LEMMA InitStreams == Init => Streams
BY IdleTurnFields
   DEF Init, Streams, DistinctRequests, OpenStreamRoutable, Waiting

\* "store_request_session before the publish": as long as no KV write fails,
\* the stream a turn waits for can always be led back to it.
THEOREM StreamsAreRoutable ==
    ASSUME NoSaveFaults
    PROVE  Spec => []OpenStreamRoutable
<1> DEFINE I == TypeOK /\ RunningHasRequest /\ Streams
<1>1. Init => I
  BY InitOK, InitStreams
<1>2. I /\ [Next]_vars => I'
  BY NextType, NextRunning, NextStreams
<1>3. I => OpenStreamRoutable
  BY DEF Streams
<1> HIDE DEF I
<1> QED
  BY <1>1, <1>2, <1>3, PTL DEF Spec

-----------------------------------------------------------------------------
(* Tool calls *)

\* The call ids a turn holds: announced by its stream, or dispatched.
Held(t) == DispIds(t) \cup PendIds(t)

\* No two turns hold the same call, a call in flight is nobody's announced one,
\* and it was sent for the request of the turn that dispatched it.
CallsInFlight ==
    /\ \A s, x \in Sessions : s # x => Held(turn[s]) \cap Held(turn[x]) = {}
    /\ \A m \in bus, s \in Sessions : m.type = "tool" =>
          /\ m.id \notin PendIds(turn[s])
          /\ m.id \in DispIds(turn[s]) => m.req = turn[s].req

NoNewTool == \A m \in bus' : m.type = "tool" => m \in bus

\* s's turn lets go of its calls, or keeps them for the same request.
CallsAs(s) ==
    \/ turn'[s].pend = <<>> /\ turn'[s].disp = <<>>
    \/ /\ turn'[s].pend = turn[s].pend /\ turn'[s].disp = turn[s].disp
       /\ turn'[s].req = turn[s].req

LEMMA CallsKept ==
    ASSUME CallsInFlight, NoNewTool, \A s \in Sessions : CallsAs(s)
    PROVE  CallsInFlight'
<1>1. \A s \in Sessions :
          /\ DispIds(turn'[s]) \subseteq DispIds(turn[s])
          /\ PendIds(turn'[s]) \subseteq PendIds(turn[s])
  BY DEF CallsAs, DispIds, PendIds
<1>2. \A s \in Sessions : DispIds(turn'[s]) # {} => turn'[s].req = turn[s].req
  BY DEF CallsAs, DispIds
<1>3. \A s, x \in Sessions : s # x => Held(turn'[s]) \cap Held(turn'[x]) = {}
  BY <1>1 DEF CallsInFlight, Held
<1>4. \A m \in bus', s \in Sessions : m.type = "tool" =>
          /\ m.id \notin PendIds(turn'[s])
          /\ m.id \in DispIds(turn'[s]) => m.req = turn'[s].req
  BY <1>1, <1>2 DEF CallsInFlight, NoNewTool
<1> QED
  BY <1>3, <1>4 DEF CallsInFlight

\* One turn is replaced by t, which holds no call or those it held.
LEMMA CallsKeptBy ==
    ASSUME TypeOK, CallsInFlight, NoNewTool, NEW s \in Sessions, NEW t,
           turn' \in {turn, [turn EXCEPT ![s] = t]},
           \/ t.pend = <<>> /\ t.disp = <<>>
           \/ t.pend = turn[s].pend /\ t.disp = turn[s].disp /\ t.req = turn[s].req
    PROVE  CallsInFlight'
<1>1. \A x \in Sessions : CallsAs(x)
  BY DEF TypeOK, CallsAs
<1> QED
  BY <1>1, CallsKept

LEMMA CallsDropped ==
    ASSUME TypeOK, CallsInFlight, NoNewTool, NEW s \in Sessions,
           turn' \in {turn, [turn EXCEPT ![s] = IdleTurn]}
    PROVE  CallsInFlight'
BY CallsKeptBy, IdleTurnFields

LEMMA CallsQuiet ==
    ASSUME CallsInFlight, NoNewTool, turn' = turn
    PROVE  CallsInFlight'
BY CallsKept DEF CallsAs

LEMMA PublishCalls ==
    ASSUME TypeOK, CallsInFlight, NEW s \in Sessions, NEW t, NEW c, NEW calls,
           NEW rest \in SUBSET bus, PublishLlmRequest(s, t, c, calls, rest),
           \/ t.pend = <<>> /\ t.disp = <<>>
           \/ t.pend = turn[s].pend /\ t.disp = turn[s].disp /\ t.req = turn[s].req
    PROVE  CallsInFlight'
<1>1. NoNewTool
  BY DEF PublishLlmRequest, NoNewTool, Llm
<1>2. \/ turn' = [turn EXCEPT ![s] = t]
      \/ turn' = [turn EXCEPT ![s] = IdleTurn]
  BY DEF PublishLlmRequest
<1> QED
  BY <1>1, <1>2, CallsKeptBy, CallsDropped

LEMMA PromptCalls ==
    ASSUME TypeOK, CallsInFlight, NEW s \in Sessions, HandleUserPrompt(s)
    PROVE  CallsInFlight'
<1>1. NoNewTool
  BY DEF HandleUserPrompt, NoNewTool, Spark
<1>2. CASE turn' = turn
  BY <1>1, <1>2, CallsQuiet
<1>3. ASSUME NEW r \in Requests,
             turn' = [turn EXCEPT ![s] = FreshTurn("AwaitingIdentity", r, 0)]
      PROVE  CallsInFlight'
  <2> DEFINE t == FreshTurn("AwaitingIdentity", r, 0)
  <2>1. t.pend = <<>> /\ t.disp = <<>>
    BY FreshTurnFields
  <2>2. turn' \in {turn, [turn EXCEPT ![s] = t]}
    BY <1>3
  <2> HIDE DEF t
  <2> QED
    BY <1>1, <2>1, <2>2, CallsKeptBy
<1> QED
  BY <1>2, <1>3 DEF HandleUserPrompt

LEMMA TimeOutCalls ==
    ASSUME TypeOK, CallsInFlight, NEW s \in Sessions, TimeOut(s), NoNewTool
    PROVE  CallsInFlight'
BY CallsDropped DEF TimeOut

LEMMA IdentityCalls ==
    ASSUME TypeOK, CallsInFlight, HandleIdentityResponse
    PROVE  CallsInFlight'
<1>1. PICK m \in bus : /\ m.type = "spark"
                       /\ \/ TimeOut(m.s) /\ bus' = bus \ {m}
                          \/ Redrive(m, "AwaitingIdentity")
                          \/ AcceptIdentity(m)
  BY DEF HandleIdentityResponse
<1>2. m.s \in Sessions /\ m \in Messages
  BY <1>1 DEF TypeOK, Messages
<1>3. CASE TimeOut(m.s) /\ bus' = bus \ {m}
  BY <1>2, <1>3, TimeOutCalls DEF NoNewTool
<1>4. CASE Redrive(m, "AwaitingIdentity")
  <2>1. [m EXCEPT !.retry = @ + 1].type = "spark"
    BY <1>1, <1>2 DEF Messages
  <2> QED
    BY <1>4, <2>1, CallsQuiet DEF Redrive, NoNewTool, kvVars
<1>5. CASE AcceptIdentity(m)
  <2> DEFINE s == m.s
             next == [turn[s] EXCEPT !.phase = "AwaitingPromptBuild"]
  <2>1. next.pend = turn[s].pend /\ next.disp = turn[s].disp /\ next.req = turn[s].req
    BY <1>2 DEF TypeOK, TurnState
  <2>2. NoNewTool
    BY <1>5 DEF AcceptIdentity, NoNewTool, Assemble
  <2> HIDE DEF next
  <2>3. \/ turn' = [turn EXCEPT ![s] = next]
        \/ turn' \in {turn, [turn EXCEPT ![s] = IdleTurn]}
    BY <1>5 DEF AcceptIdentity, next, kvVars
  <2> QED
    BY <1>2, <2>1, <2>2, <2>3, CallsKeptBy, CallsDropped
<1> QED
  BY <1>1, <1>3, <1>4, <1>5

LEMMA PromptResponseCalls ==
    ASSUME TypeOK, CallsInFlight, HandlePromptResponse
    PROVE  CallsInFlight'
<1>1. PICK m \in bus : /\ m.type = "assembled"
                       /\ \/ TimeOut(m.s) /\ bus' = bus \ {m}
                          \/ Redrive(m, "AwaitingPromptBuild")
                          \/ AcceptAssembled(m)
  BY DEF HandlePromptResponse
<1>2. m.s \in Sessions /\ m \in Messages
  BY <1>1 DEF TypeOK, Messages
<1>3. CASE TimeOut(m.s) /\ bus' = bus \ {m}
  BY <1>2, <1>3, TimeOutCalls DEF NoNewTool
<1>4. CASE Redrive(m, "AwaitingPromptBuild")
  <2>1. [m EXCEPT !.retry = @ + 1].type = "assembled"
    BY <1>1, <1>2 DEF Messages
  <2> QED
    BY <1>4, <2>1, CallsQuiet DEF Redrive, NoNewTool, kvVars
<1>5. CASE AcceptAssembled(m)
  <2> DEFINE s == m.s
             next == [turn[s] EXCEPT !.phase = "Streaming"]
  <2>1. next.pend = turn[s].pend /\ next.disp = turn[s].disp /\ next.req = turn[s].req
    BY <1>2 DEF TypeOK, TurnState
  <2> HIDE DEF next
  <2>2. CASE PublishLlmRequest(s, next, m.ctx, {}, bus \ {m})
    BY <1>2, <2>1, <2>2, PublishCalls
  <2>3. CASE turn' = turn /\ bus' = bus \ {m}
    BY <2>3, CallsQuiet DEF NoNewTool
  <2> QED
    BY <1>5, <2>2, <2>3 DEF AcceptAssembled, next, kvVars
<1> QED
  BY <1>1, <1>3, <1>4, <1>5

\* A stream announces a call that nobody holds and no tool still runs.
LEMMA AnnouncedCalls ==
    ASSUME TypeOK, CallsInFlight, NoNewTool, NEW s \in Sessions, NEW c \in Calls,
           FreshCall(c),
           turn' \in
               {turn, [turn EXCEPT ![s] = [turn[s] EXCEPT !.pend = Append(@, c)]]}
    PROVE  CallsInFlight'
<1> DEFINE t == [turn[s] EXCEPT !.pend = Append(@, c)]
<1>1. turn[s] \in TurnState /\ turn[s].pend \in Seq(Calls)
  BY DEF TypeOK, TurnState
<1>2. /\ t.disp = turn[s].disp /\ t.req = turn[s].req
      /\ t.pend = Append(turn[s].pend, c)
  BY <1>1 DEF TurnState
<1>3. turn' \in {turn, [turn EXCEPT ![s] = t]}
  OBVIOUS
<1> HIDE DEF t
<1>4. PendIds(t) \subseteq PendIds(turn[s]) \cup {c} /\ DispIds(t) = DispIds(turn[s])
  BY <1>1, <1>2 DEF PendIds, DispIds
<1>5. CASE turn' = turn
  BY <1>5, CallsQuiet
<1>6. CASE turn' = [turn EXCEPT ![s] = t]
  <2>1. turn'[s] = t /\ \A x \in Sessions \ {s} : turn'[x] = turn[x]
    BY <1>6 DEF TypeOK
  <2>2. /\ \A x \in Sessions : c \notin Held(turn[x])
        /\ \A m \in bus : m.type = "tool" => m.id # c
    BY DEF FreshCall, Held
  <2>3. \A x, y \in Sessions : x # y => Held(turn'[x]) \cap Held(turn'[y]) = {}
    BY <1>4, <2>1, <2>2 DEF CallsInFlight, Held
  <2>4. \A m \in bus', x \in Sessions : m.type = "tool" =>
            /\ m.id \notin PendIds(turn'[x])
            /\ m.id \in DispIds(turn'[x]) => m.req = turn'[x].req
    BY <1>2, <1>4, <2>1, <2>2 DEF CallsInFlight, NoNewTool
  <2> QED
    BY <2>3, <2>4 DEF CallsInFlight
<1> QED
  BY <1>3, <1>5, <1>6

\* A turn sends out (some of) the calls it had announced, and only those.
LEMMA SentCalls ==
    ASSUME TypeOK, CallsInFlight, NEW s \in Sessions, NEW t,
           turn' = [turn EXCEPT ![s] = t],
           PendIds(t) = {}, DispIds(t) \subseteq PendIds(turn[s]),
           DispIds(t) # {} => t.req = turn[s].req,
           \A m \in bus' : m.type = "tool" =>
               m \in bus \/ (m.id \in PendIds(turn[s]) /\ m.req = turn[s].req)
    PROVE  CallsInFlight'
<1>1. turn'[s] = t /\ \A x \in Sessions \ {s} : turn'[x] = turn[x]
  BY DEF TypeOK
<1>2. \A x, y \in Sessions : x # y => Held(turn'[x]) \cap Held(turn'[y]) = {}
  BY <1>1 DEF CallsInFlight, Held
<1>3. ASSUME NEW m \in bus', NEW x \in Sessions, m.type = "tool"
      PROVE  /\ m.id \notin PendIds(turn'[x])
             /\ m.id \in DispIds(turn'[x]) => m.req = turn'[x].req
  <2>1. CASE x = s
    BY <1>1, <1>3, <2>1 DEF CallsInFlight
  <2>2. CASE x # s
    BY <1>1, <1>3, <2>2 DEF CallsInFlight, Held
  <2> QED
    BY <2>1, <2>2
<1> QED
  BY <1>2, <1>3 DEF CallsInFlight

\* A result is recorded on a call of the turn that sent it.
LEMMA RecordedCalls ==
    ASSUME TypeOK, CallsInFlight, NoNewTool, NEW s \in Sessions, NEW m \in bus,
           m.type = "tool", turn' \in {turn, [turn EXCEPT ![s] = Recorded(turn[s], m)]}
    PROVE  CallsInFlight'
<1> DEFINE t == Recorded(turn[s], m)
<1>1. turn[s] \in TurnState /\ turn[s].disp \in Seq(Dispatched)
  BY DEF TypeOK, TurnState
<1>2. /\ t.pend = turn[s].pend /\ t.req = turn[s].req
      /\ DOMAIN t.disp = DOMAIN turn[s].disp
  BY <1>1 DEF Recorded, TurnState
<1>3. \A i \in DOMAIN turn[s].disp :
          /\ t.disp[i].id = turn[s].disp[i].id
          /\ \/ t.disp[i].res = turn[s].disp[i].res
             \/ turn[s].disp[i].id = m.id /\ t.disp[i].res = m.req
  <2> TAKE i \in DOMAIN turn[s].disp
  <2>1. turn[s].disp[i] \in Dispatched
    BY <1>1
  <2>2. t.disp[i] = IF i \in FirstWithId(turn[s].disp, m.id)
                    THEN [turn[s].disp[i] EXCEPT !.res = m.req] ELSE turn[s].disp[i]
    BY <1>1 DEF Recorded, TurnState
  <2> HIDE DEF t
  <2>3. CASE i \in FirstWithId(turn[s].disp, m.id)
    <3>1. turn[s].disp[i].id = m.id
      BY <2>3 DEF FirstWithId
    <3> QED
      BY <2>1, <2>2, <2>3, <3>1 DEF Dispatched
  <2>4. CASE i \notin FirstWithId(turn[s].disp, m.id)
    BY <2>2, <2>4
  <2> QED
    BY <2>3, <2>4
<1>4. turn' \in {turn, [turn EXCEPT ![s] = t]}
  OBVIOUS
<1> HIDE DEF t
<1>5. PendIds(t) = PendIds(turn[s]) /\ DispIds(t) = DispIds(turn[s])
  BY <1>2, <1>3 DEF PendIds, DispIds
<1>6. CASE turn' = turn
  BY <1>6, CallsQuiet
<1>7. CASE turn' = [turn EXCEPT ![s] = t]
  <2>1. turn'[s] = t /\ \A x \in Sessions \ {s} : turn'[x] = turn[x]
    BY <1>7 DEF TypeOK
  <2>2. \A x, y \in Sessions : x # y => Held(turn'[x]) \cap Held(turn'[y]) = {}
    BY <1>5, <2>1 DEF CallsInFlight, Held
  <2>3. \A n \in bus', x \in Sessions : n.type = "tool" =>
            /\ n.id \notin PendIds(turn'[x])
            /\ n.id \in DispIds(turn'[x]) => n.req = turn'[x].req
    BY <1>2, <1>5, <2>1 DEF CallsInFlight, NoNewTool
  <2> QED
    BY <2>2, <2>3 DEF CallsInFlight
<1> QED
  BY <1>4, <1>6, <1>7

LEMMA StreamCalls ==
    ASSUME FreshCallIds, TypeOK, CallsInFlight, HandleLlmStream
    PROVE  CallsInFlight'
<1>1. PICK m \in bus :
          \/ StreamIgnored(m)
          \/ \E s \in Sessions :
               \/ StreamText(s, m)
               \/ \E c \in Calls : StreamToolCallStart(s, m, c)
               \/ StreamError(s, m)
               \/ StreamDoneTools(s, m)
               \/ StreamDoneText(s, m)
               \/ StreamDoneEmpty(s, m)
               \/ StreamTimeOut(s, m)
  BY DEF HandleLlmStream
<1>2. CASE StreamIgnored(m)
  BY <1>2, CallsQuiet DEF StreamIgnored, NoNewTool, kvVars
<1>3. ASSUME NEW s \in Sessions, StreamText(s, m) PROVE CallsInFlight'
  <2> DEFINE t == [turn[s] EXCEPT !.text = TRUE]
  <2>1. t.pend = turn[s].pend /\ t.disp = turn[s].disp /\ t.req = turn[s].req
    BY DEF TypeOK, TurnState
  <2>2. turn' \in {turn, [turn EXCEPT ![s] = t]} /\ NoNewTool
    BY <1>3 DEF StreamText, Save, NoNewTool
  <2> HIDE DEF t
  <2> QED
    BY <2>1, <2>2, CallsKeptBy
<1>4. ASSUME NEW s \in Sessions, NEW c \in Calls, StreamToolCallStart(s, m, c)
      PROVE  CallsInFlight'
  BY <1>4, AnnouncedCalls DEF StreamToolCallStart, Save, NoNewTool
<1>5. ASSUME NEW s \in Sessions,
             \/ StreamError(s, m) \/ StreamDoneText(s, m) \/ StreamDoneEmpty(s, m)
      PROVE  CallsInFlight'
  <2>1. turn' \in {turn, [turn EXCEPT ![s] = IdleTurn]} /\ NoNewTool
    BY <1>5 DEF StreamError, StreamDoneText, StreamDoneEmpty, TearDown, EndTurn,
                Save, NoNewTool
  <2> QED
    BY <2>1, CallsDropped
<1>6. ASSUME NEW s \in Sessions, StreamDoneTools(s, m) PROVE CallsInFlight'
  <2> DEFINE p == turn[s].pend
             disp == [i \in 1..Len(p) |->
                        [id |-> p[i], owner |-> turn[s].req, res |-> NoReq]]
             t == [turn[s] EXCEPT !.phase = "AwaitingTools", !.disp = disp,
                                  !.pend = <<>>]
  <2>1. p \in Seq(Calls) /\ Len(p) \in Nat /\ DOMAIN p = 1..Len(p)
    BY DEF TypeOK, TurnState
  <2>2. t.pend = <<>> /\ t.disp = disp /\ t.req = turn[s].req
    BY DEF TypeOK, TurnState
  <2>3. DOMAIN disp = 1..Len(p) /\ \A i \in DOMAIN disp :
            disp[i].id = p[i]
    BY <2>1
  <2>4. \A n \in bus' : n.type = "tool" =>
            n \in bus \/ (n.id \in PendIds(turn[s]) /\ n.req = turn[s].req)
    BY <1>6, <2>1 DEF StreamDoneTools, Tool, PendIds
  <2>5. \/ turn' = [turn EXCEPT ![s] = t]
        \/ turn' = [turn EXCEPT ![s] = IdleTurn]
        \/ turn' = turn /\ NoNewTool
    BY <1>6 DEF StreamDoneTools, NoNewTool
  <2> HIDE DEF disp, t
  <2>6. CASE turn' = [turn EXCEPT ![s] = t]
    <3>1. PendIds(t) = {} /\ DispIds(t) \subseteq PendIds(turn[s])
      BY <2>1, <2>2, <2>3 DEF PendIds, DispIds
    <3> QED
      BY <2>2, <2>4, <2>6, <3>1, SentCalls
  <2>7. CASE turn' = [turn EXCEPT ![s] = IdleTurn]
    <3>1. PendIds(IdleTurn) = {} /\ DispIds(IdleTurn) = {}
      BY IdleTurnFields DEF PendIds, DispIds
    <3> QED
      BY <2>4, <2>7, <3>1, SentCalls
  <2>8. CASE turn' = turn /\ NoNewTool
    BY <2>8, CallsQuiet
  <2> QED
    BY <2>5, <2>6, <2>7, <2>8
<1>7. ASSUME NEW s \in Sessions, StreamTimeOut(s, m) PROVE CallsInFlight'
  BY <1>7, TimeOutCalls DEF StreamTimeOut, NoNewTool
<1> QED
  BY <1>1, <1>2, <1>3, <1>4, <1>5, <1>6, <1>7

LEMMA ToolCalls ==
    ASSUME TypeOK, CallsInFlight, HandleToolResult
    PROVE  CallsInFlight'
<1>1. PICK m \in bus :
          /\ m.type = "tool"
          /\ \/ ToolResultIgnored(m)
             \/ \E s \in Sessions :
                  \/ ToolResultRecorded(s, m)
                  \/ ToolResultStops(s, m)
                  \/ ToolResultContinues(s, m)
                  \/ ToolResultTimeOut(s, m)
  BY DEF HandleToolResult
<1>2. CASE ToolResultIgnored(m)
  BY <1>2, CallsQuiet DEF ToolResultIgnored, NoNewTool, kvVars
<1>3. ASSUME NEW s \in Sessions, ToolResultRecorded(s, m) PROVE CallsInFlight'
  BY <1>1, <1>3, RecordedCalls DEF ToolResultRecorded, Save, NoNewTool
<1>4. ASSUME NEW s \in Sessions, ToolResultStops(s, m) PROVE CallsInFlight'
  BY <1>4, CallsDropped DEF ToolResultStops, NoNewTool
<1>5. ASSUME NEW s \in Sessions, ToolResultContinues(s, m) PROVE CallsInFlight'
  <2>1. CASE turn' = turn /\ bus' = bus \ {m}
    BY <2>1, CallsQuiet DEF NoNewTool
  <2>2. ASSUME NEW r \in Requests,
               PublishLlmRequest(s, FreshTurn("Streaming", r, turn[s].iter + 1),
                                 hist[s], DispIds(turn[s]), bus \ {m})
        PROVE  CallsInFlight'
    <3> DEFINE t == FreshTurn("Streaming", r, turn[s].iter + 1)
    <3>1. t.pend = <<>> /\ t.disp = <<>>
      BY FreshTurnFields
    <3> HIDE DEF t
    <3>2. PublishLlmRequest(s, t, hist[s], DispIds(turn[s]), bus \ {m})
      BY <2>2 DEF t
    <3> QED
      BY <3>1, <3>2, PublishCalls
  <2> QED
    BY <1>5, <2>1, <2>2 DEF ToolResultContinues, kvVars
<1>6. ASSUME NEW s \in Sessions, ToolResultTimeOut(s, m) PROVE CallsInFlight'
  BY <1>6, TimeOutCalls DEF ToolResultTimeOut, NoNewTool
<1> QED
  BY <1>1, <1>2, <1>3, <1>4, <1>5, <1>6

LEMMA EndAllCalls ==
    ASSUME CallsInFlight, NEW hit, NEW failed, NEW mapped, EndAll(hit, failed, mapped)
    PROVE  CallsInFlight'
<1>1. \A s \in Sessions : CallsAs(s)
  BY IdleTurnFields DEF EndAll, CallsAs
<1> QED
  BY <1>1, CallsKept DEF EndAll, NoNewTool

LEMMA NextCalls ==
    ASSUME FreshCallIds, TypeOK, CallsInFlight, [Next]_vars
    PROVE  CallsInFlight'
<1>1. CASE \E s \in Sessions : HandleUserPrompt(s)
  BY <1>1, PromptCalls
<1>2. CASE \E s \in Sessions : UserPromptAppendFails(s)
  BY <1>2, CallsQuiet DEF UserPromptAppendFails, NoNewTool, kvVars
<1>3. ASSUME NEW s \in Sessions, HandleCancel(s) PROVE CallsInFlight'
  BY <1>3, CallsDropped DEF HandleCancel, TearDown, EndTurn, Save, NoNewTool
<1>4. CASE PromptBuilderAssemble
  <2>1. NoNewTool
    BY <1>4 DEF PromptBuilderAssemble, NoNewTool, Assembled
  <2> QED
    BY <1>4, <2>1, CallsQuiet DEF PromptBuilderAssemble, kvVars
<1>5. CASE HandleWatchdogTick
  BY <1>5, EndAllCalls DEF HandleWatchdogTick
<1>6. CASE HandleBusLag
  BY <1>6, EndAllCalls DEF HandleBusLag
<1>7. ASSUME NEW s \in Sessions, HandleSessionClear(s) PROVE CallsInFlight'
  BY <1>7, CallsDropped DEF HandleSessionClear, NoNewTool
<1>8. CASE HandleLifecycleRestart
  BY <1>8, CallsKept, IdleTurnFields DEF HandleLifecycleRestart, NoNewTool, CallsAs
<1>9. CASE UNCHANGED vars
  BY <1>9, CallsQuiet DEF NoNewTool, vars, kvVars
<1> QED
  BY <1>1, <1>2, <1>3, <1>4, <1>5, <1>6, <1>7, <1>8, <1>9,
     IdentityCalls, PromptResponseCalls, StreamCalls, ToolCalls DEF Next

LEMMA InitCalls == Init => CallsInFlight
<1>1. Held(IdleTurn) = {} /\ PendIds(IdleTurn) = {} /\ DispIds(IdleTurn) = {}
  BY IdleTurnFields DEF Held, PendIds, DispIds
<1> QED
  BY <1>1, IdleTurnFields DEF Init, CallsInFlight

-----------------------------------------------------------------------------
(* The correlation keys live exactly as long as the turns they were written *)
(* for: no turn in progress loses a key to another one, no key outlives its *)
(* turn, and an event that does changes nothing.                            *)

\* A frontend clears a session only between turns.
ClearsBetweenTurns == ~MidTurnClear

-----------------------------------------------------------------------------
(* Keys end with their turn *)

\* Keys are only deleted.
Shrinks ==
    /\ \A r \in Requests : req2sess'[r] \in {req2sess[r], NoSession}
    /\ \A c \in Calls : call2sess'[c] \in {call2sess[c], NoSession}

\* What s's turn waited for leads to s no more.
Cleared(s) ==
    /\ turn[s].phase = "Streaming" =>
          \A r \in Requests : r = turn[s].req => req2sess'[r] # s
    /\ turn[s].phase = "AwaitingTools" =>
          \A c \in Calls : c \in DispIds(turn[s]) => call2sess'[c] # s

\* s's turn waits for what it waited for.
Waits(s) ==
    /\ turn'[s].phase = turn[s].phase /\ turn'[s].req = turn[s].req
    /\ DispIds(turn'[s]) = DispIds(turn[s])

LEMMA LiveKept ==
    ASSUME MappingsAreLive, Shrinks, \A s \in Sessions : Waits(s) \/ Cleared(s)
    PROVE  MappingsAreLive'
BY ConstantsAssumption DEF MappingsAreLive, Shrinks, Waits, Cleared

LEMMA LiveQuiet ==
    ASSUME MappingsAreLive, UNCHANGED <<turn, req2sess, call2sess>>
    PROVE  MappingsAreLive'
BY DEF MappingsAreLive

LEMMA Cleaned ==
    ASSUME TypeOK, NEW s \in Sessions, CleanupInflight(s)
    PROVE  Shrinks /\ Cleared(s)
BY ConstantsAssumption DEF TypeOK, CleanupInflight, Unmap, Shrinks, Cleared

\* One turn is replaced, and what it waited for is unmapped.
LEMMA LiveCleared ==
    ASSUME TypeOK, MappingsAreLive, NEW s \in Sessions, NEW t, Shrinks,
           turn' = [turn EXCEPT ![s] = t],
           \/ Cleared(s)
           \/ t.phase = turn[s].phase /\ t.req = turn[s].req
              /\ DispIds(t) = DispIds(turn[s])
    PROVE  MappingsAreLive'
<1>1. turn'[s] = t /\ \A x \in Sessions \ {s} : turn'[x] = turn[x]
  BY DEF TypeOK
<1>2. \A x \in Sessions : Waits(x) \/ Cleared(x)
  BY <1>1 DEF Waits
<1> QED
  BY <1>2, LiveKept

LEMMA LiveTimeOut ==
    ASSUME TypeOK, MappingsAreLive, NoSaveFaults, NEW s \in Sessions, TimeOut(s)
    PROVE  MappingsAreLive'
BY Cleaned, LiveCleared DEF TimeOut, Fault, NoSaveFaults

LEMMA LiveTearDown ==
    ASSUME TypeOK, MappingsAreLive, NoSaveFaults, NEW s \in Sessions, TearDown(s)
    PROVE  MappingsAreLive'
BY Cleaned, LiveCleared DEF TearDown, EndTurn, Save, Fault, NoSaveFaults

\* publish_llm_request, once the calls of the round before are unmapped.
LEMMA LivePublish ==
    ASSUME TypeOK, MappingsAreLive, NoSaveFaults, NEW s \in Sessions, NEW t,
           NEW c, NEW calls, NEW rest, PublishLlmRequest(s, t, c, calls, rest),
           t.phase = "Streaming", t.req \in Requests, turn[s].phase # "Streaming",
           turn[s].phase = "AwaitingTools" => calls = DispIds(turn[s])
    PROVE  MappingsAreLive'
<1>1. CASE /\ turn' = [turn EXCEPT ![s] = t]
           /\ req2sess' = [req2sess EXCEPT ![t.req] = s]
           /\ call2sess' = Unmap(call2sess, calls)
  <2>1. turn'[s] = t /\ \A x \in Sessions \ {s} : turn'[x] = turn[x]
    BY <1>1 DEF TypeOK
  <2>2. \A r \in Requests : req2sess'[r] = IF r = t.req THEN s ELSE req2sess[r]
    BY <1>1 DEF TypeOK
  <2>3. \A k \in Calls : call2sess'[k] = IF k \in calls THEN NoSession ELSE call2sess[k]
    BY <1>1 DEF TypeOK, Unmap
  <2>4. \A r \in Requests, x \in Sessions :
            req2sess'[r] = x => turn'[x].req = r /\ turn'[x].phase = "Streaming"
    BY <2>1, <2>2 DEF MappingsAreLive
  <2>5. \A k \in Calls, x \in Sessions :
            call2sess'[k] = x =>
                turn'[x].phase = "AwaitingTools" /\ k \in DispIds(turn'[x])
    BY <2>1, <2>3, ConstantsAssumption DEF MappingsAreLive
  <2> QED
    BY <2>4, <2>5 DEF MappingsAreLive
<1>2. CASE /\ turn' \in {[turn EXCEPT ![s] = t], [turn EXCEPT ![s] = IdleTurn]}
           /\ req2sess' \in {req2sess, Unmap(req2sess, {t.req})}
           /\ call2sess' = Unmap(call2sess, calls)
  <2>1. Shrinks /\ Cleared(s)
    BY <1>2, ConstantsAssumption DEF TypeOK, Unmap, Shrinks, Cleared
  <2> QED
    BY <1>2, <2>1, LiveCleared
<1> QED
  BY <1>1, <1>2 DEF PublishLlmRequest, Fault, NoSaveFaults

LEMMA LivePrompt ==
    ASSUME TypeOK, MappingsAreLive, NoSaveFaults, NEW s \in Sessions,
           HandleUserPrompt(s)
    PROVE  MappingsAreLive'
<1>1. PICK r \in Requests :
          turn' = [turn EXCEPT ![s] = FreshTurn("AwaitingIdentity", r, 0)]
  BY DEF HandleUserPrompt, Fault, NoSaveFaults
<1>2. CleanupInflight(s)
  BY DEF HandleUserPrompt
<1> QED
  BY <1>1, <1>2, Cleaned, LiveCleared

LEMMA LiveIdentity ==
    ASSUME TypeOK, MappingsAreLive, NoSaveFaults, HandleIdentityResponse
    PROVE  MappingsAreLive'
<1>1. PICK m \in bus : /\ m.type = "spark"
                       /\ \/ TimeOut(m.s)
                          \/ Redrive(m, "AwaitingIdentity")
                          \/ AcceptIdentity(m)
  BY DEF HandleIdentityResponse
<1>2. m.s \in Sessions
  BY <1>1 DEF TypeOK, Messages
<1>3. CASE TimeOut(m.s)
  BY <1>2, <1>3, LiveTimeOut
<1>4. CASE Redrive(m, "AwaitingIdentity")
  BY <1>4, LiveQuiet DEF Redrive, kvVars
<1>5. CASE AcceptIdentity(m)
  <2> DEFINE s == m.s
             next == [turn[s] EXCEPT !.phase = "AwaitingPromptBuild"]
  <2>1. turn[s].phase = "AwaitingIdentity"
    BY <1>5 DEF AcceptIdentity
  <2> HIDE DEF next
  <2>2. CASE UNCHANGED <<turn, req2sess, call2sess>>
    BY <2>2, LiveQuiet
  <2>3. CASE turn' = [turn EXCEPT ![s] = next] /\ UNCHANGED <<req2sess, call2sess>>
    <3>1. Shrinks /\ Cleared(s)
      BY <2>1, <2>3 DEF Shrinks, Cleared
    <3> QED
      BY <1>2, <2>3, <3>1, LiveCleared
  <2>4. CASE turn' = [turn EXCEPT ![s] = IdleTurn] /\ CleanupInflight(s)
    BY <1>2, <2>4, Cleaned, LiveCleared
  <2> QED
    BY <1>5, <2>2, <2>3, <2>4
       DEF AcceptIdentity, next, FailNoModel, kvVars, Fault, NoSaveFaults
<1> QED
  BY <1>1, <1>3, <1>4, <1>5

LEMMA LiveAssembled ==
    ASSUME TypeOK, RunningHasRequest, MappingsAreLive, NoSaveFaults,
           HandlePromptResponse
    PROVE  MappingsAreLive'
<1>1. PICK m \in bus : /\ m.type = "assembled"
                       /\ \/ TimeOut(m.s)
                          \/ Redrive(m, "AwaitingPromptBuild")
                          \/ AcceptAssembled(m)
  BY DEF HandlePromptResponse
<1>2. m.s \in Sessions
  BY <1>1 DEF TypeOK, Messages
<1>3. CASE TimeOut(m.s)
  BY <1>2, <1>3, LiveTimeOut
<1>4. CASE Redrive(m, "AwaitingPromptBuild")
  BY <1>4, LiveQuiet DEF Redrive, kvVars
<1>5. CASE AcceptAssembled(m)
  <2> DEFINE s == m.s
             next == [turn[s] EXCEPT !.phase = "Streaming"]
  <2>1. turn[s] \in TurnState /\ turn[s].phase = "AwaitingPromptBuild"
    BY <1>2, <1>5 DEF TypeOK, AcceptAssembled
  <2>2. next.phase = "Streaming" /\ next.req = turn[s].req
    BY <2>1 DEF TurnState
  <2>3. next.req \in Requests
    BY <1>2, <2>1, <2>2 DEF RunningHasRequest
  <2> HIDE DEF next
  <2>4. PublishLlmRequest(s, next, m.ctx, {}, bus \ {m})
    BY <1>5 DEF AcceptAssembled, next, Fault, NoSaveFaults
  <2> QED
    BY <1>2, <2>1, <2>2, <2>3, <2>4, LivePublish
<1> QED
  BY <1>1, <1>3, <1>4, <1>5

\* The round of tool calls that s's stream announced goes out.
LEMMA LiveDispatch ==
    ASSUME TypeOK, MappingsAreLive, NoSaveFaults, NEW s \in Sessions, NEW m,
           m.req \in Requests, StreamDoneTools(s, m)
    PROVE  MappingsAreLive'
<1> DEFINE p == turn[s].pend
           disp == [i \in 1..Len(p) |->
                      [id |-> p[i], owner |-> turn[s].req, res |-> NoReq]]
           t == [turn[s] EXCEPT !.phase = "AwaitingTools", !.disp = disp,
                                !.pend = <<>>]
<1>1. p \in Seq(Calls) /\ Len(p) \in Nat /\ DOMAIN p = 1..Len(p)
  BY DEF TypeOK, TurnState
<1>2. turn[s].phase = "Streaming" /\ turn[s].req = m.req
  BY DEF StreamDoneTools, Accepts
<1>3. \A r \in Requests :
          req2sess'[r] = IF r = m.req THEN NoSession ELSE req2sess[r]
  BY DEF TypeOK, StreamDoneTools, Unmap
<1>4. CASE /\ turn' = [turn EXCEPT ![s] = t]
           /\ call2sess' = [c \in Calls |->
                IF c \in {p[i] : i \in 1..Len(p)} THEN s ELSE call2sess[c]]
  <2>1. t.phase = "AwaitingTools" /\ t.disp = disp
    BY DEF TypeOK, TurnState
  <2> HIDE DEF t
  <2>2. DispIds(t) = {p[i] : i \in 1..Len(p)}
    <3>1. DOMAIN disp = 1..Len(p) /\ \A i \in 1..Len(p) : disp[i].id = p[i]
      BY <1>1
    <3> HIDE DEF disp
    <3> QED
      BY <2>1, <3>1 DEF DispIds
  <2> HIDE DEF disp
  <2>3. turn'[s] = t /\ \A x \in Sessions \ {s} : turn'[x] = turn[x]
    BY <1>4 DEF TypeOK, t
  <2>4. \A c \in Calls :
            call2sess'[c] = IF c \in DispIds(t) THEN s ELSE call2sess[c]
    BY <1>4, <2>2
  <2>5. \A r \in Requests, x \in Sessions :
            req2sess'[r] = x => turn'[x].req = r /\ turn'[x].phase = "Streaming"
    BY <1>2, <1>3, <2>3, ConstantsAssumption DEF MappingsAreLive
  <2>6. \A c \in Calls, x \in Sessions :
            call2sess'[c] = x =>
                turn'[x].phase = "AwaitingTools" /\ c \in DispIds(turn'[x])
    BY <1>2, <2>1, <2>3, <2>4 DEF MappingsAreLive
  <2> QED
    BY <2>5, <2>6 DEF MappingsAreLive
<1>5. CASE turn' = [turn EXCEPT ![s] = IdleTurn] /\ call2sess' = Unmap(call2sess, PendIds(turn[s]))
  <2>1. Shrinks /\ Cleared(s)
    BY <1>2, <1>3, <1>5, ConstantsAssumption DEF TypeOK, Unmap, Shrinks, Cleared
  <2> QED
    BY <1>5, <2>1, LiveCleared
<1> QED
  BY <1>4, <1>5 DEF StreamDoneTools, Fault, NoSaveFaults

LEMMA LiveStream ==
    ASSUME TypeOK, MappingsAreLive, NoSaveFaults, HandleLlmStream
    PROVE  MappingsAreLive'
<1>1. PICK m \in bus :
          /\ m.type = "llm"
          /\ \/ StreamIgnored(m)
             \/ \E s \in Sessions :
                  \/ StreamText(s, m)
                  \/ \E c \in Calls : StreamToolCallStart(s, m, c)
                  \/ StreamError(s, m)
                  \/ StreamDoneTools(s, m)
                  \/ StreamDoneText(s, m)
                  \/ StreamDoneEmpty(s, m)
                  \/ StreamTimeOut(s, m)
  BY DEF HandleLlmStream
<1>2. m.req \in Requests
  BY <1>1 DEF TypeOK, Messages
<1>3. CASE StreamIgnored(m)
  BY <1>3, LiveQuiet DEF StreamIgnored, kvVars
<1>4. ASSUME NEW s \in Sessions, StreamText(s, m) PROVE MappingsAreLive'
  <2> DEFINE t == [turn[s] EXCEPT !.text = TRUE]
  <2>1. t.phase = turn[s].phase /\ t.req = turn[s].req /\ t.disp = turn[s].disp
    BY DEF TypeOK, TurnState
  <2>2. turn' = [turn EXCEPT ![s] = t] /\ UNCHANGED <<req2sess, call2sess>>
    BY <1>4 DEF StreamText, Save, Fault, NoSaveFaults
  <2> HIDE DEF t
  <2>3. Shrinks /\ DispIds(t) = DispIds(turn[s])
    BY <2>1, <2>2 DEF Shrinks, DispIds
  <2> QED
    BY <2>1, <2>2, <2>3, LiveCleared
<1>5. ASSUME NEW s \in Sessions, NEW c \in Calls, StreamToolCallStart(s, m, c)
      PROVE  MappingsAreLive'
  <2> DEFINE t == [turn[s] EXCEPT !.pend = Append(@, c)]
  <2>1. t.phase = turn[s].phase /\ t.req = turn[s].req /\ t.disp = turn[s].disp
    BY DEF TypeOK, TurnState
  <2>2. turn' = [turn EXCEPT ![s] = t] /\ UNCHANGED <<req2sess, call2sess>>
    BY <1>5 DEF StreamToolCallStart, Save, Fault, NoSaveFaults
  <2> HIDE DEF t
  <2>3. Shrinks /\ DispIds(t) = DispIds(turn[s])
    BY <2>1, <2>2 DEF Shrinks, DispIds
  <2> QED
    BY <2>1, <2>2, <2>3, LiveCleared
<1>6. ASSUME NEW s \in Sessions, StreamError(s, m) PROVE MappingsAreLive'
  BY <1>6, LiveTearDown DEF StreamError
<1>7. ASSUME NEW s \in Sessions, StreamDoneTools(s, m) PROVE MappingsAreLive'
  BY <1>2, <1>7, LiveDispatch
<1>8. ASSUME NEW s \in Sessions, StreamDoneText(s, m) \/ StreamDoneEmpty(s, m)
      PROVE  MappingsAreLive'
  <2>1. /\ turn[s].phase = "Streaming" /\ turn[s].req = m.req
        /\ req2sess' = Unmap(req2sess, {m.req}) /\ call2sess' = call2sess
    BY <1>8 DEF StreamDoneText, StreamDoneEmpty, Accepts
  <2>2. Shrinks /\ Cleared(s)
    BY <1>2, <2>1, ConstantsAssumption DEF TypeOK, Unmap, Shrinks, Cleared
  <2>3. turn' = turn \/ turn' = [turn EXCEPT ![s] = IdleTurn]
    BY <1>8 DEF StreamDoneText, StreamDoneEmpty, EndTurn, Save
  <2>4. CASE turn' = turn
    <3>1. \A x \in Sessions : Waits(x)
      BY <2>4 DEF Waits
    <3> QED
      BY <2>2, <3>1, LiveKept
  <2> QED
    BY <2>2, <2>3, <2>4, LiveCleared
<1>9. ASSUME NEW s \in Sessions, StreamTimeOut(s, m) PROVE MappingsAreLive'
  BY <1>9, LiveTimeOut DEF StreamTimeOut
<1> QED
  BY <1>1, <1>3, <1>4, <1>5, <1>6, <1>7, <1>8, <1>9

\* Recording a result changes no id, and brings no result back.
LEMMA RecordedIds ==
    ASSUME TypeOK, NEW s \in Sessions, NEW m
    PROVE  /\ Recorded(turn[s], m).phase = turn[s].phase
           /\ Recorded(turn[s], m).req = turn[s].req
           /\ DOMAIN Recorded(turn[s], m).disp = DOMAIN turn[s].disp
           /\ \A i \in DOMAIN turn[s].disp :
                 /\ Recorded(turn[s], m).disp[i].id = turn[s].disp[i].id
                 /\ \/ Recorded(turn[s], m).disp[i].res = turn[s].disp[i].res
                    \/ Recorded(turn[s], m).disp[i].res = m.req
           /\ DispIds(Recorded(turn[s], m)) = DispIds(turn[s])
<1> DEFINE t == Recorded(turn[s], m)
<1>1. turn[s] \in TurnState /\ turn[s].disp \in Seq(Dispatched)
  BY DEF TypeOK, TurnState
<1>2. /\ t.phase = turn[s].phase /\ t.req = turn[s].req
      /\ DOMAIN t.disp = DOMAIN turn[s].disp
  BY <1>1 DEF Recorded, TurnState
<1>3. \A i \in DOMAIN turn[s].disp :
          /\ t.disp[i].id = turn[s].disp[i].id
          /\ t.disp[i].res = turn[s].disp[i].res \/ t.disp[i].res = m.req
  <2> TAKE i \in DOMAIN turn[s].disp
  <2>1. turn[s].disp[i] \in Dispatched
    BY <1>1
  <2>2. t.disp[i] = IF i \in FirstWithId(turn[s].disp, m.id)
                    THEN [turn[s].disp[i] EXCEPT !.res = m.req] ELSE turn[s].disp[i]
    BY <1>1 DEF Recorded, TurnState
  <2> HIDE DEF t
  <2> QED
    BY <2>1, <2>2 DEF Dispatched
<1> HIDE DEF t
<1>4. DispIds(t) = DispIds(turn[s])
  BY <1>2, <1>3 DEF DispIds
<1> QED
  BY <1>2, <1>3, <1>4 DEF t

LEMMA LiveTool ==
    ASSUME TypeOK, MappingsAreLive, NoSaveFaults, HandleToolResult
    PROVE  MappingsAreLive'
<1>1. PICK m \in bus :
          \/ ToolResultIgnored(m)
          \/ \E s \in Sessions :
               \/ ToolResultRecorded(s, m)
               \/ ToolResultStops(s, m)
               \/ ToolResultContinues(s, m)
               \/ ToolResultTimeOut(s, m)
  BY DEF HandleToolResult
<1>2. CASE ToolResultIgnored(m)
  BY <1>2, LiveQuiet DEF ToolResultIgnored, kvVars
<1>3. ASSUME NEW s \in Sessions, ToolResultRecorded(s, m) PROVE MappingsAreLive'
  <2>1. /\ turn' = [turn EXCEPT ![s] = Recorded(turn[s], m)]
        /\ UNCHANGED <<req2sess, call2sess>>
    BY <1>3 DEF ToolResultRecorded, Save, Fault, NoSaveFaults
  <2>2. Shrinks
    BY <2>1 DEF Shrinks
  <2> QED
    BY <2>1, <2>2, RecordedIds, LiveCleared
<1>4. ASSUME NEW s \in Sessions, ToolResultStops(s, m) PROVE MappingsAreLive'
  <2>1. /\ turn[s].phase = "AwaitingTools" /\ req2sess' = req2sess
        /\ turn' = [turn EXCEPT ![s] = IdleTurn]
        /\ call2sess' = Unmap(call2sess, DispIds(turn[s]))
    BY <1>4 DEF ToolResultStops, AcceptsResult, Fault, NoSaveFaults
  <2>2. Shrinks /\ Cleared(s)
    BY <2>1, ConstantsAssumption DEF TypeOK, Unmap, Shrinks, Cleared
  <2> QED
    BY <2>1, <2>2, LiveCleared
<1>5. ASSUME NEW s \in Sessions, ToolResultContinues(s, m) PROVE MappingsAreLive'
  <2>1. turn[s].phase = "AwaitingTools"
    BY <1>5 DEF ToolResultContinues, AcceptsResult
  <2>2. CASE UNCHANGED <<turn, req2sess, call2sess>>
    BY <2>2, LiveQuiet
  <2>3. ASSUME NEW r \in Requests,
               PublishLlmRequest(s, FreshTurn("Streaming", r, turn[s].iter + 1),
                                 hist[s], DispIds(turn[s]), bus \ {m})
        PROVE  MappingsAreLive'
    <3> DEFINE t == FreshTurn("Streaming", r, turn[s].iter + 1)
    <3>1. t.phase = "Streaming" /\ t.req \in Requests
      BY FreshTurnFields
    <3> HIDE DEF t
    <3>2. PublishLlmRequest(s, t, hist[s], DispIds(turn[s]), bus \ {m})
      BY <2>3 DEF t
    <3> QED
      BY <2>1, <3>1, <3>2, LivePublish
  <2> QED
    BY <1>5, <2>2, <2>3 DEF ToolResultContinues, kvVars
<1>6. ASSUME NEW s \in Sessions, ToolResultTimeOut(s, m) PROVE MappingsAreLive'
  BY <1>6, LiveTimeOut DEF ToolResultTimeOut
<1> QED
  BY <1>1, <1>2, <1>3, <1>4, <1>5, <1>6

LEMMA LiveEndAll ==
    ASSUME TypeOK, MappingsAreLive, NoSaveFaults, NEW hit, NEW failed, NEW mapped,
           mapped \in {{}, failed}, EndAll(hit, failed, mapped)
    PROVE  MappingsAreLive'
<1>1. failed = {} /\ hit \ mapped = hit
  BY DEF EndAll, Fault, NoSaveFaults
<1>2. \A s \in Sessions : turn'[s] = IF s \in hit THEN IdleTurn ELSE turn[s]
  BY <1>1 DEF EndAll
<1>3. /\ req2sess' = Unmap(req2sess, {turn[s].req : s \in hit})
      /\ call2sess' = Unmap(call2sess, UNION {DispIds(turn[s]) : s \in hit})
  BY <1>1 DEF EndAll
<1>4. Shrinks
  BY <1>3 DEF TypeOK, Unmap, Shrinks
<1>5. ASSUME NEW s \in Sessions, s \in hit PROVE Cleared(s)
  BY <1>3, <1>5, ConstantsAssumption DEF TypeOK, Unmap, Cleared
<1>6. \A s \in Sessions : Waits(s) \/ Cleared(s)
  BY <1>2, <1>5 DEF Waits
<1> QED
  BY <1>4, <1>6, LiveKept

LEMMA NextLive ==
    ASSUME TypeOK, RunningHasRequest, MappingsAreLive, NoSaveFaults,
           ClearsBetweenTurns, [Next]_vars
    PROVE  MappingsAreLive'
<1>1. CASE \E s \in Sessions : HandleUserPrompt(s)
  BY <1>1, LivePrompt
<1>2. CASE \E s \in Sessions : UserPromptAppendFails(s)
  BY <1>2, LiveQuiet DEF UserPromptAppendFails, kvVars
<1>3. CASE \E s \in Sessions : HandleCancel(s)
  BY <1>3, LiveTearDown DEF HandleCancel
<1>4. CASE PromptBuilderAssemble
  BY <1>4, LiveQuiet DEF PromptBuilderAssemble, kvVars
<1>5. CASE HandleWatchdogTick
  BY <1>5, LiveEndAll DEF HandleWatchdogTick
<1>6. CASE HandleBusLag
  BY <1>6, LiveEndAll DEF HandleBusLag
<1>7. CASE HandleLifecycleRestart
  BY <1>7, ConstantsAssumption DEF HandleLifecycleRestart, MappingsAreLive
<1>8. CASE UNCHANGED vars
  BY <1>8, LiveQuiet DEF vars, kvVars
<1>9. ASSUME NEW s \in Sessions, HandleSessionClear(s) PROVE MappingsAreLive'
  <2>1. turn[s].phase = "Idle" /\ turn' = [turn EXCEPT ![s] = IdleTurn]
    BY <1>9 DEF HandleSessionClear, ClearsBetweenTurns
  <2>2. Shrinks /\ Cleared(s)
    BY <1>9, <2>1 DEF HandleSessionClear, Shrinks, Cleared
  <2> QED
    BY <2>1, <2>2, LiveCleared
<1> QED
  BY <1>1, <1>2, <1>3, <1>4, <1>5, <1>6, <1>7, <1>8, <1>9,
     LiveIdentity, LiveAssembled, LiveStream, LiveTool DEF Next

\* cleanup_inflight_mappings: as long as no KV write fails and no session is
\* cleared in mid turn, no correlation key outlives the turn it was written for.
THEOREM KeysEndWithTheirTurn ==
    ASSUME NoSaveFaults, ClearsBetweenTurns
    PROVE  Spec => []MappingsAreLive
<1> DEFINE I == TypeOK /\ RunningHasRequest /\ MappingsAreLive
<1>1. Init => I
  BY InitOK, ConstantsAssumption DEF Init, MappingsAreLive
<1>2. I /\ [Next]_vars => I'
  BY NextType, NextRunning, NextLive
<1>3. I => MappingsAreLive
  OBVIOUS
<1> HIDE DEF I
<1> QED
  BY <1>1, <1>2, <1>3, PTL DEF Spec

-----------------------------------------------------------------------------
(* Late events *)

\* An event whose request no turn has finds no key that leads anywhere.
LEMMA LateIsIgnored ==
    ASSUME TypeOK, MappingsAreLive, CallsInFlight, [Next]_vars,
           NEW m \in bus \ bus', m.type \in {"llm", "tool"},
           \A s \in Sessions : turn[s].req # m.req
    PROVE  UNCHANGED <<kvVars, finals>>
<1>1. m \in Messages
  BY DEF TypeOK
<1>2. m.type = "llm" => \A s \in Sessions : req2sess[m.req] # s
  BY <1>1 DEF Messages, MappingsAreLive
<1>3. m.type = "tool" => \A s \in Sessions : call2sess[m.id] # s
  BY <1>1 DEF Messages, MappingsAreLive, CallsInFlight
<1>4. CASE HandleLlmStream
  <2>1. PICK n \in bus :
            /\ n.type = "llm"
            /\ \/ StreamIgnored(n)
               \/ \E s \in Sessions :
                    \/ StreamText(s, n)
                    \/ \E c \in Calls : StreamToolCallStart(s, n, c)
                    \/ StreamError(s, n)
                    \/ StreamDoneTools(s, n)
                    \/ StreamDoneText(s, n)
                    \/ StreamDoneEmpty(s, n)
                    \/ StreamTimeOut(s, n)
    BY <1>4 DEF HandleLlmStream
  <2>2. CASE StreamIgnored(n)
    BY <2>2 DEF StreamIgnored, obsVars
  <2>3. \A s \in Sessions, c \in Calls :
            StreamToolCallStart(s, n, c) => req2sess[n.req] = s /\ bus' = bus
    BY DEF StreamToolCallStart, Accepts
  <2>4. ASSUME NEW s \in Sessions,
               \/ StreamText(s, n)
               \/ StreamError(s, n) \/ StreamDoneTools(s, n)
               \/ StreamDoneText(s, n) \/ StreamDoneEmpty(s, n)
               \/ StreamTimeOut(s, n)
        PROVE  req2sess[n.req] = s /\ bus \ {n} \subseteq bus'
    <3>1. CASE StreamText(s, n) \/ StreamError(s, n)
      BY <3>1 DEF StreamText, StreamError, Accepts
    <3>2. CASE StreamDoneTools(s, n)
      BY <3>2 DEF StreamDoneTools, Accepts
    <3>3. CASE StreamDoneText(s, n) \/ StreamDoneEmpty(s, n) \/ StreamTimeOut(s, n)
      BY <3>3 DEF StreamDoneText, StreamDoneEmpty, StreamTimeOut, Accepts
    <3> QED
      BY <2>4, <3>1, <3>2, <3>3
  <2> QED
    BY <1>2, <2>1, <2>2, <2>3, <2>4
<1>5. CASE HandleToolResult
  <2>1. PICK n \in bus :
            /\ n.type = "tool"
            /\ \/ ToolResultIgnored(n)
               \/ \E s \in Sessions :
                    \/ ToolResultRecorded(s, n)
                    \/ ToolResultStops(s, n)
                    \/ ToolResultContinues(s, n)
                    \/ ToolResultTimeOut(s, n)
    BY <1>5 DEF HandleToolResult
  <2>2. CASE ToolResultIgnored(n)
    BY <2>2 DEF ToolResultIgnored, obsVars
  <2>3. ASSUME NEW s \in Sessions,
               \/ ToolResultRecorded(s, n) \/ ToolResultStops(s, n)
               \/ ToolResultContinues(s, n) \/ ToolResultTimeOut(s, n)
        PROVE  call2sess[n.id] = s /\ bus \ {n} \subseteq bus'
    <3>1. CASE ToolResultRecorded(s, n) \/ ToolResultStops(s, n)
      BY <3>1 DEF ToolResultRecorded, ToolResultStops, AcceptsResult
    <3>2. CASE ToolResultContinues(s, n)
      BY <3>2 DEF ToolResultContinues, PublishLlmRequest, AcceptsResult
    <3>3. CASE ToolResultTimeOut(s, n)
      BY <3>3 DEF ToolResultTimeOut
    <3> QED
      BY <2>3, <3>1, <3>2, <3>3
  <2> QED
    BY <1>3, <2>1, <2>2, <2>3
<1>6. CASE HandleIdentityResponse
  <2>1. m \in bus'
    BY <1>6 DEF HandleIdentityResponse, Redrive, AcceptIdentity
  <2> QED
    BY <2>1
<1>7. CASE HandlePromptResponse
  <2>1. m \in bus'
    BY <1>7 DEF HandlePromptResponse, Redrive, AcceptAssembled, PublishLlmRequest
  <2> QED
    BY <2>1
<1>8. CASE PromptBuilderAssemble
  <2>1. m \in bus'
    BY <1>8 DEF PromptBuilderAssemble
  <2> QED
    BY <2>1
<1> QED
  <2>1. bus \subseteq bus' \/ HandleLlmStream \/ HandleToolResult
        \/ HandleIdentityResponse \/ HandlePromptResponse \/ PromptBuilderAssemble
    BY DEF Next, vars, HandleUserPrompt, UserPromptAppendFails, HandleCancel,
           HandleWatchdogTick, HandleBusLag, EndAll, HandleSessionClear,
           HandleLifecycleRestart
  <2> QED
    BY <1>4, <1>5, <1>6, <1>7, <1>8, <2>1

\* "Drop stale events": under the same assumptions, and call ids that are not
\* reused, an event that outlived its request changes nothing.
THEOREM LateEventsChangeNothing ==
    ASSUME NoSaveFaults, ClearsBetweenTurns, FreshCallIds
    PROVE  Spec => LateEventsAreInert
<1>1. TypeOK /\ CallsInFlight /\ [Next]_vars => CallsInFlight'
  BY NextCalls
<1>2. TypeOK /\ MappingsAreLive /\ CallsInFlight /\ [Next]_vars
          => [\A m \in bus \ bus' : LateEventIsInert(m)]_vars
  BY LateIsIgnored DEF LateEventIsInert
<1> QED
  BY <1>1, <1>2, InitCalls, TypeCorrect, KeysEndWithTheirTurn, PTL
     DEF Spec, LateEventsAreInert

-----------------------------------------------------------------------------
(* Calls that are out *)

\* x's turn awaits no tools, or those it awaited, and their keys are intact.
RoutesAs(x) ==
    turn'[x].phase = "AwaitingTools" =>
        /\ turn[x].phase = "AwaitingTools"
        /\ DOMAIN turn'[x].disp = DOMAIN turn[x].disp
        /\ \A i \in DOMAIN turn[x].disp :
              /\ turn'[x].disp[i].id = turn[x].disp[i].id
              /\ turn'[x].disp[i].res = NoReq => turn[x].disp[i].res = NoReq
              /\ call2sess'[turn[x].disp[i].id] = call2sess[turn[x].disp[i].id]

LEMMA RoutesKept ==
    ASSUME DispatchedCallsRoutable, \A x \in Sessions : RoutesAs(x)
    PROVE  DispatchedCallsRoutable'
BY DEF DispatchedCallsRoutable, RoutesAs

LEMMA RoutesQuiet ==
    ASSUME DispatchedCallsRoutable, UNCHANGED <<turn, call2sess>>
    PROVE  DispatchedCallsRoutable'
BY DEF DispatchedCallsRoutable

\* Only the keys of calls that s's turn holds are touched.
OnlyCallsOf(s) ==
    \A c \in Calls : c \notin Held(turn[s]) => call2sess'[c] = call2sess[c]

\* Then the other turns, which hold none of them, keep their routes.
LEMMA OthersRoute ==
    ASSUME TypeOK, CallsInFlight, NEW s \in Sessions, OnlyCallsOf(s),
           NEW x \in Sessions \ {s}, turn'[x] = turn[x]
    PROVE  RoutesAs(x)
<1>1. turn[x].disp \in Seq(Dispatched)
  BY DEF TypeOK, TurnState
<1>2. ASSUME NEW i \in DOMAIN turn[x].disp
      PROVE  call2sess'[turn[x].disp[i].id] = call2sess[turn[x].disp[i].id]
  <2>1. turn[x].disp[i] \in Dispatched
    BY <1>1
  <2>2. turn[x].disp[i].id \in Calls
    BY <2>1 DEF Dispatched
  <2>3. turn[x].disp[i].id \in Held(turn[x])
    BY DEF Held, DispIds
  <2> QED
    BY <2>2, <2>3 DEF OnlyCallsOf, CallsInFlight
<1> QED
  BY <1>2 DEF RoutesAs

\* s's turn is replaced by one that awaits no tools.
LEMMA RoutesOne ==
    ASSUME TypeOK, CallsInFlight, DispatchedCallsRoutable, NEW s \in Sessions,
           OnlyCallsOf(s), NEW t, t.phase # "AwaitingTools",
           turn' = [turn EXCEPT ![s] = t]
    PROVE  DispatchedCallsRoutable'
<1>1. turn'[s] = t /\ \A x \in Sessions \ {s} : turn'[x] = turn[x]
  BY DEF TypeOK
<1>2. RoutesAs(s)
  BY <1>1 DEF RoutesAs
<1> QED
  BY <1>1, <1>2, OthersRoute, RoutesKept

LEMMA OnlyCleaned ==
    ASSUME TypeOK, NEW s \in Sessions, CleanupInflight(s)
    PROVE  OnlyCallsOf(s)
BY DEF TypeOK, CleanupInflight, Unmap, OnlyCallsOf, Held

LEMMA RoutesTimeOut ==
    ASSUME TypeOK, CallsInFlight, DispatchedCallsRoutable, NoSaveFaults,
           NEW s \in Sessions, TimeOut(s)
    PROVE  DispatchedCallsRoutable'
BY OnlyCleaned, RoutesOne, IdleTurnFields DEF TimeOut, Fault, NoSaveFaults

LEMMA RoutesTearDown ==
    ASSUME TypeOK, CallsInFlight, DispatchedCallsRoutable, NoSaveFaults,
           NEW s \in Sessions, TearDown(s)
    PROVE  DispatchedCallsRoutable'
BY OnlyCleaned, RoutesOne, IdleTurnFields
   DEF TearDown, EndTurn, Save, Fault, NoSaveFaults

LEMMA RoutesPublish ==
    ASSUME TypeOK, CallsInFlight, DispatchedCallsRoutable, NEW s \in Sessions,
           NEW t, NEW c, NEW calls, NEW rest, PublishLlmRequest(s, t, c, calls, rest),
           t.phase = "Streaming", calls \subseteq Held(turn[s])
    PROVE  DispatchedCallsRoutable'
<1>1. OnlyCallsOf(s)
  BY DEF TypeOK, PublishLlmRequest, Unmap, OnlyCallsOf
<1>2. turn' = [turn EXCEPT ![s] = t] \/ turn' = [turn EXCEPT ![s] = IdleTurn]
  BY DEF PublishLlmRequest
<1> QED
  BY <1>1, <1>2, RoutesOne, IdleTurnFields

LEMMA RoutesPrompt ==
    ASSUME TypeOK, CallsInFlight, DispatchedCallsRoutable, NoSaveFaults,
           NEW s \in Sessions, HandleUserPrompt(s)
    PROVE  DispatchedCallsRoutable'
<1>1. PICK r \in Requests :
          turn' = [turn EXCEPT ![s] = FreshTurn("AwaitingIdentity", r, 0)]
  BY DEF HandleUserPrompt, Fault, NoSaveFaults
<1> DEFINE t == FreshTurn("AwaitingIdentity", r, 0)
<1>2. t.phase # "AwaitingTools" /\ turn' = [turn EXCEPT ![s] = t]
  BY <1>1, FreshTurnFields
<1>3. OnlyCallsOf(s)
  BY OnlyCleaned DEF HandleUserPrompt
<1> HIDE DEF t
<1> QED
  BY <1>2, <1>3, RoutesOne

LEMMA RoutesIdentity ==
    ASSUME TypeOK, CallsInFlight, DispatchedCallsRoutable, NoSaveFaults,
           HandleIdentityResponse
    PROVE  DispatchedCallsRoutable'
<1>1. PICK m \in bus : /\ m.type = "spark"
                       /\ \/ TimeOut(m.s)
                          \/ Redrive(m, "AwaitingIdentity")
                          \/ AcceptIdentity(m)
  BY DEF HandleIdentityResponse
<1>2. m.s \in Sessions
  BY <1>1 DEF TypeOK, Messages
<1>3. CASE TimeOut(m.s)
  BY <1>2, <1>3, RoutesTimeOut
<1>4. CASE Redrive(m, "AwaitingIdentity")
  BY <1>4, RoutesQuiet DEF Redrive, kvVars
<1>5. CASE AcceptIdentity(m)
  <2> DEFINE s == m.s
             next == [turn[s] EXCEPT !.phase = "AwaitingPromptBuild"]
  <2>1. next.phase # "AwaitingTools"
    BY <1>2 DEF TypeOK, TurnState
  <2> HIDE DEF next
  <2>2. CASE UNCHANGED <<turn, call2sess>>
    BY <2>2, RoutesQuiet
  <2>3. CASE turn' = [turn EXCEPT ![s] = next] /\ UNCHANGED call2sess
    <3>1. OnlyCallsOf(s)
      BY <2>3 DEF OnlyCallsOf
    <3> QED
      BY <1>2, <2>1, <2>3, <3>1, RoutesOne
  <2>4. CASE turn' = [turn EXCEPT ![s] = IdleTurn] /\ CleanupInflight(s)
    BY <1>2, <2>4, OnlyCleaned, RoutesOne, IdleTurnFields
  <2> QED
    BY <1>5, <2>2, <2>3, <2>4
       DEF AcceptIdentity, next, FailNoModel, kvVars, Fault, NoSaveFaults
<1> QED
  BY <1>1, <1>3, <1>4, <1>5

LEMMA RoutesAssembled ==
    ASSUME TypeOK, CallsInFlight, DispatchedCallsRoutable, NoSaveFaults,
           HandlePromptResponse
    PROVE  DispatchedCallsRoutable'
<1>1. PICK m \in bus : /\ m.type = "assembled"
                       /\ \/ TimeOut(m.s)
                          \/ Redrive(m, "AwaitingPromptBuild")
                          \/ AcceptAssembled(m)
  BY DEF HandlePromptResponse
<1>2. m.s \in Sessions
  BY <1>1 DEF TypeOK, Messages
<1>3. CASE TimeOut(m.s)
  BY <1>2, <1>3, RoutesTimeOut
<1>4. CASE Redrive(m, "AwaitingPromptBuild")
  BY <1>4, RoutesQuiet DEF Redrive, kvVars
<1>5. CASE AcceptAssembled(m)
  <2> DEFINE s == m.s
             next == [turn[s] EXCEPT !.phase = "Streaming"]
  <2>1. next.phase = "Streaming"
    BY <1>2 DEF TypeOK, TurnState
  <2> HIDE DEF next
  <2>2. PublishLlmRequest(s, next, m.ctx, {}, bus \ {m})
    BY <1>5 DEF AcceptAssembled, next, Fault, NoSaveFaults
  <2> QED
    BY <1>2, <2>1, <2>2, RoutesPublish
<1> QED
  BY <1>1, <1>3, <1>4, <1>5

\* store_call_sessions maps every call of the round before the phase is saved.
LEMMA RoutesDispatch ==
    ASSUME TypeOK, CallsInFlight, DispatchedCallsRoutable, NoSaveFaults,
           NEW s \in Sessions, NEW m, StreamDoneTools(s, m)
    PROVE  DispatchedCallsRoutable'
<1> DEFINE p == turn[s].pend
           disp == [i \in 1..Len(p) |->
                      [id |-> p[i], owner |-> turn[s].req, res |-> NoReq]]
           t == [turn[s] EXCEPT !.phase = "AwaitingTools", !.disp = disp,
                                !.pend = <<>>]
<1>1. p \in Seq(Calls) /\ Len(p) \in Nat /\ DOMAIN p = 1..Len(p)
  BY DEF TypeOK, TurnState
<1>2. PendIds(turn[s]) = {p[i] : i \in 1..Len(p)}
  BY <1>1 DEF PendIds
<1>3. CASE /\ turn' = [turn EXCEPT ![s] = t]
           /\ call2sess' = [c \in Calls |->
                IF c \in {p[i] : i \in 1..Len(p)} THEN s ELSE call2sess[c]]
  <2>1. t.disp = disp
    BY DEF TypeOK, TurnState
  <2>2. DOMAIN disp = 1..Len(p) /\ \A i \in 1..Len(p) : disp[i].id = p[i]
    BY <1>1
  <2> HIDE DEF t, disp
  <2>3. turn'[s] = t /\ \A x \in Sessions \ {s} : turn'[x] = turn[x]
    BY <1>3 DEF TypeOK
  <2>4. OnlyCallsOf(s)
    BY <1>2, <1>3 DEF OnlyCallsOf, Held
  <2>5. \A x \in Sessions \ {s} : RoutesAs(x)
    BY <2>3, <2>4, OthersRoute
  <2>6. \A i \in 1..Len(p) : p[i] \in Calls /\ call2sess'[p[i]] = s
    BY <1>1, <1>3
  <2>7. \A i \in DOMAIN turn'[s].disp : call2sess'[turn'[s].disp[i].id] = s
    BY <2>1, <2>2, <2>3, <2>6
  <2> QED
    BY <2>5, <2>7 DEF DispatchedCallsRoutable, RoutesAs
<1>4. CASE /\ turn' = [turn EXCEPT ![s] = IdleTurn]
           /\ call2sess' = Unmap(call2sess, PendIds(turn[s]))
  <2>1. OnlyCallsOf(s)
    BY <1>4 DEF TypeOK, Unmap, OnlyCallsOf, Held
  <2> QED
    BY <1>4, <2>1, RoutesOne, IdleTurnFields
<1> QED
  BY <1>3, <1>4 DEF StreamDoneTools, Fault, NoSaveFaults

LEMMA RoutesStream ==
    ASSUME TypeOK, CallsInFlight, DispatchedCallsRoutable, NoSaveFaults,
           HandleLlmStream
    PROVE  DispatchedCallsRoutable'
<1>1. PICK m \in bus :
          \/ StreamIgnored(m)
          \/ \E s \in Sessions :
               \/ StreamText(s, m)
               \/ \E c \in Calls : StreamToolCallStart(s, m, c)
               \/ StreamError(s, m)
               \/ StreamDoneTools(s, m)
               \/ StreamDoneText(s, m)
               \/ StreamDoneEmpty(s, m)
               \/ StreamTimeOut(s, m)
  BY DEF HandleLlmStream
<1>2. CASE StreamIgnored(m)
  BY <1>2, RoutesQuiet DEF StreamIgnored, kvVars
<1>3. ASSUME NEW s \in Sessions, NEW t, t.phase = turn[s].phase, Accepts(s, m),
             turn' = [turn EXCEPT ![s] = t], UNCHANGED call2sess
      PROVE  DispatchedCallsRoutable'
  BY <1>3, RoutesOne DEF Accepts, OnlyCallsOf
<1>4. ASSUME NEW s \in Sessions, StreamText(s, m) PROVE DispatchedCallsRoutable'
  <2> DEFINE t == [turn[s] EXCEPT !.text = TRUE]
  <2>1. t.phase = turn[s].phase
    BY DEF TypeOK, TurnState
  <2>2. Accepts(s, m) /\ turn' = [turn EXCEPT ![s] = t] /\ UNCHANGED call2sess
    BY <1>4 DEF StreamText, Save, Fault, NoSaveFaults
  <2> HIDE DEF t
  <2> QED
    BY <1>3, <2>1, <2>2
<1>5. ASSUME NEW s \in Sessions, NEW c \in Calls, StreamToolCallStart(s, m, c)
      PROVE  DispatchedCallsRoutable'
  <2> DEFINE t == [turn[s] EXCEPT !.pend = Append(@, c)]
  <2>1. t.phase = turn[s].phase
    BY DEF TypeOK, TurnState
  <2>2. Accepts(s, m) /\ turn' = [turn EXCEPT ![s] = t] /\ UNCHANGED call2sess
    BY <1>5 DEF StreamToolCallStart, Save, Fault, NoSaveFaults
  <2> HIDE DEF t
  <2> QED
    BY <1>3, <2>1, <2>2
<1>6. ASSUME NEW s \in Sessions, StreamError(s, m) PROVE DispatchedCallsRoutable'
  BY <1>6, RoutesTearDown DEF StreamError
<1>7. ASSUME NEW s \in Sessions, StreamDoneTools(s, m)
      PROVE  DispatchedCallsRoutable'
  BY <1>7, RoutesDispatch
<1>8. ASSUME NEW s \in Sessions, StreamDoneText(s, m) \/ StreamDoneEmpty(s, m)
      PROVE  DispatchedCallsRoutable'
  <2>1. call2sess' = call2sess /\ turn' \in {turn, [turn EXCEPT ![s] = IdleTurn]}
    BY <1>8 DEF StreamDoneText, StreamDoneEmpty, EndTurn, Save
  <2>2. OnlyCallsOf(s)
    BY <2>1 DEF OnlyCallsOf
  <2> QED
    BY <2>1, <2>2, RoutesQuiet, RoutesOne, IdleTurnFields
<1>9. ASSUME NEW s \in Sessions, StreamTimeOut(s, m) PROVE DispatchedCallsRoutable'
  BY <1>9, RoutesTimeOut DEF StreamTimeOut
<1> QED
  BY <1>1, <1>2, <1>4, <1>5, <1>6, <1>7, <1>8, <1>9

LEMMA RoutesTool ==
    ASSUME TypeOK, CallsInFlight, DispatchedCallsRoutable, NoSaveFaults,
           HandleToolResult
    PROVE  DispatchedCallsRoutable'
<1>1. PICK m \in bus :
          /\ m.type = "tool"
          /\ \/ ToolResultIgnored(m)
             \/ \E s \in Sessions :
                  \/ ToolResultRecorded(s, m)
                  \/ ToolResultStops(s, m)
                  \/ ToolResultContinues(s, m)
                  \/ ToolResultTimeOut(s, m)
  BY DEF HandleToolResult
<1>2. m.req # NoReq
  BY <1>1, ConstantsAssumption DEF TypeOK, Messages
<1>3. CASE ToolResultIgnored(m)
  BY <1>3, RoutesQuiet DEF ToolResultIgnored, kvVars
<1>4. ASSUME NEW s \in Sessions, ToolResultRecorded(s, m)
      PROVE  DispatchedCallsRoutable'
  <2>1. /\ turn' = [turn EXCEPT ![s] = Recorded(turn[s], m)]
        /\ call2sess' = call2sess /\ turn[s].phase = "AwaitingTools"
    BY <1>4 DEF ToolResultRecorded, AcceptsResult, Save, Fault, NoSaveFaults
  <2> DEFINE t == Recorded(turn[s], m)
  <2>2. /\ DOMAIN t.disp = DOMAIN turn[s].disp
        /\ \A i \in DOMAIN turn[s].disp :
              /\ t.disp[i].id = turn[s].disp[i].id
              /\ t.disp[i].res = turn[s].disp[i].res \/ t.disp[i].res = m.req
    BY RecordedIds
  <2>3. turn' = [turn EXCEPT ![s] = t]
    BY <2>1
  <2> HIDE DEF t
  <2>4. turn'[s] = t /\ \A x \in Sessions \ {s} : turn'[x] = turn[x]
    BY <2>3 DEF TypeOK
  <2>5. \A x \in Sessions \ {s} : RoutesAs(x)
    BY <2>1, <2>4 DEF RoutesAs
  <2>6. RoutesAs(s)
    BY <1>2, <2>1, <2>2, <2>4 DEF RoutesAs
  <2> QED
    BY <2>5, <2>6, RoutesKept
<1>5. ASSUME NEW s \in Sessions, ToolResultStops(s, m)
      PROVE  DispatchedCallsRoutable'
  <2>1. /\ turn' = [turn EXCEPT ![s] = IdleTurn]
        /\ call2sess' = Unmap(call2sess, DispIds(turn[s]))
    BY <1>5 DEF ToolResultStops, Fault, NoSaveFaults
  <2>2. OnlyCallsOf(s)
    BY <2>1 DEF TypeOK, Unmap, OnlyCallsOf, Held
  <2> QED
    BY <2>1, <2>2, RoutesOne, IdleTurnFields
<1>6. ASSUME NEW s \in Sessions, ToolResultContinues(s, m)
      PROVE  DispatchedCallsRoutable'
  <2>1. CASE UNCHANGED <<turn, call2sess>>
    BY <2>1, RoutesQuiet
  <2>2. ASSUME NEW r \in Requests,
               PublishLlmRequest(s, FreshTurn("Streaming", r, turn[s].iter + 1),
                                 hist[s], DispIds(turn[s]), bus \ {m})
        PROVE  DispatchedCallsRoutable'
    <3> DEFINE t == FreshTurn("Streaming", r, turn[s].iter + 1)
    <3>1. t.phase = "Streaming"
      BY FreshTurnFields
    <3> HIDE DEF t
    <3>2. PublishLlmRequest(s, t, hist[s], DispIds(turn[s]), bus \ {m})
      BY <2>2 DEF t
    <3> QED
      BY <3>1, <3>2, RoutesPublish DEF Held
  <2> QED
    BY <1>6, <2>1, <2>2 DEF ToolResultContinues, kvVars
<1>7. ASSUME NEW s \in Sessions, ToolResultTimeOut(s, m)
      PROVE  DispatchedCallsRoutable'
  BY <1>7, RoutesTimeOut DEF ToolResultTimeOut
<1> QED
  BY <1>1, <1>3, <1>4, <1>5, <1>6, <1>7

\* The turns that a tick or a lag ends take only their own calls with them.
LEMMA RoutesEndAll ==
    ASSUME TypeOK, CallsInFlight, DispatchedCallsRoutable, NoSaveFaults,
           NEW hit \in SUBSET Sessions, NEW failed, NEW mapped,
           EndAll(hit, failed, mapped)
    PROVE  DispatchedCallsRoutable'
<1>1. failed = {}
  BY DEF EndAll, Fault, NoSaveFaults
<1>2. \A s \in Sessions : turn'[s] = IF s \in hit THEN IdleTurn ELSE turn[s]
  BY <1>1 DEF EndAll
<1> DEFINE ended == UNION {DispIds(turn[s]) : s \in hit \ mapped}
<1>3. \A c \in Calls : c \notin ended => call2sess'[c] = call2sess[c]
  BY DEF TypeOK, EndAll, Unmap
<1>4. ASSUME NEW x \in Sessions PROVE RoutesAs(x)
  <2>1. CASE x \in hit
    BY <1>2, <2>1, IdleTurnFields DEF RoutesAs
  <2>2. CASE x \notin hit
    <3>1. turn'[x] = turn[x] /\ turn[x].disp \in Seq(Dispatched)
      BY <1>2, <2>2 DEF TypeOK, TurnState
    <3>2. ASSUME NEW i \in DOMAIN turn[x].disp
          PROVE  call2sess'[turn[x].disp[i].id] = call2sess[turn[x].disp[i].id]
      <4>1. turn[x].disp[i] \in Dispatched
        BY <3>1
      <4>2. turn[x].disp[i].id \in Calls /\ turn[x].disp[i].id \in Held(turn[x])
        BY <4>1 DEF Dispatched, Held, DispIds
      <4>3. \A s \in hit : turn[x].disp[i].id \notin DispIds(turn[s])
        BY <2>2, <4>2 DEF CallsInFlight, Held
      <4> QED
        BY <1>3, <4>2, <4>3
    <3> QED
      BY <3>1, <3>2 DEF RoutesAs
  <2> QED
    BY <2>1, <2>2
<1> QED
  BY <1>4, RoutesKept

LEMMA NextRoutes ==
    ASSUME TypeOK, CallsInFlight, DispatchedCallsRoutable, NoSaveFaults, [Next]_vars
    PROVE  DispatchedCallsRoutable'
<1>1. CASE \E s \in Sessions : HandleUserPrompt(s)
  BY <1>1, RoutesPrompt
<1>2. CASE \E s \in Sessions : UserPromptAppendFails(s)
  BY <1>2, RoutesQuiet DEF UserPromptAppendFails, kvVars
<1>3. CASE \E s \in Sessions : HandleCancel(s)
  BY <1>3, RoutesTearDown DEF HandleCancel
<1>4. CASE PromptBuilderAssemble
  BY <1>4, RoutesQuiet DEF PromptBuilderAssemble, kvVars
<1>5. CASE HandleWatchdogTick
  <2>1. PICK hit, failed \in SUBSET Sessions : EndAll(hit, failed, failed)
    BY <1>5 DEF HandleWatchdogTick, TypeOK
  <2> QED
    BY <2>1, RoutesEndAll
<1>6. CASE HandleBusLag
  <2>1. PICK hit, failed \in SUBSET Sessions : EndAll(hit, failed, {})
    BY <1>6 DEF HandleBusLag, TypeOK
  <2> QED
    BY <2>1, RoutesEndAll
<1>7. ASSUME NEW s \in Sessions, HandleSessionClear(s)
      PROVE  DispatchedCallsRoutable'
  BY <1>7, RoutesOne, IdleTurnFields DEF HandleSessionClear, OnlyCallsOf
<1>8. CASE HandleLifecycleRestart
  BY <1>8, IdleTurnFields DEF HandleLifecycleRestart, DispatchedCallsRoutable
<1>9. CASE UNCHANGED vars
  BY <1>9, RoutesQuiet DEF vars, kvVars
<1> QED
  BY <1>1, <1>2, <1>3, <1>4, <1>5, <1>6, <1>7, <1>8, <1>9,
     RoutesIdentity, RoutesAssembled, RoutesStream, RoutesTool DEF Next

\* "Results that arrive immediately are never orphaned": as long as no KV write
\* fails and call ids are not reused, the result that a turn waits for finds it.
THEOREM ResultsFindTheirTurn ==
    ASSUME NoSaveFaults, FreshCallIds
    PROVE  Spec => []DispatchedCallsRoutable
<1>1. TypeOK /\ CallsInFlight /\ [Next]_vars => CallsInFlight'
  BY NextCalls
<1>2. TypeOK /\ CallsInFlight /\ DispatchedCallsRoutable /\ [Next]_vars
          => DispatchedCallsRoutable'
  BY NextRoutes
<1>3. Init => DispatchedCallsRoutable
  BY IdleTurnFields DEF Init, DispatchedCallsRoutable
<1> QED
  BY <1>1, <1>2, <1>3, InitCalls, TypeCorrect, PTL DEF Spec
==============================================================================
