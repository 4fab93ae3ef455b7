-------------------------- MODULE McpBrokerProofs ---------------------------
(* Theorems about McpBroker for every set of calls, ingresses, tools and     *)
(* capsules, every bound and every failing host call.                        *)
EXTENDS McpBroker, SequenceTheorems, WellFoundedInduction, TLAPS

-----------------------------------------------------------------------------
(* Types *)

LEMMA RequestIdParts ==
    ASSUME NEW rid \in RequestIds
    PROVE  rid[1] \in Calls /\ rid[2] \in 0..MaxAsks /\ rid = <<rid[1], rid[2]>>
BY DEF RequestIds

LEMMA GateIdType == ASSUME NEW c \in Calls PROVE GateId(c) \in RequestIds
BY ConstantsAssumption DEF GateId, RequestIds

\* What a request to the broker carries, by its kind.
LEMMA RequestParts ==
    ASSUME NEW m \in Requests
    PROVE  /\ m.kind = "ingress" => m.src \in Sources /\ m.yes \in BOOLEAN
           /\ m.kind = "grant" => /\ m.src \in Sources /\ m.yes \in BOOLEAN
                                  /\ m.rid \in RequestIds /\ m.capsule \in Capsules
           /\ m.kind = "approval" => /\ m.src \in Sources /\ m.yes \in BOOLEAN
                                     /\ m.rid \in RequestIds /\ m.call \in Calls
BY DEF Requests

LEMMA PromptParts ==
    ASSUME NEW p \in Prompts
    PROVE  /\ p.kind \in {"ingress", "grant", "approval"}
           /\ p.kind = "ingress" => p.src \in Sources
           /\ p.kind = "grant" => p.rid \in RequestIds /\ p.capsule \in Capsules
           /\ p.kind = "approval" => p.rid \in RequestIds /\ p.call \in Calls
BY DEF Prompts

\* A running handler is one of Handlers.
LEMMA RunningHandler ==
    ASSUME TypeOK, handler.kind # "idle"
    PROVE  handler \in Handlers
BY DEF TypeOK, Idle

LEMMA IdleHandler ==
    ASSUME TypeOK
    PROVE  handler = Idle <=> handler.kind = "idle"
BY DEF TypeOK, Idle, Handlers

LEMMA ScriptLength == Len(Script) = 3
BY DEF Script

\* The steps of a handler's script, as changes of its record.
LEMMA NextStepType ==
    ASSUME handler \in Handlers, handler.at \in 1..2
    PROVE  /\ [handler EXCEPT !.at = @ + 1] \in Handlers
           /\ \A early \in BOOLEAN :
                 [handler EXCEPT !.at = @ + 1, !.early = early] \in Handlers
           /\ \A sub, deaf \in BOOLEAN :
                 [handler EXCEPT !.at = @ + 1, !.sub = sub, !.deaf = deaf]
                     \in Handlers
<1>1. handler.at + 1 \in 1..Len(Script)
  BY ScriptLength
<1> QED
  BY <1>1 DEF Handlers

LEMMA RunType ==
    ASSUME TypeOK, NEW c \in Calls, NEW st \in RunStates
    PROVE  [run EXCEPT ![c].st = st]
               \in [Calls -> [st : RunStates, asks : 0..MaxAsks, denied : BOOLEAN]]
BY DEF TypeOK

LEMMA BeginType ==
    ASSUME NEW kind \in {"call", "respond"}, NEW c \in Calls, NEW t \in Tools,
           NEW rid \in RequestIds, NEW yes \in BOOLEAN
    PROVE  Begin(kind, c, t, rid, yes) \in Handlers
BY DEF Begin, Handlers, Script

\* A set of numbers has a least one.
LEMMA LessThan ==
    ASSUME NEW i \in Nat, NEW j \in Nat
    PROVE  <<j, i>> \in OpToRel(<, Nat) <=> j < i
BY DEF OpToRel

LEMMA LeastNumber ==
    ASSUME NEW S \in SUBSET Nat, S # {}
    PROVE  \E i \in S : \A j \in S : i <= j
<1>1. PICK i \in S : \A j \in S : <<j, i>> \notin OpToRel(<, Nat)
  BY NatLessThanWellFounded, WFMin
<1>2. ASSUME NEW j \in S PROVE i <= j
  <2>1. i \in Nat /\ j \in Nat
    OBVIOUS
  <2>2. <<j, i>> \notin OpToRel(<, Nat)
    BY <1>1
  <2>3. ~(j < i)
    BY <2>1, <2>2, LessThan
  <2> QED
    BY <2>1, <2>3
<1> QED
  BY <1>2

\* The signal a drain acts on is one of those it holds.
LEMMA SignalIsHeld ==
    ASSUME handler \in Handlers, handler.sigs # <<>>
    PROVE  \E i \in DOMAIN handler.sigs : Signal = handler.sigs[i]
<1> DEFINE gate == {i \in DOMAIN handler.sigs : handler.sigs[i].kind = "grant"}
<1>1. DOMAIN handler.sigs = 1..Len(handler.sigs) /\ 1 \in DOMAIN handler.sigs
  BY DEF Handlers
<1>2. CASE gate = {}
  BY <1>1, <1>2 DEF Signal
<1>3. CASE gate # {}
  <2>1. gate \in SUBSET Nat
    BY <1>1
  <2>2. \E i \in gate : \A j \in gate : i <= j
    BY <1>3, <2>1, LeastNumber
  <2> QED
    BY <1>3, <2>2 DEF Signal
<1> QED
  BY <1>2, <1>3

LEMMA SignalType ==
    ASSUME handler \in Handlers, handler.sigs # <<>>
    PROVE  Signal.kind \in {"grant", "approval"} /\ Signal.rid \in RequestIds
<1>1. PICK i \in DOMAIN handler.sigs : Signal = handler.sigs[i]
  BY SignalIsHeld
<1>2. handler.sigs \in Seq([kind : {"grant", "approval"}, rid : RequestIds])
  BY DEF Handlers
<1>3. i \in 1..Len(handler.sigs)
  BY <1>2
<1>4. handler.sigs[i] \in [kind : {"grant", "approval"}, rid : RequestIds]
  BY <1>2, <1>3, ElementOfSeq
<1> QED
  BY <1>1, <1>4

LEMMA SignalledType ==
    ASSUME TypeOK, NEW kind \in {"grant", "approval"}, NEW rid \in RequestIds
    PROVE  Signalled(kind, rid) \in {Idle} \cup Handlers
<1>1. CASE handler.kind = "call" /\ handler.sub
  <2>1. handler \in Handlers
    BY <1>1, RunningHandler
  <2>2. Append(handler.sigs, [kind |-> kind, rid |-> rid])
            \in Seq([kind : {"grant", "approval"}, rid : RequestIds])
    BY <2>1 DEF Handlers
  <2> QED
    BY <1>1, <2>1, <2>2 DEF Signalled, Handlers
<1>2. CASE ~(handler.kind = "call" /\ handler.sub)
  BY <1>2 DEF Signalled, TypeOK
<1> QED
  BY <1>1, <1>2

LEMMA ResultedType ==
    ASSUME TypeOK, NEW c \in Calls
    PROVE  Resulted(c) \in {Idle} \cup Handlers
<1>1. CASE handler.kind # "idle"
  BY <1>1, RunningHandler DEF Resulted, Handlers
<1>2. CASE handler.kind = "idle"
  BY <1>2 DEF Resulted, TypeOK
<1> QED
  BY <1>1, <1>2

-----------------------------------------------------------------------------
LEMMA TypeInit == Init => TypeOK
<1> SUFFICES ASSUME Init PROVE TypeOK
  OBVIOUS
<1>1. CapsuleOf \in [Tools -> Capsules] /\ MaxAsks \in Nat /\ MaxFaults \in Nat
  BY ConstantsAssumption
<1>2. (CHOOSE t \in Tools : TRUE) \in Tools /\ (CHOOSE s \in Sources : TRUE) \in Sources
  BY ConstantsAssumption
<1> QED
  BY <1>1, <1>2 DEF Init, TypeOK, NotRun, RunStates, NoReply, Replies

LEMMA FaultType == ASSUME TypeOK, NEW f, Fault(f) PROVE faults' \in 0..MaxFaults
BY ConstantsAssumption DEF TypeOK, Fault

LEMMA FinishType ==
    ASSUME TypeOK, handler.kind # "idle", NEW r \in Replies, Finish(r)
    PROVE  handler' \in {Idle} \cup Handlers /\ reply' \in [Calls -> Replies]
BY RunningHandler DEF TypeOK, Finish, Handlers

LEMMA HandleCallType == ASSUME TypeOK, NEW c \in Calls, HandleCall(c) PROVE TypeOK'
<1>1. PICK f \in Faults({"trustRead", "ingressMark"}) :
          /\ Fault(f)
          /\ AskConsent(c, f) \/ RejectCall(c) \/ StartDispatch(c, f)
  BY DEF HandleCall
<1>2. faults' \in 0..MaxFaults
  BY <1>1, FaultType
<1>3. inbox' \subseteq Requests /\ UNCHANGED <<kernelVars, run>>
  BY DEF HandleCall, TypeOK
<1>4. call[c].src \in Sources /\ call[c].tool \in Tools
  BY DEF TypeOK
<1>5. CASE AskConsent(c, f)
  <2>1. IngressPrompt(call[c].src) \in Prompts /\ Ask \in Replies
    BY <1>4 DEF IngressPrompt, Prompts, Replies
  <2> QED
    BY <1>2, <1>3, <1>4, <1>5, <2>1 DEF AskConsent, TypeOK, kernelVars
<1>6. CASE RejectCall(c)
  BY <1>2, <1>3, <1>6 DEF RejectCall, TypeOK, kernelVars, kvVars, userVars, Replies
<1>7. CASE StartDispatch(c, f)
  <2>1. handler' \in Handlers
    BY <1>4, <1>7, BeginType, GateIdType DEF StartDispatch
  <2> QED
    BY <1>2, <1>3, <1>7, <2>1
       DEF StartDispatch, TypeOK, kernelVars, kvVars, userVars, shimVars
<1> QED
  BY <1>1, <1>5, <1>6, <1>7

LEMMA AtHandler ==
    ASSUME TypeOK, NEW step, At(step)
    PROVE  handler \in Handlers /\ handler.at \in 1..3
BY RunningHandler, ScriptLength DEF At, Handlers

LEMMA SubscribeType == ASSUME TypeOK, Subscribe PROVE TypeOK'
<1>1. PICK f \in Faults({"subscribe"}) :
          /\ Fault(f)
          /\ IF f = "none" \/ handler.kind = "respond"
             THEN /\ handler' = [handler EXCEPT !.at = @ + 1,
                                   !.sub = f = "none", !.deaf = f # "none"]
                  /\ UNCHANGED reply
             ELSE Finish(Error)
  BY DEF Subscribe
<1>2. faults' \in 0..MaxFaults
  BY <1>1, FaultType
<1>3. handler \in Handlers /\ handler.at \in 1..2
  BY AtHandler DEF Subscribe, At, Script
<1>4. handler' \in {Idle} \cup Handlers /\ reply' \in [Calls -> Replies]
  <2>1. CASE f = "none" \/ handler.kind = "respond"
    <3> DEFINE sub  == f = "none"
               deaf == f # "none"
    <3>1. sub \in BOOLEAN /\ deaf \in BOOLEAN
      OBVIOUS
    <3>2. /\ handler' = [handler EXCEPT !.at = @ + 1, !.sub = sub, !.deaf = deaf]
          /\ UNCHANGED reply
      BY <1>1, <2>1
    <3> HIDE DEF sub, deaf
    <3>3. handler' \in Handlers
      BY <1>3, <3>1, <3>2, NextStepType, Zenon
    <3> QED
      BY <3>2, <3>3 DEF TypeOK
  <2>2. CASE ~(f = "none" \/ handler.kind = "respond")
    BY <1>1, <2>2, FinishType DEF Replies, Subscribe, At
  <2> QED
    BY <2>1, <2>2
<1> QED
  BY <1>2, <1>4 DEF Subscribe, TypeOK, kvVars, kernelVars, userVars

LEMMA PublishType == ASSUME TypeOK, Publish PROVE TypeOK'
<1>1. PICK f \in Faults({"publish"}) :
          Fault(f) /\ (PublishExecute(f) \/ PublishDecision(f))
  BY DEF Publish
<1>2. faults' \in 0..MaxFaults
  BY <1>1, FaultType
<1>3. handler \in Handlers /\ handler.at \in 1..2 /\ handler.kind # "idle"
  BY AtHandler DEF Publish, At, Script
<1>4. handler.call \in Calls /\ handler.rid \in RequestIds /\ handler.yes \in BOOLEAN
  BY <1>3 DEF Handlers
<1>5. CASE PublishExecute(f)
  <2>1. handler' \in {Idle} \cup Handlers /\ reply' \in [Calls -> Replies]
    <3>1. CASE f = "none"
      <4>1. handler' = [handler EXCEPT !.at = @ + 1] /\ UNCHANGED reply
        BY <1>5, <3>1 DEF PublishExecute
      <4>2. handler' \in Handlers
        BY <1>3, <4>1, NextStepType, Zenon
      <4> QED
        BY <4>1, <4>2 DEF TypeOK
    <3>2. CASE f # "none"
      BY <1>3, <1>5, <3>2, FinishType DEF PublishExecute, Replies
    <3> QED
      BY <3>1, <3>2
  <2>2. run' \in [Calls -> [st : RunStates, asks : 0..MaxAsks, denied : BOOLEAN]]
    <3>1. "sent" \in RunStates
      BY DEF RunStates
    <3>2. CASE f = "none"
      <4>1. run' = [run EXCEPT ![handler.call].st = "sent"]
        BY <1>5, <3>2 DEF PublishExecute
      <4> QED
        BY <1>4, <3>1, <4>1, RunType
    <3>3. CASE f # "none"
      BY <1>5, <3>3 DEF PublishExecute, TypeOK
    <3> QED
      BY <3>2, <3>3
  <2> QED
    BY <1>2, <1>5, <2>1, <2>2 DEF Publish, PublishExecute, TypeOK, kvVars, userVars
<1>6. CASE PublishDecision(f)
  <2>1. handler' \in {Idle} \cup Handlers /\ reply' \in [Calls -> Replies]
    <3> DEFINE early == /\ run[handler.call].st = "done"
                        /\ handler.call \notin handler.res
    <3>1. early \in BOOLEAN
      OBVIOUS
    <3>2. handler' = [handler EXCEPT !.at = @ + 1, !.early = early] /\ UNCHANGED reply
      BY <1>6 DEF PublishDecision
    <3> HIDE DEF early
    <3>3. handler' \in Handlers
      BY <1>3, <3>1, <3>2, NextStepType, Zenon
    <3> QED
      BY <3>2, <3>3 DEF TypeOK
  <2>2. decisions' \subseteq [rid : RequestIds, yes : BOOLEAN]
    BY <1>4, <1>6 DEF PublishDecision, TypeOK
  <2> QED
    BY <1>2, <1>6, <2>1, <2>2 DEF Publish, PublishDecision, TypeOK, kvVars, userVars
<1> QED
  BY <1>1, <1>5, <1>6

LEMMA DrainEndsType ==
    ASSUME TypeOK, TakeResult \/ CloseWindow
    PROVE  TypeOK'
<1>1. PICK r \in Replies : Finish(r)
  <2>1. CASE TakeResult
    <3>1. PICK r \in handler.res : Finish(ResultOf(r))
      BY <2>1 DEF TakeResult
    <3>2. r \in Calls
      BY <2>1, AtHandler DEF TakeResult, Handlers
    <3> QED
      BY <3>1, <3>2 DEF ResultOf, Replies
  <2>2. CASE CloseWindow
    BY <2>2 DEF CloseWindow, Replies
  <2> QED
    BY <2>1, <2>2
<1>2. handler' \in {Idle} \cup Handlers /\ reply' \in [Calls -> Replies]
  BY <1>1, FinishType DEF TakeResult, CloseWindow, At
<1> QED
  BY <1>2 DEF TakeResult, CloseWindow, TypeOK, kvVars, kernelVars, userVars

LEMMA GatedType ==
    ASSUME TypeOK, handler \in Handlers, handler.sigs # <<>>
    PROVE  Gated \in Capsules
<1>1. Signal.rid[1] \in Calls
  BY SignalType, RequestIdParts
<1> QED
  BY <1>1, ConstantsAssumption DEF Gated, TypeOK

LEMMA TakeSignalType == ASSUME TypeOK, TakeSignal PROVE TypeOK'
<1>1. handler \in Handlers /\ handler.sigs # <<>> /\ handler.kind # "idle"
  BY AtHandler DEF TakeSignal, At
<1>2. Signal.rid \in RequestIds /\ Gated \in Capsules /\ handler.call \in Calls
  BY <1>1, SignalType, GatedType DEF Handlers
<1>3. {Ask, Retry, Error} \subseteq Replies
  BY DEF Replies
<1>4. /\ inbox' \subseteq Requests /\ awaiting' \subseteq Calls
      /\ granted' \subseteq Capsules
      /\ run' \in [Calls -> [st : RunStates, asks : 0..MaxAsks, denied : BOOLEAN]]
      /\ call' \in [Calls -> [tool : Tools, src : Sources]]
      /\ consented' \subseteq Sources /\ allowed' \subseteq RequestIds
      /\ wanted' \subseteq Capsules /\ acked' \subseteq Capsules
  BY DEF TakeSignal, TypeOK
<1>5. CASE SurfaceApproval
  <2>1. ApprovalPrompt(Signal.rid, handler.call) \in Prompts
    BY <1>2 DEF ApprovalPrompt, Prompts
  <2>2. handler' \in {Idle} \cup Handlers /\ reply' \in [Calls -> Replies]
    BY <1>1, <1>3, <1>5, FinishType DEF SurfaceApproval
  <2> QED
    BY <1>4, <1>5, <2>1, <2>2 DEF SurfaceApproval, TypeOK, kvVars
<1>6. CASE SurfaceGrant
  <2>1. PICK f \in Faults({"recordRead", "markerRead", "markerWrite", "publish"}) :
            Fault(f) /\ (AutoDecide(f) \/ Dedup(f) \/ AskGrant(f))
    BY <1>6 DEF SurfaceGrant
  <2>2. faults' \in 0..MaxFaults
    BY <2>1, FaultType
  <2>3. CASE AutoDecide(f)
    <3>1. decisions' \subseteq [rid : RequestIds, yes : BOOLEAN]
      <4> DEFINE yes == record[Gated] = "approve"
      <4>1. yes \in BOOLEAN
        OBVIOUS
      <4>2. [rid |-> Signal.rid, yes |-> yes] \in [rid : RequestIds, yes : BOOLEAN]
        BY <1>2, <4>1
      <4>3. \/ decisions' = decisions
            \/ decisions' = decisions \cup {[rid |-> Signal.rid, yes |-> yes]}
        BY <2>3 DEF AutoDecide
      <4> HIDE DEF yes
      <4> QED
        BY <4>2, <4>3 DEF TypeOK
    <3>2. \E r \in Replies : Finish(r)
      <4>1. CASE record[Gated] = "approve"
        <5>1. Finish(Retry)
          BY <2>3, <4>1 DEF AutoDecide
        <5> QED
          BY <1>3, <5>1
      <4>2. CASE record[Gated] # "approve"
        <5>1. Finish(Error)
          BY <2>3, <4>2 DEF AutoDecide
        <5> QED
          BY <1>3, <5>1
      <4> QED
        BY <4>1, <4>2
    <3>3. handler' \in {Idle} \cup Handlers /\ reply' \in [Calls -> Replies]
      BY <1>1, <3>2, FinishType
    <3> QED
      BY <1>4, <2>2, <2>3, <3>1, <3>3 DEF AutoDecide, TypeOK, kvVars
  <2>4. CASE Dedup(f)
    <3>1. handler' \in {Idle} \cup Handlers /\ reply' \in [Calls -> Replies]
      BY <1>1, <1>3, <2>4, FinishType DEF Dedup
    <3> QED
      BY <1>4, <2>2, <2>4, <3>1 DEF Dedup, TypeOK, kvVars
  <2>5. CASE AskGrant(f)
    <3>1. handler' \in {Idle} \cup Handlers /\ reply' \in [Calls -> Replies]
      BY <1>1, <1>3, <2>5, FinishType DEF AskGrant
    <3>2. GrantPrompt(Signal.rid, Gated) \in Prompts
      BY <1>2 DEF GrantPrompt, Prompts
    <3>3. marker' \in [Capsules -> {"none", "fresh", "stale"}]
      BY <2>5 DEF AskGrant, TypeOK
    <3> QED
      BY <1>4, <2>2, <2>5, <3>1, <3>2, <3>3 DEF AskGrant, TypeOK
  <2> QED
    BY <2>1, <2>3, <2>4, <2>5
<1> QED
  BY <1>5, <1>6 DEF TakeSignal

LEMMA HandleIngressType ==
    ASSUME TypeOK, NEW m \in inbox, HandleIngress(m)
    PROVE  TypeOK'
<1>1. PICK f \in Faults({"ingressTake", "ingressClear", "trustWrite"}) :
          /\ Fault(f)
          /\ asked' \in {asked, asked \ {m.src}}
          /\ trust' \in {trust, trust \cup {m.src}}
  BY DEF HandleIngress
<1>2. m.src \in Sources
  BY RequestParts DEF HandleIngress, TypeOK
<1>3. faults' \in 0..MaxFaults
  BY <1>1, FaultType
<1> QED
  BY <1>1, <1>2, <1>3 DEF HandleIngress, TypeOK, kernelVars, shimVars, userVars

LEMMA VerdictType ==
    ASSUME NEW m, NEW f, m.yes \in BOOLEAN
    PROVE  Verdict(m, f) \in BOOLEAN
BY DEF Verdict

LEMMA HandleApprovalType ==
    ASSUME TypeOK, NEW m \in inbox, HandleApproval(m)
    PROVE  TypeOK'
<1>1. PICK f \in Faults({"trustRead"}) :
          /\ Fault(f)
          /\ handler' = Begin("respond", m.call, call[m.call].tool, m.rid,
                              Verdict(m, f))
  BY DEF HandleApproval
<1>2. m.call \in Calls /\ m.rid \in RequestIds /\ m.yes \in BOOLEAN
  BY RequestParts DEF HandleApproval, TypeOK
<1>3. call[m.call].tool \in Tools
  BY <1>2 DEF TypeOK
<1>4. handler' \in Handlers
  BY <1>1, <1>2, <1>3, VerdictType, BeginType
<1>5. faults' \in 0..MaxFaults
  BY <1>1, FaultType
<1> QED
  BY <1>4, <1>5 DEF HandleApproval, TypeOK, kvVars, kernelVars, shimVars, userVars

LEMMA HandleGrantType ==
    ASSUME TypeOK, NEW m \in inbox, HandleGrant(m)
    PROVE  TypeOK'
<1>1. m.rid \in RequestIds /\ m.capsule \in Capsules /\ m.yes \in BOOLEAN
  BY RequestParts DEF HandleGrant, TypeOK
<1>2. PICK f \in Faults({"trustRead", "recordWrite", "publish", "markerTake"}) :
          /\ Fault(f)
          /\ \/ record' = record
             \/ /\ record' = [record EXCEPT ![m.capsule] =
                                  RespondDecisionToRecord(Verdict(m, f))]
                /\ RespondDecisionToRecord(Verdict(m, f)) # "none"
          /\ \/ decisions' = decisions
             \/ decisions' = decisions \cup {[rid |-> m.rid, yes |-> Verdict(m, f)]}
          /\ marker' \in {marker, ClearGrantMarker(m.capsule, Verdict(m, f))}
          /\ unanswered' \in {unanswered, unanswered \cup {m.capsule}}
          /\ acked' \in {acked, acked \cup {m.capsule}}
  BY DEF HandleGrant
<1>3. faults' \in 0..MaxFaults
  BY <1>2, FaultType
<1>4. record' \in [Capsules -> {"none", "approve", "deny"}]
  BY <1>1, <1>2 DEF TypeOK, RespondDecisionToRecord
<1>5. decisions' \subseteq [rid : RequestIds, yes : BOOLEAN]
  <2>1. Verdict(m, f) \in BOOLEAN
    BY <1>1, VerdictType
  <2> QED
    BY <1>1, <1>2, <2>1 DEF TypeOK
<1>6. marker' \in [Capsules -> {"none", "fresh", "stale"}]
  BY <1>1, <1>2 DEF TypeOK, ClearGrantMarker
<1> QED
  BY <1>1, <1>2, <1>3, <1>4, <1>5, <1>6 DEF HandleGrant, TypeOK, shimVars

LEMMA ResumeType ==
    ASSUME TypeOK, NEW c \in Calls, NEW yes \in BOOLEAN
    PROVE  Resume(c, yes) \in [Calls -> [st : RunStates, asks : 0..MaxAsks, denied : BOOLEAN]]
<1> DEFINE denied == ~yes
           resumed == [run[c] EXCEPT !.st = "running", !.denied = denied]
<1>1. denied \in BOOLEAN
  OBVIOUS
<1>2. run[c] \in [st : RunStates, asks : 0..MaxAsks, denied : BOOLEAN]
  BY DEF TypeOK
<1>3. resumed \in [st : RunStates, asks : 0..MaxAsks, denied : BOOLEAN]
  <2> HIDE DEF denied
  <2> QED
    BY <1>1, <1>2 DEF RunStates
<1>4. Resume(c, yes) = [run EXCEPT ![c] = resumed]
  BY DEF Resume, TypeOK
<1> HIDE DEF resumed
<1> QED
  BY <1>3, <1>4 DEF TypeOK

LEMMA KernelType == ASSUME TypeOK, Kernel PROVE TypeOK'
<1> USE DEF kvVars, kernelVars, shimVars, userVars
<1>1. ASSUME NEW c \in Calls, Admit(c) \/ Unrouted(c) PROVE TypeOK'
  <2>1. "running" \in RunStates /\ "dropped" \in RunStates
    BY DEF RunStates
  <2>2. run' \in [Calls -> [st : RunStates, asks : 0..MaxAsks, denied : BOOLEAN]]
    <3>1. CASE Admit(c)
      BY <2>1, <3>1, RunType DEF Admit
    <3>2. CASE Unrouted(c)
      BY <2>1, <3>2, RunType DEF Unrouted
    <3> QED
      BY <1>1, <3>1, <3>2
  <2> QED
    BY <1>1, <2>2 DEF Admit, Unrouted, TypeOK
<1>2. ASSUME NEW c \in Calls, Refuse(c) PROVE TypeOK'
  <2>1. run' \in [Calls -> [st : RunStates, asks : 0..MaxAsks, denied : BOOLEAN]]
    BY <1>2, RunType DEF Refuse, RunStates
  <2>2. handler' \in {Idle} \cup Handlers
    BY <1>2, SignalledType, GateIdType DEF Refuse
  <2> QED
    BY <1>2, <2>1, <2>2 DEF Refuse, TypeOK
<1>3. ASSUME NEW c \in Calls, ParkExpires(c) PROVE TypeOK'
  <2>1. run' \in [Calls -> [st : RunStates, asks : 0..MaxAsks, denied : BOOLEAN]]
    BY <1>3, ResumeType DEF ParkExpires
  <2> QED
    BY <1>3, <2>1 DEF ParkExpires, TypeOK
<1>4. ASSUME NEW c \in Calls, ExpireGrant(c) PROVE TypeOK'
  BY <1>4 DEF ExpireGrant, TypeOK
<1>5. ASSUME NEW d \in decisions, Decide(d) PROVE TypeOK'
  <2>1. d.rid \in RequestIds /\ d.yes \in BOOLEAN /\ d.rid[1] \in Calls
    BY RequestIdParts DEF TypeOK
  <2>2. call[d.rid[1]].tool \in Tools
    BY <2>1 DEF TypeOK
  <2>3. granted' \subseteq Capsules
    BY <1>5, <2>2, ConstantsAssumption DEF Decide, TypeOK
  <2>4. run' \in [Calls -> [st : RunStates, asks : 0..MaxAsks, denied : BOOLEAN]]
    <3>1. run' \in {run, Resume(d.rid[1], d.yes)}
      BY <1>5 DEF Decide
    <3>2. Resume(d.rid[1], d.yes)
            \in [Calls -> [st : RunStates, asks : 0..MaxAsks, denied : BOOLEAN]]
      BY <2>1, ResumeType
    <3> QED
      BY <3>1, <3>2 DEF TypeOK
  <2> QED
    BY <1>5, <2>3, <2>4 DEF Decide, TypeOK
<1> QED
  BY <1>1, <1>2, <1>3, <1>4, <1>5 DEF Kernel

LEMMA ToolType == ASSUME TypeOK, Tool PROVE TypeOK'
<1> USE DEF kvVars, kernelVars, shimVars, userVars
<1>1. ASSUME NEW c \in Calls, AskApproval(c) PROVE TypeOK'
  <2>1. run[c].asks + 1 \in 0..MaxAsks
    BY <1>1, ConstantsAssumption DEF AskApproval, TypeOK
  <2>2. <<c, run[c].asks + 1>> \in RequestIds
    BY <2>1 DEF RequestIds
  <2>3. run' \in [Calls -> [st : RunStates, asks : 0..MaxAsks, denied : BOOLEAN]]
    BY <1>1, <2>1 DEF AskApproval, TypeOK, RunStates
  <2>4. handler' \in {Idle} \cup Handlers
    BY <1>1, <2>2, SignalledType DEF AskApproval
  <2> QED
    BY <1>1, <2>3, <2>4 DEF AskApproval, TypeOK
<1>2. ASSUME NEW c \in Calls, Return(c) PROVE TypeOK'
  <2>1. run' \in [Calls -> [st : RunStates, asks : 0..MaxAsks, denied : BOOLEAN]]
    BY <1>2, RunType DEF Return, RunStates
  <2>2. handler' \in {Idle} \cup Handlers
    BY <1>2, ResultedType DEF Return
  <2> QED
    BY <1>2, <2>1, <2>2 DEF Return, TypeOK
<1> QED
  BY <1>1, <1>2 DEF Tool

\* The message an answer to a prompt becomes.
AnswerTo(p, yes, s) ==
    CASE p.kind = "ingress" -> [kind |-> "ingress", src |-> s, yes |-> yes]
      [] p.kind = "grant" -> [kind |-> "grant", src |-> s, yes |-> yes,
                              rid |-> p.rid, capsule |-> p.capsule]
      [] p.kind = "approval" -> [kind |-> "approval", src |-> s,
                                 yes |-> yes, rid |-> p.rid, call |-> p.call]

LEMMA AnswerToType ==
    ASSUME NEW p \in Prompts, NEW yes \in BOOLEAN, NEW s \in Sources
    PROVE  AnswerTo(p, yes, s) \in Requests
<1>1. CASE p.kind = "ingress"
  BY <1>1 DEF AnswerTo, Requests
<1>2. CASE p.kind = "grant"
  BY <1>2, PromptParts DEF AnswerTo, Requests
<1>3. CASE p.kind = "approval"
  BY <1>3, PromptParts DEF AnswerTo, Requests
<1> QED
  BY <1>1, <1>2, <1>3, PromptParts

LEMMA ClientType == ASSUME TypeOK, Client PROVE TypeOK'
<1> USE DEF kvVars, kernelVars, shimVars, userVars
<1>1. ASSUME NEW c \in Calls, NEW t \in Tools, NEW s \in Sources, Submit(c, t, s)
      PROVE  TypeOK'
  <2>1. run' \in [Calls -> [st : RunStates, asks : 0..MaxAsks, denied : BOOLEAN]]
    BY <1>1, ConstantsAssumption DEF Submit, NotRun, RunStates, TypeOK
  <2>2. /\ call' \in [Calls -> [tool : Tools, src : Sources]]
        /\ reply' \in [Calls -> Replies]
    BY <1>1 DEF Submit, TypeOK, Replies
  <2>3. [kind |-> "call", call |-> c] \in Requests
    BY DEF Requests
  <2> QED
    BY <1>1, <2>1, <2>2, <2>3 DEF Submit, TypeOK
<1>2. ASSUME NEW p \in prompts, NEW yes \in BOOLEAN, NEW s \in Sources, Answer(p, yes, s)
      PROVE  TypeOK'
  <2>1. p \in Prompts
    BY DEF TypeOK
  <2>2. inbox' = inbox \cup {AnswerTo(p, yes, s)}
    BY <1>2 DEF Answer, AnswerTo
  <2>3. inbox' \subseteq Requests
    BY <2>1, <2>2, AnswerToType DEF TypeOK
  <2>4. allowed' \subseteq RequestIds /\ wanted' \subseteq Capsules
    BY <1>2, <2>1, PromptParts DEF Answer, TypeOK
  <2> QED
    BY <1>2, <2>3, <2>4 DEF Answer, TypeOK
<1>3. ASSUME NEW p \in prompts, Lose(p) PROVE TypeOK'
  <2>1. p.kind = "grant" => p.capsule \in Capsules
    BY PromptParts DEF TypeOK
  <2> QED
    BY <1>3, <2>1 DEF Lose, TypeOK
<1>4. ASSUME NEW s \in Sources, StrayAccept(s) PROVE TypeOK'
  <2>1. [kind |-> "ingress", src |-> s, yes |-> TRUE] \in Requests
    BY DEF Requests
  <2> QED
    BY <1>4, <2>1 DEF StrayAccept, TypeOK
<1>5. ASSUME NEW k \in Capsules, AgeMarker(k) PROVE TypeOK'
  BY <1>5 DEF AgeMarker, TypeOK
<1> QED
  BY <1>1, <1>2, <1>3, <1>4, <1>5 DEF Client

LEMMA TypeNext == TypeOK /\ [Next]_vars => TypeOK'
<1> SUFFICES ASSUME TypeOK, [Next]_vars PROVE TypeOK'
  OBVIOUS
<1>1. CASE Broker
  BY <1>1, HandleCallType, HandleIngressType, HandleApprovalType, HandleGrantType,
     SubscribeType, PublishType, DrainEndsType, TakeSignalType DEF Broker
<1>2. CASE Kernel
  BY <1>2, KernelType
<1>3. CASE Tool
  BY <1>3, ToolType
<1>4. CASE Client
  BY <1>4, ClientType
<1>5. CASE UNCHANGED vars
  BY <1>5 DEF vars, kvVars, kernelVars, shimVars, userVars, TypeOK
<1> QED
  BY <1>1, <1>2, <1>3, <1>4, <1>5 DEF Next

\* Whatever fails and whoever answers what, the broker's keys, the messages and
\* the running handler have their types: a record is only ever a decision, a
\* marker only ever a stamp.
THEOREM TypeCorrect == Spec => []TypeOK
BY TypeInit, TypeNext, PTL DEF Spec

-----------------------------------------------------------------------------
(* Trust *)

\* Every prompt marker stands for a prompt that was raised: without it an
\* accept that consumes a marker could trust a source nobody was asked about.
Prompted == asked \subseteq consented /\ TrustNeedsPrompt

LEMMA PromptedInit == Init => Prompted
BY DEF Init, Prompted, TrustNeedsPrompt

LEMMA PromptedNext == TypeOK /\ Prompted /\ [Next]_vars => Prompted'
<1> SUFFICES ASSUME TypeOK, Prompted, [Next]_vars PROVE Prompted'
  OBVIOUS
<1> USE DEF Prompted, TrustNeedsPrompt
<1>1. ASSUME NEW c \in Calls, HandleCall(c) PROVE Prompted'
  <2>1. PICK f \in Faults({"trustRead", "ingressMark"}) :
            AskConsent(c, f) \/ RejectCall(c) \/ StartDispatch(c, f)
    BY <1>1 DEF HandleCall
  <2>2. CASE AskConsent(c, f)
    BY <2>2 DEF AskConsent
  <2>3. CASE RejectCall(c)
    BY <2>3 DEF RejectCall, kvVars, userVars
  <2>4. CASE StartDispatch(c, f)
    BY <2>4 DEF StartDispatch, kvVars, userVars
  <2> QED
    BY <2>1, <2>2, <2>3, <2>4
<1>2. ASSUME NEW m \in inbox, HandleIngress(m) PROVE Prompted'
  <2>1. PICK f \in Faults({"ingressTake", "ingressClear", "trustWrite"}) :
            /\ asked' \in {asked, asked \ {m.src}}
            /\ trust' # trust => trust' = trust \cup {m.src} /\ m.src \in asked
    BY <1>2 DEF HandleIngress, TakeIngressPending
  <2> QED
    BY <1>2, <2>1 DEF HandleIngress, userVars
<1>3. CASE TakeSignal
  BY <1>3 DEF TakeSignal, SurfaceApproval, SurfaceGrant, AutoDecide, Dedup, AskGrant, kvVars
<1>4. CASE Subscribe \/ Publish \/ TakeResult \/ CloseWindow
  BY <1>4 DEF Subscribe, Publish, TakeResult, CloseWindow, kvVars, userVars
<1>5. ASSUME NEW m \in inbox, HandleApproval(m) \/ HandleGrant(m) PROVE Prompted'
  BY <1>5 DEF HandleApproval, HandleGrant, kvVars, userVars
<1>6. CASE Kernel
  BY <1>6 DEF Kernel, Admit, Unrouted, Refuse, ParkExpires, ExpireGrant, Decide,
              kvVars, userVars
<1>7. CASE Tool
  BY <1>7 DEF Tool, AskApproval, Return, kvVars, userVars
<1>8. CASE Client
  BY <1>8 DEF Client, Submit, Answer, Lose, StrayAccept, AgeMarker, kvVars, userVars
<1>9. CASE UNCHANGED vars
  BY <1>9 DEF vars, kvVars, userVars
<1> QED
  BY <1>1, <1>2, <1>3, <1>4, <1>5, <1>6, <1>7, <1>8, <1>9 DEF Next, Broker

\* No number of replayed or unsolicited accepts, and no failing host call, makes
\* the broker trust a source it never asked the user about.
THEOREM TrustIsAskedFor == Spec => []TrustNeedsPrompt
<1>1. Prompted => TrustNeedsPrompt
  BY DEF Prompted
<1> QED
  BY <1>1, PromptedInit, PromptedNext, TypeCorrect, PTL DEF Spec

-----------------------------------------------------------------------------
(* Results *)

LEMMA ResultsMatchNext == TypeOK /\ ResultsMatch /\ [Next]_vars => ResultsMatch'
<1> SUFFICES ASSUME TypeOK, ResultsMatch, [Next]_vars PROVE ResultsMatch'
  OBVIOUS
<1>1. ASSUME reply' = reply PROVE ResultsMatch'
  BY <1>1 DEF ResultsMatch
<1>2. ASSUME NEW c \in Calls, NEW r, reply' = [reply EXCEPT ![c] = r],
             r.kind = "result" => r.of = c
      PROVE  ResultsMatch'
  BY <1>2 DEF ResultsMatch, TypeOK
<1>3. /\ \A r \in {NoReply, Ask, Retry, Error} : r.kind # "result"
      /\ ResultOf(handler.call).of = handler.call
  BY DEF NoReply, Ask, Retry, Error, ResultOf
<1>4. ASSUME NEW r \in {Ask, Retry, Error, ResultOf(handler.call)}, Finish(r),
             handler.kind # "idle"
      PROVE  ResultsMatch'
  <2>1. handler.call \in Calls
    BY <1>4, RunningHandler DEF Handlers
  <2>2. reply' = [reply EXCEPT ![handler.call] = r]
    BY <1>4 DEF Finish
  <2>3. r.kind = "result" => r.of = handler.call
    BY <1>3, <1>4
  <2> QED
    BY <1>2, <2>1, <2>2, <2>3
<1>5. ASSUME NEW c \in Calls, HandleCall(c) PROVE ResultsMatch'
  <2>1. PICK f : AskConsent(c, f) \/ RejectCall(c) \/ StartDispatch(c, f)
    BY <1>5 DEF HandleCall
  <2> QED
    BY <1>1, <1>2, <1>3, <2>1 DEF AskConsent, RejectCall, StartDispatch, shimVars
<1>6. CASE Subscribe
  <2>1. UNCHANGED reply \/ Finish(Error)
    BY <1>6 DEF Subscribe
  <2> QED
    BY <1>1, <1>4, <1>6, <2>1 DEF Subscribe, At
<1>7. CASE Publish
  <2>1. UNCHANGED reply \/ Finish(Error)
    BY <1>7 DEF Publish, PublishExecute, PublishDecision
  <2> QED
    BY <1>1, <1>4, <1>7, <2>1 DEF Publish, At
<1>8. CASE TakeResult
  <2>1. Finish(ResultOf(handler.call))
    BY <1>8 DEF TakeResult, MatchResult
  <2> QED
    BY <1>4, <1>8, <2>1 DEF TakeResult, At
<1>9. CASE CloseWindow
  BY <1>4, <1>9 DEF CloseWindow, At
<1>10. CASE TakeSignal
  <2>1. Finish(Ask) \/ Finish(Retry) \/ Finish(Error)
    BY <1>10 DEF TakeSignal, SurfaceApproval, SurfaceGrant, AutoDecide, Dedup, AskGrant
  <2> QED
    BY <1>4, <1>10, <2>1 DEF TakeSignal, At
<1>11. ASSUME NEW m \in inbox, HandleIngress(m) \/ HandleApproval(m) \/ HandleGrant(m)
       PROVE  ResultsMatch'
  BY <1>1, <1>11 DEF HandleIngress, HandleApproval, HandleGrant, shimVars
<1>12. CASE Kernel
  BY <1>1, <1>12 DEF Kernel, Admit, Unrouted, Refuse, ParkExpires, ExpireGrant,
                     Decide, shimVars
<1>13. CASE Tool
  BY <1>1, <1>13 DEF Tool, AskApproval, Return, shimVars
<1>14. ASSUME NEW c \in Calls, NEW t, NEW s, Submit(c, t, s) PROVE ResultsMatch'
  BY <1>2, <1>3, <1>14 DEF Submit
<1>15. CASE Client /\ UNCHANGED reply
  BY <1>1, <1>15
<1>16. CASE UNCHANGED vars
  BY <1>1, <1>16 DEF vars, shimVars
<1> QED
  BY <1>5, <1>6, <1>7, <1>8, <1>9, <1>10, <1>11, <1>12, <1>13, <1>14, <1>15, <1>16
     DEF Next, Broker, Client, Answer, Lose, StrayAccept, AgeMarker, shimVars

\* A late result of a call whose window closed never becomes the reply to
\* another call of the same tool.
THEOREM ResultsReachTheirCall == Spec => []ResultsMatch
<1>1. Init => ResultsMatch
  BY DEF Init, ResultsMatch, NoReply
<1> QED
  BY <1>1, ResultsMatchNext, TypeCorrect, PTL DEF Spec

-----------------------------------------------------------------------------
(* The dedup marker *)

LEMMA MarkerNext == TypeOK /\ MarkerAwaitsAnswer /\ [Next]_vars => MarkerAwaitsAnswer'
<1> SUFFICES ASSUME TypeOK, MarkerAwaitsAnswer, [Next]_vars PROVE MarkerAwaitsAnswer'
  OBVIOUS
<1> DEFINE Grants == {m \in prompts \cup inbox : m.kind = "grant"}
<1>1. ASSUME \A k \in Capsules : marker'[k] = "fresh" => marker[k] = "fresh",
             unanswered \subseteq unanswered',
             Grants \subseteq prompts' \cup inbox'
      PROVE  MarkerAwaitsAnswer'
  <2>1. \A k \in Capsules : marker'[k] = "fresh" =>
            k \in unanswered \/ \E m \in Grants : m.kind = "grant" /\ m.capsule = k
    BY <1>1 DEF MarkerAwaitsAnswer
  <2> QED
    BY <1>1, <2>1 DEF MarkerAwaitsAnswer
<1>2. ASSUME UNCHANGED <<marker, unanswered>>, Grants \subseteq prompts' \cup inbox'
      PROVE  MarkerAwaitsAnswer'
  BY <1>1, <1>2
<1>3. ASSUME NEW c \in Calls, HandleCall(c) PROVE MarkerAwaitsAnswer'
  <2>1. PICK f : AskConsent(c, f) \/ RejectCall(c) \/ StartDispatch(c, f)
    BY <1>3 DEF HandleCall
  <2>2. UNCHANGED <<marker, unanswered>> /\ prompts \subseteq prompts'
    BY <2>1 DEF AskConsent, RejectCall, StartDispatch, kvVars, shimVars, userVars
  <2> QED
    BY <1>2, <1>3, <2>2 DEF HandleCall
<1>4. ASSUME NEW m \in inbox, HandleIngress(m) \/ HandleApproval(m)
      PROVE  MarkerAwaitsAnswer'
  BY <1>2, <1>4 DEF HandleIngress, HandleApproval, kvVars, shimVars, userVars
<1>5. ASSUME NEW m \in inbox, HandleGrant(m) PROVE MarkerAwaitsAnswer'
  <2>1. /\ inbox' = inbox \ {m} /\ UNCHANGED prompts /\ m.kind = "grant"
        /\ \/ UNCHANGED marker /\ unanswered' = unanswered \cup {m.capsule}
           \/ /\ marker' = [marker EXCEPT ![m.capsule] = "none"]
              /\ UNCHANGED unanswered
    BY <1>5 DEF HandleGrant, ClearGrantMarker, shimVars
  <2>2. m.capsule \in Capsules
    BY <2>1, RequestParts DEF TypeOK
  <2> SUFFICES ASSUME NEW k \in Capsules, marker'[k] = "fresh"
               PROVE  \/ k \in unanswered'
                      \/ \E n \in prompts' \cup inbox' : n.kind = "grant" /\ n.capsule = k
    BY DEF MarkerAwaitsAnswer
  <2>3. marker[k] = "fresh" /\ (k # m.capsule \/ k \in unanswered')
    BY <2>1, <2>2 DEF TypeOK
  <2> QED
    BY <2>1, <2>3 DEF MarkerAwaitsAnswer
<1>6. CASE TakeSignal
  <2>1. CASE SurfaceApproval
    BY <1>2, <1>6, <2>1 DEF TakeSignal, SurfaceApproval, kvVars
  <2>2. CASE SurfaceGrant
    <3>1. PICK f : AutoDecide(f) \/ Dedup(f) \/ AskGrant(f)
      BY <2>2 DEF SurfaceGrant
    <3>2. CASE AutoDecide(f) \/ Dedup(f)
      BY <1>2, <1>6, <3>2 DEF TakeSignal, AutoDecide, Dedup, kvVars
    <3>3. CASE AskGrant(f)
      <4> DEFINE p == GrantPrompt(Signal.rid, Gated)
      <4>1. p.kind = "grant" /\ p.capsule = Gated
        BY DEF GrantPrompt
      <4>2. /\ prompts' = prompts \cup {p} /\ UNCHANGED inbox
            /\ unanswered' = unanswered \ {Gated}
            /\ \A k \in Capsules \ {Gated} : marker'[k] = marker[k]
        BY <1>6, <3>3 DEF TakeSignal, AskGrant, TypeOK
      <4> HIDE DEF p
      <4> QED
        BY <4>1, <4>2 DEF MarkerAwaitsAnswer
    <3> QED
      BY <3>1, <3>2, <3>3
  <2> QED
    BY <1>6, <2>1, <2>2 DEF TakeSignal
<1>7. CASE Subscribe \/ Publish \/ TakeResult \/ CloseWindow
  BY <1>2, <1>7 DEF Subscribe, Publish, TakeResult, CloseWindow, kvVars, userVars
<1>8. CASE Kernel
  BY <1>2, <1>8 DEF Kernel, Admit, Unrouted, Refuse, ParkExpires, ExpireGrant, Decide,
                    kvVars, shimVars, userVars
<1>9. CASE Tool
  BY <1>2, <1>9 DEF Tool, AskApproval, Return, kvVars, shimVars, userVars
<1>10. ASSUME NEW p \in prompts, NEW yes \in BOOLEAN, NEW s \in Sources, Answer(p, yes, s)
       PROVE  MarkerAwaitsAnswer'
  <2> DEFINE a == AnswerTo(p, yes, s)
  <2>1. /\ prompts' = prompts \ {p} /\ inbox' = inbox \cup {a}
        /\ UNCHANGED <<marker, unanswered>>
    BY <1>10 DEF Answer, AnswerTo, kvVars
  <2>2. p.kind = "grant" => a.kind = "grant" /\ a.capsule = p.capsule
    BY DEF AnswerTo
  <2> HIDE DEF a
  <2> QED
    BY <2>1, <2>2 DEF MarkerAwaitsAnswer
<1>11. ASSUME NEW p \in prompts, Lose(p) PROVE MarkerAwaitsAnswer'
  BY <1>11 DEF Lose, kvVars, MarkerAwaitsAnswer
<1>12. ASSUME NEW k \in Capsules, AgeMarker(k) PROVE MarkerAwaitsAnswer'
  <2>1. \A j \in Capsules : marker'[j] = "fresh" => marker[j] = "fresh"
    BY <1>12 DEF AgeMarker, TypeOK
  <2> QED
    BY <1>1, <1>12, <2>1 DEF AgeMarker, shimVars, userVars
<1>13. ASSUME NEW c \in Calls, NEW t, NEW s, Submit(c, t, s) PROVE MarkerAwaitsAnswer'
  BY <1>2, <1>13 DEF Submit, kvVars, shimVars, userVars
<1>14. ASSUME NEW s, StrayAccept(s) PROVE MarkerAwaitsAnswer'
  BY <1>2, <1>14 DEF StrayAccept, kvVars, shimVars, userVars
<1>15. CASE UNCHANGED vars
  BY <1>2, <1>15 DEF vars, kvVars, shimVars, userVars
<1> QED
  BY <1>3, <1>4, <1>5, <1>6, <1>7, <1>8, <1>9, <1>10, <1>11, <1>12, <1>13, <1>14, <1>15
     DEF Next, Broker, Client

\* The dedup marker never silences a capsule on its own: while it is fresh, the
\* answer that clears it can still come or was lost.
THEOREM MarkerIsAnswered == Spec => []MarkerAwaitsAnswer
<1>1. Init => MarkerAwaitsAnswer
  BY DEF Init, MarkerAwaitsAnswer
<1> QED
  BY <1>1, MarkerNext, TypeCorrect, PTL DEF Spec

-----------------------------------------------------------------------------
(* Subscribing before publishing *)

\* A handler past its subscription listens on its own call's tool, unless the
\* subscription failed: this is why the result that comes reaches its queue.
Listening ==
    handler.kind # "idle" =>
        /\ handler.tool = call[handler.call].tool
        /\ handler.at > 1 => handler.sub = ~handler.deaf

Heard == Listening /\ NoResultMissed

LEMMA ScriptSteps ==
    ASSUME NEW i \in 1..3
    PROVE  /\ Script[i] = "subscribe" <=> i = 1
           /\ Script[i] = "publish" <=> i = 2
           /\ Script[i] = "drain" <=> i = 3
<1>1. i = 1 \/ i = 2 \/ i = 3
  OBVIOUS
<1> QED
  BY <1>1 DEF Script

\* A handler that begins, ends, or does nothing.
LEMMA HeardIdle == ASSUME handler' = Idle PROVE Heard'
BY DEF Heard, Listening, NoResultMissed, At, Idle

LEMMA HeardBegin ==
    ASSUME NEW kind, NEW c, NEW rid, NEW yes, UNCHANGED call,
           handler' = Begin(kind, c, call[c].tool, rid, yes)
    PROVE  Heard'
BY ScriptSteps DEF Heard, Listening, NoResultMissed, At, Begin

LEMMA HeardSame ==
    ASSUME Heard, UNCHANGED handler,
           handler.kind # "idle" =>
               /\ call'[handler.call] = call[handler.call]
               /\ run'[handler.call].st = "done" => run[handler.call].st = "done"
    PROVE  Heard'
BY DEF Heard, Listening, NoResultMissed, At

\* A message that joins the queue changes neither what is heard nor when.
LEMMA HeardSignalled ==
    ASSUME TypeOK, Heard, NEW kind, NEW rid, handler' = Signalled(kind, rid),
           UNCHANGED call,
           \A c \in Calls : run'[c].st = "done" => run[c].st = "done"
    PROVE  Heard'
<1>1. CASE handler.kind = "call" /\ handler.sub
  <2>1. handler \in Handlers
    BY <1>1, RunningHandler
  <2>2. handler' = [handler EXCEPT !.sigs = Append(@, [kind |-> kind, rid |-> rid])]
    BY <1>1 DEF Signalled
  <2>3. /\ handler'.kind = handler.kind /\ handler'.call = handler.call
        /\ handler'.tool = handler.tool /\ handler'.at = handler.at
        /\ handler'.sub = handler.sub /\ handler'.deaf = handler.deaf
        /\ handler'.res = handler.res /\ handler'.early = handler.early
    BY <2>1, <2>2 DEF Handlers
  <2>4. handler.call \in Calls
    BY <2>1 DEF Handlers
  <2>5. Listening'
    BY <2>3, Zenon DEF Heard, Listening
  <2>6. NoResultMissed'
    BY <2>3, <2>4, Zenon DEF Heard, NoResultMissed, At
  <2> QED
    BY <2>5, <2>6 DEF Heard
<1>2. CASE ~(handler.kind = "call" /\ handler.sub)
  <2>1. handler.kind # "idle" => handler.call \in Calls
    BY RunningHandler DEF Handlers
  <2> QED
    BY <1>2, <2>1, HeardSame DEF Signalled
<1> QED
  BY <1>1, <1>2

LEMMA HeardInit == Init => Heard
BY DEF Init, Heard, Listening, NoResultMissed, At, Idle

LEMMA HeardNext == TypeOK /\ Heard /\ [Next]_vars => Heard'
<1> SUFFICES ASSUME TypeOK, Heard, [Next]_vars PROVE Heard'
  OBVIOUS
<1> USE DEF shimVars
<1>1. handler.kind # "idle" =>
          handler \in Handlers /\ handler.call \in Calls /\ handler.at \in 1..3
  BY RunningHandler, ScriptLength DEF Handlers
<1>2. ASSUME NEW c \in Calls, HandleCall(c) PROVE Heard'
  <2>1. PICK f : AskConsent(c, f) \/ RejectCall(c) \/ StartDispatch(c, f)
    BY <1>2 DEF HandleCall
  <2> QED
    BY <1>2, <2>1, HeardIdle, HeardBegin
       DEF HandleCall, AskConsent, RejectCall, StartDispatch
<1>3. ASSUME NEW m \in inbox, HandleIngress(m) \/ HandleGrant(m) PROVE Heard'
  BY <1>3, HeardIdle DEF HandleIngress, HandleGrant
<1>4. ASSUME NEW m \in inbox, HandleApproval(m) PROVE Heard'
  BY <1>4, HeardBegin DEF HandleApproval
<1>5. CASE Subscribe
  <2>1. PICK f : IF f = "none" \/ handler.kind = "respond"
                 THEN /\ handler' = [handler EXCEPT !.at = @ + 1,
                                       !.sub = f = "none", !.deaf = f # "none"]
                      /\ UNCHANGED reply
                 ELSE Finish(Error)
    BY <1>5 DEF Subscribe
  <2>2. CASE handler' = Idle
    BY <2>2, HeardIdle
  <2>3. CASE handler' = [handler EXCEPT !.at = @ + 1,
                           !.sub = f = "none", !.deaf = f # "none"]
    <3>1. handler \in Handlers /\ handler.at = 1 /\ UNCHANGED call
      BY <1>1, <1>5, ScriptSteps DEF Subscribe, At
    <3>2. /\ handler'.kind = handler.kind /\ handler'.at = 2
          /\ handler'.call = handler.call /\ handler'.tool = handler.tool
      BY <2>3, <3>1 DEF Handlers
    <3>3. handler'.sub = ~handler'.deaf
      BY <2>3, <3>1 DEF Handlers
    <3> QED
      BY <3>1, <3>2, <3>3, ScriptSteps DEF Heard, Listening, NoResultMissed, At
  <2> QED
    BY <2>1, <2>2, <2>3 DEF Finish
<1>6. CASE Publish
  <2>1. PICK f : PublishExecute(f) \/ PublishDecision(f)
    BY <1>6 DEF Publish
  <2>2. handler \in Handlers /\ handler.at = 2 /\ handler.call \in Calls /\ UNCHANGED call
    BY <1>1, <1>6, ScriptSteps DEF Publish, At
  <2>3. CASE handler' = Idle
    BY <2>3, HeardIdle
  <2>4. CASE PublishExecute(f) /\ handler' # Idle
    <3>1. /\ handler' = [handler EXCEPT !.at = @ + 1]
          /\ run' = [run EXCEPT ![handler.call].st = "sent"]
      BY <2>4 DEF PublishExecute, Finish
    <3>2. /\ handler'.kind = handler.kind /\ handler'.at = 3
          /\ handler'.call = handler.call /\ handler'.tool = handler.tool
          /\ handler'.sub = handler.sub /\ handler'.deaf = handler.deaf
      BY <2>2, <3>1 DEF Handlers
    <3>3. run'[handler.call].st = "sent"
      BY <2>2, <3>1 DEF TypeOK
    <3>4. Listening'
      BY <2>2, <3>2 DEF Heard, Listening
    <3>5. NoResultMissed'
      BY <3>2, <3>3 DEF NoResultMissed
    <3> QED
      BY <3>4, <3>5 DEF Heard
  <2>5. CASE PublishDecision(f)
    <3>1. /\ handler' = [handler EXCEPT !.at = @ + 1,
                           !.early = /\ run[handler.call].st = "done"
                                     /\ handler.call \notin handler.res]
          /\ UNCHANGED run
      BY <2>5 DEF PublishDecision
    <3>2. /\ handler'.kind = handler.kind /\ handler'.at = 3
          /\ handler'.call = handler.call /\ handler'.tool = handler.tool
          /\ handler'.sub = handler.sub /\ handler'.deaf = handler.deaf
          /\ handler'.res = handler.res
      BY <2>2, <3>1 DEF Handlers
    <3>3. handler'.early = /\ run[handler.call].st = "done"
                           /\ handler.call \notin handler.res
      BY <2>2, <3>1 DEF Handlers
    <3>4. Listening'
      BY <2>2, <3>2 DEF Heard, Listening
    <3>5. NoResultMissed'
      BY <3>1, <3>2, <3>3 DEF NoResultMissed
    <3> QED
      BY <3>4, <3>5 DEF Heard
  <2> QED
    BY <2>1, <2>3, <2>4, <2>5
<1>7. CASE TakeResult \/ CloseWindow \/ TakeSignal
  BY <1>7, HeardIdle DEF TakeResult, CloseWindow, TakeSignal, SurfaceApproval,
     SurfaceGrant, AutoDecide, Dedup, AskGrant, Finish
<1>8. ASSUME NEW c \in Calls, Refuse(c) \/ AskApproval(c) PROVE Heard'
  <2>1. \A d \in Calls : run'[d].st = "done" => run[d].st = "done"
    <3>1. /\ run \in [Calls -> [st : RunStates, asks : 0..MaxAsks, denied : BOOLEAN]]
          /\ MaxAsks \in Nat
      BY ConstantsAssumption DEF TypeOK
    <3>2. CASE Refuse(c)
      BY <3>1, <3>2 DEF Refuse
    <3>3. CASE AskApproval(c)
      <4>1. \A d \in Calls \ {c} : run'[d] = run[d]
        BY <3>1, <3>3 DEF AskApproval
      <4>2. run'[c].st = "parked"
        BY <3>1, <3>3 DEF AskApproval
      <4> QED
        BY <4>1, <4>2
    <3> QED
      BY <1>8, <3>2, <3>3
  <2> QED
    BY <1>8, <2>1, HeardSignalled DEF Refuse, AskApproval
<1>9. ASSUME NEW c \in Calls, Admit(c) \/ Unrouted(c) \/ ParkExpires(c) PROVE Heard'
  <2>1. \A d \in Calls : run'[d].st = "done" => run[d].st = "done"
    BY <1>9 DEF Admit, Unrouted, ParkExpires, Resume, TypeOK
  <2> QED
    BY <1>1, <1>9, <2>1, HeardSame DEF Admit, Unrouted, ParkExpires
<1>10. ASSUME NEW c \in Calls, ExpireGrant(c) PROVE Heard'
  BY <1>10, HeardSame DEF ExpireGrant
<1>11. ASSUME NEW d \in decisions, Decide(d) PROVE Heard'
  <2>1. \A c \in Calls : run'[c].st = "done" => run[c].st = "done"
    BY <1>11 DEF Decide, Resume, TypeOK
  <2> QED
    BY <1>1, <1>11, <2>1, HeardSame DEF Decide
<1>12. ASSUME NEW c \in Calls, Return(c) PROVE Heard'
  <2>1. UNCHANGED call /\ run' = [run EXCEPT ![c].st = "done"] /\ handler' = Resulted(c)
    BY <1>12 DEF Return
  <2>2. CASE handler.kind # "idle" /\ handler.sub /\ handler.tool = call[c].tool
    <3>1. handler' = [handler EXCEPT !.res = @ \cup {c}]
      BY <2>1, <2>2 DEF Resulted
    <3>2. /\ handler'.kind = handler.kind /\ handler'.call = handler.call
          /\ handler'.tool = handler.tool /\ handler'.at = handler.at
          /\ handler'.sub = handler.sub /\ handler'.deaf = handler.deaf
          /\ handler'.res = handler.res \cup {c} /\ handler'.early = handler.early
      BY <1>1, <2>2, <3>1 DEF Handlers
    <3>3. handler.call # c => run'[handler.call].st = run[handler.call].st
      BY <1>1, <2>1, <2>2 DEF TypeOK
    <3>4. Listening'
      BY <2>1, <3>2, Zenon DEF Heard, Listening
    <3>5. NoResultMissed'
      BY <2>1, <3>2, <3>3 DEF Heard, NoResultMissed, At
    <3> QED
      BY <3>4, <3>5 DEF Heard
  <2>3. CASE ~(handler.kind # "idle" /\ handler.sub /\ handler.tool = call[c].tool)
    <3>1. UNCHANGED handler
      BY <2>1, <2>3 DEF Resulted
    <3>2. Listening'
      BY <2>1, <3>1 DEF Heard, Listening
    <3>3. NoResultMissed'
      <4>1. ASSUME At("drain"), ~handler.deaf PROVE handler.call # c
        <5>1. handler.kind # "idle" /\ handler.at = 3
          BY <1>1, <4>1, ScriptSteps DEF At
        <5>2. handler.tool = call[handler.call].tool /\ handler.sub = ~handler.deaf
          BY <5>1 DEF Heard, Listening
        <5> QED
          BY <2>3, <4>1, <5>1, <5>2
      <4>2. At("drain") /\ handler.call # c =>
                run'[handler.call].st = run[handler.call].st
        BY <1>1, <2>1 DEF TypeOK, At
      <4> QED
        BY <3>1, <4>1, <4>2 DEF Heard, NoResultMissed, At
    <3> QED
      BY <3>2, <3>3 DEF Heard
  <2> QED
    BY <2>2, <2>3
<1>13. ASSUME NEW c \in Calls, NEW t, NEW s, Submit(c, t, s) PROVE Heard'
  <2>1. handler.kind # "idle" => handler.call # c
    BY <1>13 DEF Submit, Used
  <2> QED
    BY <1>1, <1>13, <2>1, HeardSame DEF Submit, TypeOK
<1>14. CASE Client /\ UNCHANGED <<handler, run, call>>
  BY <1>14, HeardSame
<1>15. CASE UNCHANGED vars
  BY <1>15, HeardSame DEF vars
<1> QED
  BY <1>2, <1>3, <1>4, <1>5, <1>6, <1>7, <1>8, <1>9, <1>10, <1>11, <1>12, <1>13,
     <1>14, <1>15
     DEF Next, Broker, Kernel, Tool, Client, Answer, Lose, StrayAccept, AgeMarker

\* However the tool's own run interleaves with the handler that waits for it, a
\* result published after the execute request, or after the decision that
\* resumes the tool, is in the queue the handler drains.
THEOREM ResultsAreHeard == Spec => []NoResultMissed
<1>1. Heard => NoResultMissed
  BY DEF Heard
<1> QED
  BY <1>1, HeardInit, HeardNext, TypeCorrect, PTL DEF Spec

-----------------------------------------------------------------------------
(* Grants *)

\* Request id 0 of a run is the access gate's, the others are approvals: no
\* answer to an approval can reach the gate's awaiter.
HandlerIds ==
    /\ handler.kind = "respond" => handler.rid[2] # 0
    /\ handler.kind # "idle" =>
          \A i \in DOMAIN handler.sigs :
              handler.sigs[i].kind = "grant" <=> handler.sigs[i].rid[2] = 0

GateIds ==
    /\ HandlerIds
    /\ \A m \in prompts \cup inbox :
          /\ m.kind = "grant" => m.rid[2] = 0
          /\ m.kind = "approval" => m.rid[2] # 0

\* The capsule the gate grants when it is told yes under this request id.
GrantTarget(rid) == CapsuleOf[call[rid[1]].tool]

\* A grant prompt, and its answer, name the capsule of the call the gate
\* refused; the call keeps its tool as long as they are on their way.
GrantsNameTheirCall ==
    \A m \in prompts \cup inbox :
        m.kind = "grant" => m.capsule = GrantTarget(m.rid)

\* Wherever a yes for a capsule is on its way to the kernel, or kept for later,
\* the user gave it.
YesIsWanted ==
    /\ \A m \in inbox : m.kind = "grant" /\ m.yes => m.capsule \in wanted
    /\ \A d \in decisions : d.yes /\ d.rid[2] = 0 => GrantTarget(d.rid) \in wanted
    /\ \A k \in Capsules : record[k] = "approve" => k \in wanted

GrantInv == GateIds /\ GrantsNameTheirCall /\ YesIsWanted /\ GrantsAreWanted

LEMMA GrantInit == Init => GrantInv
BY DEF Init, GrantInv, GateIds, HandlerIds, GrantsNameTheirCall, YesIsWanted, GrantsAreWanted, Idle

LEMMA HandlerIdsIdle == ASSUME handler' = Idle PROVE HandlerIds'
BY DEF HandlerIds, Idle

LEMMA HandlerIdsStep ==
    ASSUME HandlerIds, handler'.kind = handler.kind,
           handler'.rid = handler.rid, handler'.sigs = handler.sigs
    PROVE  HandlerIds'
BY DEF HandlerIds

LEMMA HandlerIdsSignalled ==
    ASSUME TypeOK, HandlerIds, NEW kind \in {"grant", "approval"},
           NEW rid \in RequestIds, kind = "grant" <=> rid[2] = 0,
           handler' = Signalled(kind, rid)
    PROVE  HandlerIds'
<1>1. CASE handler.kind = "call" /\ handler.sub
  <2> DEFINE sig == [kind |-> kind, rid |-> rid]
  <2>1. handler \in Handlers
    BY <1>1, RunningHandler
  <2>2. handler' = [handler EXCEPT !.sigs = Append(@, sig)]
    BY <1>1 DEF Signalled
  <2>3. /\ handler'.kind = "call"
        /\ handler'.sigs = Append(handler.sigs, sig)
    BY <1>1, <2>1, <2>2 DEF Handlers
  <2>4. handler.sigs \in Seq([kind : {"grant", "approval"}, rid : RequestIds])
    BY <2>1 DEF Handlers
  <2>5. sig \in [kind : {"grant", "approval"}, rid : RequestIds]
    OBVIOUS
  <2>6. sig.kind = "grant" <=> sig.rid[2] = 0
    OBVIOUS
  <2> HIDE DEF sig
  <2>7. ASSUME NEW i \in DOMAIN handler'.sigs
        PROVE  \/ handler'.sigs[i] = sig
               \/ i \in DOMAIN handler.sigs /\ handler'.sigs[i] = handler.sigs[i]
    BY <2>3, <2>4, <2>5
  <2> QED
    BY <1>1, <2>3, <2>6, <2>7 DEF HandlerIds
<1>2. CASE ~(handler.kind = "call" /\ handler.sub)
  BY <1>2 DEF Signalled, HandlerIds
<1> QED
  BY <1>1, <1>2

\* What a step must leave alone for the rest of the invariant: prompts, requests
\* and decisions at most go away, and the calls they name keep their tools.
LEMMA GrantKept ==
    ASSUME TypeOK, GrantInv, HandlerIds',
           UNCHANGED <<record, call>>, wanted \subseteq wanted',
           granted' = granted,
           \A m \in prompts' \cup inbox' :
               m.kind \in {"grant", "approval"} => m \in prompts \cup inbox,
           \A m \in inbox' : m.kind = "grant" => m \in inbox,
           decisions' \subseteq decisions
    PROVE  GrantInv'
BY DEF GrantInv, GateIds, HandlerIds, GrantsNameTheirCall, YesIsWanted,
       GrantsAreWanted, GrantTarget

LEMMA GrantNext == TypeOK /\ GrantInv /\ [Next]_vars => GrantInv'
<1> SUFFICES ASSUME TypeOK, GrantInv, [Next]_vars PROVE GrantInv'
  OBVIOUS
<1> USE DEF kvVars, kernelVars, shimVars, userVars
<1>1. HandlerIds
  BY DEF GrantInv, GateIds, HandlerIds
<1>2. handler.kind # "idle" =>
          handler \in Handlers /\ handler.call \in Calls /\ handler.at \in 1..3
  BY RunningHandler, ScriptLength DEF Handlers
<1>3. ASSUME NEW c \in Calls, HandleCall(c) PROVE GrantInv'
  <2>1. PICK f : AskConsent(c, f) \/ RejectCall(c) \/ StartDispatch(c, f)
    BY <1>3 DEF HandleCall
  <2>2. HandlerIds'
    BY <1>3, <2>1, HandlerIdsIdle
       DEF HandleCall, AskConsent, RejectCall, StartDispatch, Begin, HandlerIds
  <2>3. \A m \in prompts' : m \in prompts \/ m.kind = "ingress"
    <3>1. \/ UNCHANGED prompts
          \/ prompts' = prompts \cup {IngressPrompt(call[c].src)}
      BY <2>1 DEF AskConsent, RejectCall, StartDispatch
    <3>2. IngressPrompt(call[c].src).kind = "ingress"
      BY DEF IngressPrompt
    <3> QED
      BY <3>1, <3>2, Zenon
  <2>4. UNCHANGED <<record, call, wanted, granted, decisions>> /\ inbox' \subseteq inbox
    BY <1>3, <2>1 DEF HandleCall, AskConsent, RejectCall, StartDispatch
  <2> QED
    BY <2>2, <2>3, <2>4, GrantKept
<1>4. ASSUME NEW m \in inbox, HandleIngress(m) PROVE GrantInv'
  <2>1. HandlerIds'
    BY <1>1, <1>4 DEF HandleIngress, HandlerIds
  <2> QED
    BY <1>4, <2>1, GrantKept DEF HandleIngress
<1>5. ASSUME NEW m \in inbox, HandleApproval(m) PROVE GrantInv'
  <2>1. m.rid[2] # 0
    BY <1>5 DEF HandleApproval, GrantInv, GateIds, HandlerIds
  <2>2. HandlerIds'
    BY <1>5, <2>1 DEF HandleApproval, Begin, HandlerIds
  <2> QED
    BY <1>5, <2>2, GrantKept DEF HandleApproval
<1>6. ASSUME NEW m \in inbox, HandleGrant(m) PROVE GrantInv'
  <2>1. /\ m.kind = "grant" /\ inbox' = inbox \ {m}
        /\ UNCHANGED <<handler, prompts, call, wanted, granted>>
    BY <1>6 DEF HandleGrant
  <2>2. /\ m.rid \in RequestIds /\ m.capsule \in Capsules /\ m.yes \in BOOLEAN
        /\ m.capsule = GrantTarget(m.rid)
        /\ m.yes => m.capsule \in wanted
    BY <2>1, RequestParts DEF TypeOK, GrantInv, GrantsNameTheirCall, YesIsWanted
  <2>3. /\ \A k \in Capsules : record'[k] = "approve" => k \in wanted
        /\ \A d \in decisions' : d \in decisions \/ (d.rid = m.rid /\ (d.yes => m.yes))
    <3>1. PICK f : LET yes   == Verdict(m, f)
                       new   == RespondDecisionToRecord(yes)
                       saved == /\ IsIngressTrusted(m.src, f)
                                /\ new # "none" /\ f # "recordWrite"
                   IN  /\ record' = IF saved
                                    THEN [record EXCEPT ![m.capsule] = new]
                                    ELSE record
                       /\ decisions' = IF f = "publish" THEN decisions
                            ELSE decisions \cup {[rid |-> m.rid, yes |-> yes]}
      BY <1>6 DEF HandleGrant
    <3> DEFINE yes == Verdict(m, f)
    <3>2. yes => m.yes
      BY DEF Verdict
    <3>3. \/ UNCHANGED record
          \/ record' = [record EXCEPT ![m.capsule] = "approve"] /\ yes
      BY <3>1 DEF RespondDecisionToRecord
    <3>4. \/ UNCHANGED decisions
          \/ decisions' = decisions \cup {[rid |-> m.rid, yes |-> yes]}
      BY <3>1
    <3> HIDE DEF yes
    <3>5. \A k \in Capsules : record'[k] = "approve" => k \in wanted
      BY <2>2, <3>2, <3>3 DEF TypeOK, GrantInv, YesIsWanted
    <3>6. \A d \in decisions' : d \in decisions \/ (d.rid = m.rid /\ (d.yes => m.yes))
      BY <3>2, <3>4
    <3> QED
      BY <3>5, <3>6
  <2>4. GateIds' /\ GrantsNameTheirCall'
    BY <2>1 DEF GrantInv, GateIds, HandlerIds, GrantsNameTheirCall, GrantTarget
  <2>5. YesIsWanted'
    BY <2>1, <2>2, <2>3 DEF GrantInv, YesIsWanted, GrantTarget
  <2> QED
    BY <2>1, <2>4, <2>5 DEF GrantInv, GrantsAreWanted
<1>7. CASE Subscribe
  <2>1. HandlerIds'
    <3>1. PICK f : IF f = "none" \/ handler.kind = "respond"
                   THEN /\ handler' = [handler EXCEPT !.at = @ + 1,
                                         !.sub = f = "none", !.deaf = f # "none"]
                        /\ UNCHANGED reply
                   ELSE Finish(Error)
      BY <1>7 DEF Subscribe
    <3>2. CASE handler' = Idle
      BY <3>2, HandlerIdsIdle
    <3>3. CASE handler' = [handler EXCEPT !.at = @ + 1,
                             !.sub = f = "none", !.deaf = f # "none"]
      BY <1>1, <1>2, <1>7, <3>3, HandlerIdsStep DEF Subscribe, At, Handlers
    <3> QED
      BY <3>1, <3>2, <3>3 DEF Finish
  <2> QED
    BY <1>7, <2>1, GrantKept DEF Subscribe
<1>8. CASE Publish
  <2>1. PICK f : PublishExecute(f) \/ PublishDecision(f)
    BY <1>8 DEF Publish
  <2>2. handler \in Handlers
    BY <1>2, <1>8 DEF Publish, At
  <2>3. CASE PublishExecute(f)
    <3>1. handler' = Idle \/ handler' = [handler EXCEPT !.at = @ + 1]
      BY <2>3 DEF PublishExecute, Finish
    <3>2. HandlerIds'
      BY <1>1, <2>2, <3>1, HandlerIdsIdle, HandlerIdsStep DEF Handlers
    <3> QED
      BY <1>8, <2>3, <3>2, GrantKept DEF Publish, PublishExecute
  <2>4. CASE PublishDecision(f)
    <3>1. /\ handler'.kind = handler.kind /\ handler'.rid = handler.rid
          /\ handler'.sigs = handler.sigs
      BY <2>2, <2>4 DEF PublishDecision, Handlers
    <3>2. HandlerIds'
      BY <1>1, <3>1, HandlerIdsStep
    <3>3. \A d \in decisions' : d \in decisions \/ d.rid[2] # 0
      BY <1>1, <2>4 DEF PublishDecision, HandlerIds
    <3>4. UNCHANGED <<record, call, wanted, granted, prompts, inbox>>
      BY <1>8 DEF Publish
    <3>5. GateIds' /\ GrantsNameTheirCall'
      BY <3>2, <3>4 DEF GrantInv, GateIds, HandlerIds, GrantsNameTheirCall, GrantTarget
    <3>6. YesIsWanted'
      BY <3>3, <3>4 DEF GrantInv, YesIsWanted, GrantTarget
    <3> QED
      BY <3>4, <3>5, <3>6 DEF GrantInv, GrantsAreWanted
  <2> QED
    BY <2>1, <2>3, <2>4
<1>9. CASE TakeResult \/ CloseWindow
  <2>1. HandlerIds'
    BY <1>9, HandlerIdsIdle DEF TakeResult, CloseWindow, Finish
  <2> QED
    BY <1>9, <2>1, GrantKept DEF TakeResult, CloseWindow
<1>10. CASE TakeSignal
  <2>1. handler \in Handlers /\ handler.kind # "idle" /\ handler.sigs # <<>>
    BY <1>2, <1>10 DEF TakeSignal, At
  <2>2. Signal.rid \in RequestIds /\ Gated \in Capsules /\ Gated = GrantTarget(Signal.rid)
    BY <2>1, SignalType, GatedType DEF Gated, GrantTarget
  <2>3. Signal.kind = "grant" <=> Signal.rid[2] = 0
    <3>1. PICK i \in DOMAIN handler.sigs : Signal = handler.sigs[i]
      BY <2>1, SignalIsHeld
    <3> QED
      BY <1>1, <2>1, <3>1 DEF HandlerIds
  <2>4. UNCHANGED <<inbox, record, call, wanted, granted>>
    BY <1>10 DEF TakeSignal, SurfaceApproval, SurfaceGrant, AutoDecide, Dedup, AskGrant
  <2>5. HandlerIds'
    BY <1>10, HandlerIdsIdle
       DEF TakeSignal, SurfaceApproval, SurfaceGrant, AutoDecide, Dedup, AskGrant, Finish
  <2>6. CASE SurfaceApproval
    <3> DEFINE p == ApprovalPrompt(Signal.rid, handler.call)
    <3>1. p.kind = "approval" /\ p.rid[2] # 0
      BY <2>3, <2>6 DEF SurfaceApproval, ApprovalPrompt
    <3>2. prompts' = prompts \cup {p} /\ UNCHANGED decisions
      BY <2>6 DEF SurfaceApproval
    <3> HIDE DEF p
    <3> QED
      BY <2>4, <2>5, <3>1, <3>2 DEF GrantInv, GateIds, HandlerIds,
         GrantsNameTheirCall, YesIsWanted, GrantsAreWanted, GrantTarget
  <2>7. CASE SurfaceGrant
    <3>1. PICK f : AutoDecide(f) \/ Dedup(f) \/ AskGrant(f)
      BY <2>7 DEF SurfaceGrant
    <3>2. CASE AutoDecide(f)
      <4> DEFINE yes == record[Gated] = "approve"
      <4>1. /\ UNCHANGED prompts
            /\ \/ UNCHANGED decisions
               \/ decisions' = decisions \cup {[rid |-> Signal.rid, yes |-> yes]}
        BY <3>2 DEF AutoDecide
      <4>2. yes => GrantTarget(Signal.rid) \in wanted
        BY <2>2 DEF GrantInv, YesIsWanted
      <4> HIDE DEF yes
      <4>3. GateIds' /\ GrantsNameTheirCall'
        BY <2>4, <2>5, <4>1
           DEF GrantInv, GateIds, HandlerIds, GrantsNameTheirCall, GrantTarget
      <4>4. YesIsWanted'
        BY <2>4, <4>1, <4>2 DEF GrantInv, YesIsWanted, GrantTarget
      <4> QED
        BY <2>4, <4>3, <4>4 DEF GrantInv, GrantsAreWanted
    <3>3. CASE Dedup(f)
      BY <2>4, <2>5, <3>3, GrantKept DEF Dedup
    <3>4. CASE AskGrant(f)
      <4> DEFINE p == GrantPrompt(Signal.rid, Gated)
      <4>1. p.kind = "grant" /\ p.rid[2] = 0 /\ p.capsule = GrantTarget(p.rid)
        BY <2>2, <2>3, <2>7 DEF SurfaceGrant, GrantPrompt
      <4>2. prompts' = prompts \cup {p} /\ UNCHANGED decisions
        BY <3>4 DEF AskGrant
      <4> HIDE DEF p
      <4> QED
        BY <2>4, <2>5, <4>1, <4>2 DEF GrantInv, GateIds, HandlerIds,
           GrantsNameTheirCall, YesIsWanted, GrantsAreWanted, GrantTarget
    <3> QED
      BY <3>1, <3>2, <3>3, <3>4
  <2> QED
    BY <1>10, <2>6, <2>7 DEF TakeSignal
<1>11. ASSUME NEW c \in Calls, Admit(c) \/ Unrouted(c) \/ ParkExpires(c) \/ ExpireGrant(c)
       PROVE  GrantInv'
  BY <1>1, <1>11, HandlerIdsStep, GrantKept DEF Admit, Unrouted, ParkExpires, ExpireGrant
<1>12. ASSUME NEW c \in Calls, Refuse(c) PROVE GrantInv'
  <2>1. GateId(c) \in RequestIds /\ GateId(c)[2] = 0
    BY GateIdType DEF GateId
  <2>2. HandlerIds'
    BY <1>1, <1>12, <2>1, HandlerIdsSignalled DEF Refuse
  <2> QED
    BY <1>12, <2>2, GrantKept DEF Refuse
<1>13. ASSUME NEW c \in Calls, AskApproval(c) PROVE GrantInv'
  <2> DEFINE rid == <<c, run[c].asks + 1>>
  <2>1. run[c].asks + 1 \in 0..MaxAsks /\ run[c].asks + 1 # 0
    BY <1>13, ConstantsAssumption DEF AskApproval, TypeOK
  <2>2. rid \in RequestIds /\ rid[2] # 0
    BY <2>1 DEF RequestIds
  <2>3. handler' = Signalled("approval", rid)
    BY <1>13 DEF AskApproval
  <2> HIDE DEF rid
  <2>4. HandlerIds'
    BY <1>1, <2>2, <2>3, HandlerIdsSignalled
  <2> QED
    BY <1>13, <2>4, GrantKept DEF AskApproval
<1>14. ASSUME NEW c \in Calls, Return(c) PROVE GrantInv'
  <2>1. HandlerIds'
    <3>1. \/ handler' = handler
          \/ /\ handler.kind # "idle"
             /\ handler' = [handler EXCEPT !.res = @ \cup {c}]
      BY <1>14 DEF Return, Resulted
    <3> QED
      BY <1>1, <1>2, <3>1, HandlerIdsStep DEF Handlers
  <2> QED
    BY <1>14, <2>1, GrantKept DEF Return
<1>15. ASSUME NEW d \in decisions, Decide(d) PROVE GrantInv'
  <2>1. /\ decisions' \subseteq decisions
        /\ UNCHANGED <<handler, inbox, prompts, call, record, wanted>>
    BY <1>15 DEF Decide
  <2>2. granted' \subseteq wanted
    BY <1>15 DEF Decide, GrantInv, YesIsWanted, GrantsAreWanted, GrantTarget
  <2> QED
    BY <2>1, <2>2 DEF GrantInv, GateIds, HandlerIds, GrantsNameTheirCall, YesIsWanted,
       GrantsAreWanted, GrantTarget
<1>16. ASSUME NEW c \in Calls, NEW t, NEW s, Submit(c, t, s) PROVE GrantInv'
  <2> DEFINE new == [kind |-> "call", call |-> c]
  <2>1. new.kind = "call"
    OBVIOUS
  <2>2. /\ call' = [call EXCEPT ![c] = [tool |-> t, src |-> s]]
        /\ inbox' = inbox \cup {new}
        /\ UNCHANGED <<handler, prompts, decisions, granted, record, wanted>>
    BY <1>16 DEF Submit
  <2>3. /\ \A m \in prompts \cup inbox : m.kind = "grant" => m.rid[1] # c
        /\ \A d \in decisions : d.rid[1] # c
    BY <1>16 DEF Submit, Used
  <2> HIDE DEF new
  <2>4. ASSUME NEW r \in Calls, r # c PROVE call'[r] = call[r]
    BY <2>2, <2>4 DEF TypeOK
  <2>5. \A m \in prompts \cup inbox : m.kind = "grant" =>
            m.rid[1] \in Calls /\ GrantTarget(m.rid)' = GrantTarget(m.rid)
    <3> SUFFICES ASSUME NEW m \in prompts \cup inbox, m.kind = "grant"
                 PROVE  m.rid[1] \in Calls /\ GrantTarget(m.rid)' = GrantTarget(m.rid)
      OBVIOUS
    <3>1. m.rid \in RequestIds
      BY RequestParts, PromptParts DEF TypeOK
    <3> QED
      BY <2>3, <2>4, <3>1, RequestIdParts DEF GrantTarget
  <2>6. \A d \in decisions : GrantTarget(d.rid)' = GrantTarget(d.rid)
    <3> SUFFICES ASSUME NEW d \in decisions
                 PROVE  GrantTarget(d.rid)' = GrantTarget(d.rid)
      OBVIOUS
    <3>1. d.rid \in RequestIds
      BY DEF TypeOK
    <3> QED
      BY <2>3, <2>4, <3>1, RequestIdParts DEF GrantTarget
  <2>7. GateIds'
    BY <2>1, <2>2 DEF GrantInv, GateIds, HandlerIds
  <2>8. GrantsNameTheirCall'
    BY <2>1, <2>2, <2>5 DEF GrantInv, GrantsNameTheirCall
  <2>9. YesIsWanted'
    BY <2>1, <2>2, <2>6 DEF GrantInv, YesIsWanted
  <2> QED
    BY <2>2, <2>7, <2>8, <2>9 DEF GrantInv, GrantsAreWanted
<1>17. ASSUME NEW p \in prompts, NEW yes \in BOOLEAN, NEW s \in Sources, Answer(p, yes, s)
       PROVE  GrantInv'
  <2> DEFINE a == AnswerTo(p, yes, s)
  <2>1. /\ prompts' = prompts \ {p} /\ inbox' = inbox \cup {a}
        /\ UNCHANGED <<handler, call, record, granted, decisions>>
        /\ wanted' = IF yes /\ p.kind = "grant"
                     THEN wanted \cup {p.capsule} ELSE wanted
    BY <1>17 DEF Answer, AnswerTo
  <2>2. /\ a.kind = p.kind
        /\ p.kind \in {"grant", "approval"} => a.rid = p.rid
        /\ p.kind = "grant" => a.capsule = p.capsule /\ a.yes = yes
    BY PromptParts DEF AnswerTo, TypeOK
  <2> HIDE DEF a
  <2>3. GateIds' /\ GrantsNameTheirCall'
    BY <2>1, <2>2 DEF GrantInv, GateIds, HandlerIds, GrantsNameTheirCall, GrantTarget
  <2>4. YesIsWanted'
    BY <2>1, <2>2 DEF GrantInv, YesIsWanted, GrantTarget
  <2> QED
    BY <2>1, <2>3, <2>4 DEF GrantInv, GrantsAreWanted
<1>18. ASSUME NEW p \in prompts, Lose(p) PROVE GrantInv'
  BY <1>1, <1>18, HandlerIdsStep, GrantKept DEF Lose
<1>19. ASSUME NEW s \in Sources, StrayAccept(s) PROVE GrantInv'
  <2>1. \A m \in inbox' : m \in inbox \/ m.kind = "ingress"
    BY <1>19 DEF StrayAccept
  <2> QED
    BY <1>1, <1>19, <2>1, HandlerIdsStep, GrantKept DEF StrayAccept
<1>20. ASSUME NEW k \in Capsules, AgeMarker(k) PROVE GrantInv'
  BY <1>1, <1>20, HandlerIdsStep, GrantKept DEF AgeMarker
<1>21. CASE UNCHANGED vars
  BY <1>1, <1>21, HandlerIdsStep, GrantKept DEF vars
<1> QED
  BY <1>3, <1>4, <1>5, <1>6, <1>7, <1>8, <1>9, <1>10, <1>11, <1>12, <1>13, <1>14,
     <1>15, <1>16, <1>17, <1>18, <1>19, <1>20, <1>21
     DEF Next, Broker, Kernel, Tool, Client

\* The kernel grants a capsule only if the user said yes to it, however late
\* the yes was, whichever call it was replayed for, and whatever fails.
THEOREM GrantsComeFromTheUser == Spec => []GrantsAreWanted
<1>1. GrantInv => GrantsAreWanted
  BY DEF GrantInv
<1> QED
  BY <1>1, GrantInit, GrantNext, TypeCorrect, PTL DEF Spec

-----------------------------------------------------------------------------
(* Approvals *)

\* The tool's run has raised this request; it is blocked on it.  Request id 0,
\* the access gate's, blocks no tool.
Raised(rid) == rid[2] <= run[rid[1]].asks
Parked(rid) == rid[2] # 0 /\ run[rid[1]].st = "parked" /\ run[rid[1]].asks = rid[2]

\* What the running handler holds: requests raised, and a yes the user gave.
HandlerAsked ==
    /\ handler.kind = "respond" =>
          /\ Raised(handler.rid)
          /\ handler.yes /\ Parked(handler.rid) => handler.rid \in allowed
    /\ handler.kind # "idle" =>
          \A i \in DOMAIN handler.sigs : Raised(handler.sigs[i].rid)

\* No request on its way is one the tool has yet to raise, so a yes can never be
\* waiting for it; and while the tool is blocked on a request, a yes to it is
\* the user's.  A decision that comes second finds the tool gone on.
ApprovalInv ==
    /\ HandlerAsked
    /\ \A m \in prompts \cup inbox : m.kind = "approval" => Raised(m.rid)
    /\ \A m \in inbox : m.kind = "approval" /\ m.yes /\ Parked(m.rid) => m.rid \in allowed
    /\ \A d \in decisions :
          /\ Raised(d.rid)
          /\ d.yes /\ Parked(d.rid) => d.rid \in allowed

LEMMA ApprovalInit == Init => ApprovalInv
BY DEF Init, ApprovalInv, HandlerAsked, Idle

\* A step that raises no request, and blocks and unblocks nobody on one that was
\* raised before without leaving the user's yes in place.
RunKept ==
    \A rid \in RequestIds :
        Raised(rid) => /\ Raised(rid)'
                       /\ Parked(rid)' => Parked(rid)
                       /\ Parked(rid)' /\ rid \in allowed => rid \in allowed'

LEMMA RunUnchanged == ASSUME UNCHANGED run, allowed \subseteq allowed' PROVE RunKept
BY DEF RunKept, Raised, Parked

\* A run that ends up unblocked keeps its requests raised.
LEMMA RunUnblocked ==
    ASSUME TypeOK, NEW c \in Calls, NEW st \in RunStates \ {"parked"},
           NEW denied \in BOOLEAN, UNCHANGED allowed,
           \/ run' = [run EXCEPT ![c].st = st]
           \/ run' = [run EXCEPT ![c].st = st, ![c].denied = denied]
    PROVE  RunKept
<1>1. run'[c].st = st /\ run'[c].asks = run[c].asks
  BY DEF TypeOK
<1>2. \A d \in Calls \ {c} : run'[d] = run[d]
  BY DEF TypeOK
<1> SUFFICES ASSUME NEW rid \in RequestIds, Raised(rid)
             PROVE  /\ Raised(rid)'
                    /\ Parked(rid)' => Parked(rid)
                    /\ Parked(rid)' /\ rid \in allowed => rid \in allowed'
  BY DEF RunKept
<1>3. rid[1] \in Calls
  BY RequestIdParts
<1> QED
  BY <1>1, <1>2, <1>3 DEF Raised, Parked

LEMMA HandlerAskedIdle == ASSUME handler' = Idle PROVE HandlerAsked'
BY DEF HandlerAsked, Idle

\* The request ids of a running handler are request ids.
LEMMA HeldIds ==
    ASSUME TypeOK, handler.kind # "idle"
    PROVE  /\ handler.rid \in RequestIds
           /\ \A i \in DOMAIN handler.sigs : handler.sigs[i].rid \in RequestIds
<1>1. handler \in Handlers
  BY RunningHandler
<1>2. handler.sigs \in Seq([kind : {"grant", "approval"}, rid : RequestIds])
  BY <1>1 DEF Handlers
<1>3. ASSUME NEW i \in DOMAIN handler.sigs PROVE handler.sigs[i].rid \in RequestIds
  <2>1. i \in 1..Len(handler.sigs)
    BY <1>2
  <2>2. handler.sigs[i] \in [kind : {"grant", "approval"}, rid : RequestIds]
    BY <1>2, <2>1, ElementOfSeq
  <2> QED
    BY <2>2
<1> QED
  BY <1>1, <1>3 DEF Handlers

LEMMA HandlerAskedStep ==
    ASSUME TypeOK, HandlerAsked, RunKept, handler'.kind = handler.kind,
           handler'.rid = handler.rid, handler'.sigs = handler.sigs,
           handler'.yes = handler.yes
    PROVE  HandlerAsked'
BY HeldIds DEF HandlerAsked, RunKept, Raised, Parked

\* The running handler raises the request it is sent.
LEMMA HandlerAskedSignalled ==
    ASSUME TypeOK, HandlerAsked, RunKept, NEW kind \in {"grant", "approval"},
           NEW rid \in RequestIds, Raised(rid)', handler' = Signalled(kind, rid)
    PROVE  HandlerAsked'
<1>1. CASE handler.kind = "call" /\ handler.sub
  <2> DEFINE sig == [kind |-> kind, rid |-> rid]
             Sigs == [kind : {"grant", "approval"}, rid : RequestIds]
  <2>1. handler \in Handlers
    BY <1>1, RunningHandler
  <2>2. handler' = [handler EXCEPT !.sigs = Append(@, sig)]
    BY <1>1 DEF Signalled
  <2>3. handler'.kind = "call" /\ handler'.sigs = Append(handler.sigs, sig)
    BY <1>1, <2>1, <2>2 DEF Handlers
  <2>4. handler.sigs \in Seq(Sigs) /\ sig \in Sigs /\ sig.rid = rid
    BY <2>1 DEF Handlers
  <2> HIDE DEF sig, Sigs
  <2>5. ASSUME NEW i \in DOMAIN handler'.sigs
        PROVE  handler'.sigs[i].rid[2] <= run'[handler'.sigs[i].rid[1]].asks
    <3>1. \/ handler'.sigs[i] = sig
          \/ i \in DOMAIN handler.sigs /\ handler'.sigs[i] = handler.sigs[i]
      BY <2>3, <2>4
    <3>2. CASE i \in DOMAIN handler.sigs /\ handler'.sigs[i] = handler.sigs[i]
      <4>1. handler.sigs[i] \in Sigs
        <5>1. i \in 1..Len(handler.sigs)
          BY <2>4, <3>2
        <5> QED
          BY <2>4, <5>1, ElementOfSeq
      <4>2. handler.sigs[i].rid \in RequestIds
        BY <4>1 DEF Sigs
      <4>3. Raised(handler.sigs[i].rid)
        BY <1>1, <3>2 DEF HandlerAsked
      <4> QED
        BY <3>2, <4>2, <4>3 DEF RunKept, Raised
    <3> QED
      BY <2>4, <3>1, <3>2 DEF Raised
  <2> QED
    BY <2>3, <2>5 DEF HandlerAsked, Raised
<1>2. CASE ~(handler.kind = "call" /\ handler.sub)
  BY <1>2, HandlerAskedStep DEF Signalled
<1> QED
  BY <1>1, <1>2

LEMMA ApprovalKept ==
    ASSUME TypeOK, ApprovalInv, HandlerAsked', RunKept,
           \A m \in prompts' \cup inbox' : m.kind = "approval" => m \in prompts \cup inbox,
           \A m \in inbox' : m.kind = "approval" => m \in inbox,
           decisions' \subseteq decisions
    PROVE  ApprovalInv'
<1>1. \A m \in prompts \cup inbox : m.kind = "approval" => m.rid \in RequestIds
  BY RequestParts, PromptParts DEF TypeOK
<1>2. \A d \in decisions : d.rid \in RequestIds
  BY DEF TypeOK
<1>3. \A m \in prompts' \cup inbox' : m.kind = "approval" => Raised(m.rid)'
  BY <1>1 DEF ApprovalInv, RunKept, Raised
<1>4. \A m \in inbox' : m.kind = "approval" /\ m.yes /\ Parked(m.rid)' => m.rid \in allowed'
  BY <1>1 DEF ApprovalInv, RunKept, Raised, Parked
<1>5. \A d \in decisions' :
         /\ Raised(d.rid)'
         /\ d.yes /\ Parked(d.rid)' => d.rid \in allowed'
  BY <1>2 DEF ApprovalInv, RunKept, Raised, Parked
<1> QED
  BY <1>3, <1>4, <1>5 DEF ApprovalInv, Raised, Parked

LEMMA ApprovalNext == TypeOK /\ GrantInv /\ ApprovalInv /\ [Next]_vars => ApprovalInv'
<1> SUFFICES ASSUME TypeOK, GrantInv, ApprovalInv, [Next]_vars PROVE ApprovalInv'
  OBVIOUS
<1> USE DEF kvVars, kernelVars, shimVars, userVars
<1>1. HandlerAsked
  BY DEF ApprovalInv
<1>2. handler.kind # "idle" =>
          handler \in Handlers /\ handler.call \in Calls /\ handler.at \in 1..3
  BY RunningHandler, ScriptLength DEF Handlers
<1>3. \A c \in Calls : run[c].asks \in Nat
  BY ConstantsAssumption DEF TypeOK
<1>4. ASSUME NEW c \in Calls, HandleCall(c) PROVE ApprovalInv'
  <2>1. PICK f : AskConsent(c, f) \/ RejectCall(c) \/ StartDispatch(c, f)
    BY <1>4 DEF HandleCall
  <2>2. HandlerAsked'
    BY <1>4, <2>1, HandlerAskedIdle
       DEF HandleCall, AskConsent, RejectCall, StartDispatch, Begin, HandlerAsked
  <2>3. \A m \in prompts' : m \in prompts \/ m.kind = "ingress"
    <3>1. \/ UNCHANGED prompts
          \/ prompts' = prompts \cup {IngressPrompt(call[c].src)}
      BY <2>1 DEF AskConsent, RejectCall, StartDispatch
    <3>2. IngressPrompt(call[c].src).kind = "ingress"
      BY DEF IngressPrompt
    <3> QED
      BY <3>1, <3>2, Zenon
  <2>4. UNCHANGED <<run, allowed, decisions>> /\ inbox' \subseteq inbox
    BY <1>4, <2>1 DEF HandleCall, AskConsent, RejectCall, StartDispatch
  <2> QED
    BY <2>2, <2>3, <2>4, RunUnchanged, ApprovalKept
<1>5. ASSUME NEW m \in inbox, HandleIngress(m) PROVE ApprovalInv'
  <2>1. HandlerAsked'
    BY <1>1, <1>5, RunUnchanged, HandlerAskedStep DEF HandleIngress
  <2> QED
    BY <1>5, <2>1, RunUnchanged, ApprovalKept DEF HandleIngress
<1>6. ASSUME NEW m \in inbox, HandleApproval(m) PROVE ApprovalInv'
  <2>1. PICK f : handler' = Begin("respond", m.call, call[m.call].tool, m.rid, Verdict(m, f))
    BY <1>6 DEF HandleApproval
  <2>2. /\ m.kind = "approval" /\ inbox' = inbox \ {m}
        /\ UNCHANGED <<prompts, decisions, run, allowed>>
    BY <1>6 DEF HandleApproval
  <2>3. Raised(m.rid) /\ (m.yes /\ Parked(m.rid) => m.rid \in allowed)
    BY <2>2 DEF ApprovalInv
  <2> DEFINE yes == Verdict(m, f)
  <2>4. yes => m.yes
    BY DEF Verdict
  <2>5. /\ handler'.kind = "respond" /\ handler'.rid = m.rid
        /\ handler'.yes = yes /\ handler'.sigs = <<>>
    BY <2>1 DEF Begin
  <2> HIDE DEF yes
  <2>6. HandlerAsked'
    BY <2>2, <2>3, <2>4, <2>5 DEF HandlerAsked, Raised, Parked
  <2> QED
    BY <2>2, <2>6, RunUnchanged, ApprovalKept
<1>7. ASSUME NEW m \in inbox, HandleGrant(m) PROVE ApprovalInv'
  <2>1. /\ m.kind = "grant" /\ inbox' = inbox \ {m}
        /\ UNCHANGED <<handler, prompts, run, allowed>>
    BY <1>7 DEF HandleGrant
  <2>2. m.rid \in RequestIds /\ m.rid[2] = 0 /\ m.rid[1] \in Calls
    BY <2>1, RequestParts, RequestIdParts DEF TypeOK, GrantInv, GateIds, HandlerIds
  <2>3. \A d \in decisions' : d \in decisions \/ d.rid = m.rid
    BY <1>7 DEF HandleGrant
  <2>4. Raised(m.rid) /\ ~Parked(m.rid)
    BY <1>3, <2>2 DEF Raised, Parked
  <2> QED
    BY <2>1, <2>3, <2>4 DEF ApprovalInv, HandlerAsked, Raised, Parked
<1>8. CASE Subscribe
  <2>1. UNCHANGED <<inbox, prompts, decisions, run, allowed>>
    BY <1>8 DEF Subscribe
  <2>2. HandlerAsked'
    <3>1. PICK f : IF f = "none" \/ handler.kind = "respond"
                   THEN /\ handler' = [handler EXCEPT !.at = @ + 1,
                                         !.sub = f = "none", !.deaf = f # "none"]
                        /\ UNCHANGED reply
                   ELSE Finish(Error)
      BY <1>8 DEF Subscribe
    <3>2. CASE handler' = Idle
      BY <3>2, HandlerAskedIdle
    <3>3. CASE handler' = [handler EXCEPT !.at = @ + 1,
                             !.sub = f = "none", !.deaf = f # "none"]
      <4>1. /\ handler'.kind = handler.kind /\ handler'.rid = handler.rid
            /\ handler'.sigs = handler.sigs /\ handler'.yes = handler.yes
        BY <1>2, <1>8, <3>3 DEF Subscribe, At, Handlers
      <4> QED
        BY <1>1, <2>1, <4>1, RunUnchanged, HandlerAskedStep
    <3> QED
      BY <3>1, <3>2, <3>3 DEF Finish
  <2> QED
    BY <2>1, <2>2, RunUnchanged, ApprovalKept
<1>9. CASE Publish
  <2>1. PICK f : PublishExecute(f) \/ PublishDecision(f)
    BY <1>9 DEF Publish
  <2>2. handler \in Handlers /\ handler.call \in Calls
    BY <1>2, <1>9 DEF Publish, At
  <2>3. UNCHANGED <<inbox, prompts, allowed>>
    BY <1>9 DEF Publish
  <2>4. CASE PublishExecute(f)
    <3>1. RunKept
      <4>1. UNCHANGED run \/ run' = [run EXCEPT ![handler.call].st = "sent"]
        BY <2>4 DEF PublishExecute
      <4>2. "sent" \in RunStates \ {"parked"} /\ TRUE \in BOOLEAN
        BY DEF RunStates
      <4> QED
        BY <2>2, <2>3, <4>1, <4>2, RunUnchanged, RunUnblocked
    <3>2. CASE handler' = Idle
      BY <2>3, <2>4, <3>1, <3>2, HandlerAskedIdle, ApprovalKept DEF PublishExecute
    <3>3. CASE handler' = [handler EXCEPT !.at = @ + 1]
      <4>1. /\ handler'.kind = handler.kind /\ handler'.rid = handler.rid
            /\ handler'.sigs = handler.sigs /\ handler'.yes = handler.yes
        BY <2>2, <3>3 DEF Handlers
      <4> QED
        BY <1>1, <2>3, <2>4, <3>1, <4>1, HandlerAskedStep, ApprovalKept DEF PublishExecute
    <3> QED
      BY <2>4, <3>2, <3>3 DEF PublishExecute, Finish
  <2>5. CASE PublishDecision(f)
    <3>1. /\ handler'.kind = handler.kind /\ handler'.rid = handler.rid
          /\ handler'.sigs = handler.sigs /\ handler'.yes = handler.yes
      BY <2>2, <2>5 DEF PublishDecision, Handlers
    <3>2. UNCHANGED run
      BY <2>5 DEF PublishDecision
    <3>3. HandlerAsked'
      BY <1>1, <2>3, <3>1, <3>2, RunUnchanged, HandlerAskedStep
    <3> DEFINE d == [rid |-> handler.rid, yes |-> handler.yes]
    <3>4. d.rid = handler.rid /\ d.yes = handler.yes
      OBVIOUS
    <3>5. UNCHANGED decisions \/ decisions' = decisions \cup {d}
      BY <2>5 DEF PublishDecision
    <3> HIDE DEF d
    <3>6. Raised(d.rid) /\ (d.yes /\ Parked(d.rid) => d.rid \in allowed)
      BY <2>5, <3>4 DEF PublishDecision, ApprovalInv, HandlerAsked
    <3> QED
      BY <2>3, <3>2, <3>3, <3>5, <3>6 DEF ApprovalInv, Raised, Parked
  <2> QED
    BY <2>1, <2>4, <2>5
<1>10. CASE TakeResult \/ CloseWindow
  <2>1. HandlerAsked'
    BY <1>10, HandlerAskedIdle DEF TakeResult, CloseWindow, Finish
  <2> QED
    BY <1>10, <2>1, RunUnchanged, ApprovalKept DEF TakeResult, CloseWindow
<1>11. CASE TakeSignal
  <2>1. handler \in Handlers /\ handler.kind # "idle" /\ handler.sigs # <<>>
    BY <1>2, <1>11 DEF TakeSignal, At
  <2>2. PICK i \in DOMAIN handler.sigs : Signal = handler.sigs[i]
    BY <2>1, SignalIsHeld
  <2>3. Raised(Signal.rid) /\ (Signal.kind = "grant" => ~Parked(Signal.rid))
    BY <1>1, <2>1, <2>2 DEF HandlerAsked, GrantInv, GateIds, HandlerIds, Parked
  <2>4. UNCHANGED <<inbox, run, allowed>>
    BY <1>11 DEF TakeSignal
  <2>5. HandlerAsked'
    BY <1>11, HandlerAskedIdle
       DEF TakeSignal, SurfaceApproval, SurfaceGrant, AutoDecide, Dedup, AskGrant, Finish
  <2>6. CASE SurfaceApproval
    <3> DEFINE p == ApprovalPrompt(Signal.rid, handler.call)
    <3>1. p.rid = Signal.rid
      BY DEF ApprovalPrompt
    <3>2. prompts' = prompts \cup {p} /\ UNCHANGED decisions
      BY <2>6 DEF SurfaceApproval
    <3> HIDE DEF p
    <3> QED
      BY <2>3, <2>4, <2>5, <3>1, <3>2 DEF ApprovalInv, Raised, Parked
  <2>7. CASE SurfaceGrant
    <3>1. PICK f : AutoDecide(f) \/ Dedup(f) \/ AskGrant(f)
      BY <2>7 DEF SurfaceGrant
    <3>2. CASE AutoDecide(f)
      <4>1. UNCHANGED prompts /\ \A d \in decisions' : d \in decisions \/ d.rid = Signal.rid
        BY <3>2 DEF AutoDecide
      <4> QED
        BY <2>3, <2>4, <2>5, <2>7, <4>1 DEF SurfaceGrant, ApprovalInv, Raised, Parked
    <3>3. CASE Dedup(f)
      BY <2>4, <2>5, <3>3, RunUnchanged, ApprovalKept DEF Dedup
    <3>4. CASE AskGrant(f)
      <4> DEFINE p == GrantPrompt(Signal.rid, Gated)
      <4>1. p.kind = "grant"
        BY DEF GrantPrompt
      <4>2. prompts' = prompts \cup {p} /\ UNCHANGED decisions
        BY <3>4 DEF AskGrant
      <4> HIDE DEF p
      <4> QED
        BY <2>4, <2>5, <4>1, <4>2, RunUnchanged, ApprovalKept
    <3> QED
      BY <3>1, <3>2, <3>3, <3>4
  <2> QED
    BY <1>11, <2>6, <2>7 DEF TakeSignal
<1>12. ASSUME NEW c \in Calls, Admit(c) \/ Unrouted(c) \/ ParkExpires(c) PROVE ApprovalInv'
  <2>1. {"running", "dropped"} \subseteq RunStates \ {"parked"}
    BY DEF RunStates
  <2>2. RunKept
    <3> DEFINE denied == ~FALSE
    <3>1. denied \in BOOLEAN /\ UNCHANGED allowed
      BY <1>12 DEF Admit, Unrouted, ParkExpires
    <3>2. \/ run' = [run EXCEPT ![c].st = "running"]
          \/ run' = [run EXCEPT ![c].st = "dropped"]
          \/ run' = [run EXCEPT ![c].st = "running", ![c].denied = denied]
      BY <1>12 DEF Admit, Unrouted, ParkExpires, Resume
    <3> HIDE DEF denied
    <3> QED
      BY <2>1, <3>1, <3>2, RunUnblocked
  <2>3. HandlerAsked'
    BY <1>1, <1>12, <2>2, HandlerAskedStep DEF Admit, Unrouted, ParkExpires
  <2> QED
    BY <1>12, <2>2, <2>3, ApprovalKept DEF Admit, Unrouted, ParkExpires
<1>13. ASSUME NEW c \in Calls, Refuse(c) PROVE ApprovalInv'
  <2>1. "dropped" \in RunStates \ {"parked"} /\ TRUE \in BOOLEAN
    BY DEF RunStates
  <2>2. RunKept
    BY <1>13, <2>1, RunUnblocked DEF Refuse
  <2>3. Raised(GateId(c))'
    BY <1>3, <1>13 DEF Refuse, Raised, GateId, TypeOK
  <2>4. HandlerAsked'
    BY <1>1, <1>13, <2>2, <2>3, GateIdType, HandlerAskedSignalled DEF Refuse
  <2> QED
    BY <1>13, <2>2, <2>4, ApprovalKept DEF Refuse
<1>14. ASSUME NEW c \in Calls, AskApproval(c) PROVE ApprovalInv'
  <2>1. run[c].asks \in Nat /\ run[c].asks + 1 \in 0..MaxAsks
    BY <1>14, ConstantsAssumption DEF AskApproval, TypeOK
  <2>2. /\ run'[c].asks = run[c].asks + 1
        /\ \A b \in Calls \ {c} : run'[b] = run[b]
        /\ UNCHANGED <<allowed, prompts, inbox, decisions>>
    BY <1>14 DEF AskApproval, TypeOK
  <2>3. RunKept
    <3> SUFFICES ASSUME NEW r \in RequestIds, Raised(r)
                 PROVE  Raised(r)' /\ (Parked(r)' => Parked(r))
      BY <2>2 DEF RunKept
    <3>1. r[1] \in Calls /\ r[2] \in Nat
      BY RequestIdParts
    <3> QED
      BY <1>3, <2>1, <2>2, <3>1 DEF Raised, Parked
  <2>4. PICK rid \in RequestIds : rid = <<c, run[c].asks + 1>>
    BY <2>1 DEF RequestIds
  <2>5. handler' = Signalled("approval", rid) /\ Raised(rid)'
    BY <1>14, <2>1, <2>2, <2>4 DEF AskApproval, Raised
  <2>6. HandlerAsked'
    BY <1>1, <2>3, <2>5, HandlerAskedSignalled
  <2> QED
    BY <2>2, <2>3, <2>6, ApprovalKept
<1>15. ASSUME NEW c \in Calls, Return(c) PROVE ApprovalInv'
  <2>1. "done" \in RunStates \ {"parked"} /\ TRUE \in BOOLEAN
    BY DEF RunStates
  <2>2. RunKept
    BY <1>15, <2>1, RunUnblocked DEF Return
  <2>3. \/ handler' = handler
        \/ /\ handler.kind # "idle"
           /\ handler' = [handler EXCEPT !.res = @ \cup {c}]
    BY <1>15 DEF Return, Resulted
  <2>4. /\ handler'.kind = handler.kind /\ handler'.rid = handler.rid
        /\ handler'.sigs = handler.sigs /\ handler'.yes = handler.yes
    BY <1>2, <2>3 DEF Handlers
  <2>5. HandlerAsked'
    BY <1>1, <2>2, <2>4, HandlerAskedStep
  <2> QED
    BY <1>15, <2>2, <2>5, ApprovalKept DEF Return
<1>16. ASSUME NEW c \in Calls, ExpireGrant(c) PROVE ApprovalInv'
  <2>1. HandlerAsked'
    BY <1>1, <1>16, RunUnchanged, HandlerAskedStep DEF ExpireGrant
  <2> QED
    BY <1>16, <2>1, RunUnchanged, ApprovalKept DEF ExpireGrant
<1>17. ASSUME NEW d \in decisions, Decide(d) PROVE ApprovalInv'
  <2>1. /\ decisions' \subseteq decisions /\ allowed' = allowed \ {d.rid}
        /\ UNCHANGED <<handler, inbox, prompts>>
    BY <1>17 DEF Decide
  <2>2. d.rid \in RequestIds /\ d.rid[1] \in Calls /\ d.yes \in BOOLEAN
    BY RequestIdParts DEF TypeOK
  <2>3. /\ UNCHANGED run \/ run' = Resume(d.rid[1], d.yes)
        /\ Parked(d.rid) => run' = Resume(d.rid[1], d.yes)
    BY <1>17 DEF Decide, Parked
  <2>4. RunKept
    <3> SUFFICES ASSUME NEW r \in RequestIds, Raised(r)
                 PROVE  /\ Raised(r)'
                        /\ Parked(r)' => Parked(r)
                        /\ Parked(r)' /\ r \in allowed => r \in allowed'
      BY DEF RunKept
    <3>1. r[1] \in Calls
      BY RequestIdParts
    <3>2. CASE UNCHANGED run /\ ~Parked(d.rid)
      BY <2>1, <3>2 DEF Raised, Parked
    <3>3. CASE run' = Resume(d.rid[1], d.yes)
      <4>1. run'[d.rid[1]].st = "running" /\ run'[d.rid[1]].asks = run[d.rid[1]].asks
        BY <2>2, <3>3 DEF Resume, TypeOK
      <4>2. \A b \in Calls \ {d.rid[1]} : run'[b] = run[b]
        BY <2>2, <3>3 DEF Resume, TypeOK
      <4> QED
        BY <2>1, <3>1, <4>1, <4>2 DEF Raised, Parked
    <3> QED
      BY <2>3, <3>2, <3>3
  <2>5. HandlerAsked'
    BY <1>1, <2>1, <2>4, HandlerAskedStep
  <2> QED
    BY <2>1, <2>4, <2>5, ApprovalKept
<1>18. ASSUME NEW c \in Calls, NEW t, NEW s, Submit(c, t, s) PROVE ApprovalInv'
  <2> DEFINE new == [kind |-> "call", call |-> c]
  <2>1. new.kind = "call"
    OBVIOUS
  <2>2. /\ run' = [run EXCEPT ![c] = NotRun] /\ inbox' = inbox \cup {new}
        /\ allowed' = {r \in allowed : r[1] # c}
        /\ UNCHANGED <<handler, prompts, decisions>>
    BY <1>18 DEF Submit
  <2>3. /\ \A m \in prompts \cup inbox : m.kind = "approval" => m.rid[1] # c
        /\ \A d \in decisions : d.rid[1] # c
        /\ handler.kind # "idle" =>
              /\ handler.rid[1] # c
              /\ \A i \in DOMAIN handler.sigs : handler.sigs[i].rid[1] # c
    BY <1>18 DEF Submit, Used
  <2> HIDE DEF new
  <2>4. ASSUME NEW r \in RequestIds, r[1] # c
        PROVE  /\ Raised(r) => Raised(r)'
               /\ Parked(r)' => Parked(r)
               /\ r \in allowed => r \in allowed'
    <3>1. r[1] \in Calls
      BY RequestIdParts
    <3> QED
      BY <2>2, <2>4, <3>1 DEF Raised, Parked, TypeOK
  <2>5. \A m \in prompts \cup inbox : m.kind = "approval" => m.rid \in RequestIds
    BY RequestParts, PromptParts DEF TypeOK
  <2>6. \A d \in decisions : d.rid \in RequestIds
    BY DEF TypeOK
  <2>7. handler.kind # "idle" =>
            /\ handler.rid \in RequestIds
            /\ \A i \in DOMAIN handler.sigs : handler.sigs[i].rid \in RequestIds
    BY HeldIds
  <2>8. HandlerAsked'
    BY <1>1, <2>2, <2>3, <2>4, <2>7 DEF HandlerAsked, Raised, Parked
  <2>9. \A m \in prompts' \cup inbox' : m.kind = "approval" => Raised(m.rid)'
    BY <2>1, <2>2, <2>3, <2>4, <2>5 DEF ApprovalInv, Raised
  <2>10. \A m \in inbox' : m.kind = "approval" /\ m.yes /\ Parked(m.rid)' => m.rid \in allowed'
    BY <2>1, <2>2, <2>3, <2>4, <2>5 DEF ApprovalInv, Parked
  <2>11. \A d \in decisions' :
            Raised(d.rid)' /\ (d.yes /\ Parked(d.rid)' => d.rid \in allowed')
    BY <2>2, <2>3, <2>4, <2>6 DEF ApprovalInv, Raised, Parked
  <2> QED
    BY <2>8, <2>9, <2>10, <2>11 DEF ApprovalInv, Raised, Parked
<1>19. ASSUME NEW p \in prompts, NEW yes \in BOOLEAN, NEW s \in Sources, Answer(p, yes, s)
       PROVE  ApprovalInv'
  <2> DEFINE a == AnswerTo(p, yes, s)
  <2>1. /\ prompts' = prompts \ {p} /\ inbox' = inbox \cup {a}
        /\ UNCHANGED <<handler, run, decisions>>
        /\ allowed' = IF yes /\ p.kind = "approval"
                      THEN allowed \cup {p.rid} ELSE allowed
    BY <1>19 DEF Answer, AnswerTo
  <2>2. a.kind = p.kind /\ (p.kind = "approval" => a.rid = p.rid /\ a.yes = yes)
    BY PromptParts DEF AnswerTo, TypeOK
  <2> HIDE DEF a
  <2>3. HandlerAsked'
    BY <1>1, <2>1, RunUnchanged, HandlerAskedStep
  <2> QED
    BY <2>1, <2>2, <2>3 DEF ApprovalInv, Raised, Parked
<1>20. ASSUME NEW p \in prompts, Lose(p) PROVE ApprovalInv'
  <2>1. HandlerAsked'
    BY <1>1, <1>20, RunUnchanged, HandlerAskedStep DEF Lose
  <2> QED
    BY <1>20, <2>1, RunUnchanged, ApprovalKept DEF Lose
<1>21. ASSUME NEW s \in Sources, StrayAccept(s) PROVE ApprovalInv'
  <2>1. \A m \in inbox' : m \in inbox \/ m.kind = "ingress"
    BY <1>21 DEF StrayAccept
  <2>2. HandlerAsked'
    BY <1>1, <1>21, RunUnchanged, HandlerAskedStep DEF StrayAccept
  <2> QED
    BY <1>21, <2>1, <2>2, RunUnchanged, ApprovalKept DEF StrayAccept
<1>22. ASSUME NEW k \in Capsules, AgeMarker(k) PROVE ApprovalInv'
  <2>1. HandlerAsked'
    BY <1>1, <1>22, RunUnchanged, HandlerAskedStep DEF AgeMarker
  <2> QED
    BY <1>22, <2>1, RunUnchanged, ApprovalKept DEF AgeMarker
<1>23. CASE UNCHANGED vars
  <2>1. HandlerAsked'
    BY <1>1, <1>23, RunUnchanged, HandlerAskedStep DEF vars
  <2> QED
    BY <1>23, <2>1, RunUnchanged, ApprovalKept DEF vars
<1> QED
  BY <1>4, <1>5, <1>6, <1>7, <1>8, <1>9, <1>10, <1>11, <1>12, <1>13, <1>14, <1>15,
     <1>16, <1>17, <1>18, <1>19, <1>20, <1>21, <1>22, <1>23
     DEF Next, Broker, Kernel, Tool, Client

\* Only a decision unblocks a tool other than with a deny.
LEMMA OnlyDecisionsResume ==
    ASSUME TypeOK, [Next]_vars, NEW c \in Calls,
           run[c].st = "parked", run'[c].st = "running", ~run'[c].denied
    PROVE  \E d \in decisions : Decide(d) /\ run'[c] # run[c]
<1> USE DEF kvVars, kernelVars, shimVars, userVars
<1>1. run'[c] # run[c]
  OBVIOUS
<1>2. CASE Broker
  <2>1. UNCHANGED run \/ \E f : PublishExecute(f)
    BY <1>2 DEF Broker, HandleCall, HandleIngress, HandleApproval, HandleGrant,
       Subscribe, Publish, PublishDecision, TakeResult, TakeSignal, CloseWindow
  <2>2. UNCHANGED run \/ run' = [run EXCEPT ![handler.call].st = "sent"]
    BY <2>1 DEF PublishExecute
  <2> QED
    BY <1>1, <2>2 DEF TypeOK
<1>3. CASE Kernel
  <2>1. ASSUME NEW b \in Calls, Admit(b) \/ Unrouted(b) \/ Refuse(b) PROVE FALSE
    BY <1>1, <2>1 DEF Admit, Unrouted, Refuse, TypeOK
  <2>2. ASSUME NEW b \in Calls, ParkExpires(b) PROVE FALSE
    BY <1>1, <2>2 DEF ParkExpires, Resume, TypeOK
  <2>3. ASSUME NEW b \in Calls, ExpireGrant(b) PROVE FALSE
    BY <1>1, <2>3 DEF ExpireGrant
  <2> QED
    BY <1>1, <1>3, <2>1, <2>2, <2>3 DEF Kernel
<1>4. CASE Tool
  <2>1. ASSUME NEW b \in Calls, AskApproval(b) \/ Return(b) PROVE FALSE
    <3>1. run[b].st = "running" /\ b # c
      BY <2>1 DEF AskApproval, Return
    <3>2. run'[c] = run[c]
      BY <2>1, <3>1 DEF AskApproval, Return, TypeOK
    <3> QED
      BY <1>1, <3>2
  <2> QED
    BY <1>4, <2>1 DEF Tool
<1>5. CASE Client
  <2>1. ASSUME NEW b \in Calls, NEW t, NEW s, Submit(b, t, s) PROVE FALSE
    <3>1. run[b].st # "parked"
      BY <2>1 DEF Submit, Used
    <3>2. run' = [run EXCEPT ![b] = NotRun]
      BY <2>1 DEF Submit
    <3> QED
      BY <1>1, <3>1, <3>2 DEF TypeOK
  <2> QED
    BY <1>1, <1>5, <2>1 DEF Client, Answer, Lose, StrayAccept, AgeMarker
<1>6. CASE UNCHANGED vars
  BY <1>1, <1>6 DEF vars
<1> QED
  BY <1>2, <1>3, <1>4, <1>5, <1>6 DEF Next

\* A tool blocked on an approval goes on with it only if the user approved that
\* very request: no answer to another request, to a prompt of another call or to
\* a grant, and no answer given twice or late, unblocks it with a yes.
THEOREM ApprovalsAreTheUsers == Spec => ResumedAsDecided
<1> DEFINE Step == \A c \in Calls :
                      run[c].st = "parked" /\ run'[c].st = "running" /\ ~run'[c].denied
                        => <<c, run[c].asks>> \in allowed
<1>1. ASSUME TypeOK, ApprovalInv, [Next]_vars PROVE [Step]_vars
  <2> SUFFICES ASSUME NEW c \in Calls, run[c].st = "parked",
                      run'[c].st = "running", ~run'[c].denied
               PROVE  <<c, run[c].asks>> \in allowed
    OBVIOUS
  <2>1. PICK d \in decisions : Decide(d) /\ run'[c] # run[c]
    BY <1>1, OnlyDecisionsResume
  <2>2. d.rid \in RequestIds /\ d.yes \in BOOLEAN
    BY <1>1 DEF TypeOK
  <2>3. d.rid[1] \in Calls /\ d.rid = <<d.rid[1], d.rid[2]>>
    BY <2>2, RequestIdParts
  <2>4. Parked(d.rid) /\ run' = Resume(d.rid[1], d.yes)
    BY <2>1 DEF Decide, Parked
  <2>5. d.rid[1] = c
    BY <1>1, <2>1, <2>3, <2>4 DEF Resume, TypeOK
  <2>6. d.yes
    <3>1. run'[c].denied = ~d.yes
      BY <1>1, <2>4, <2>5 DEF Resume, TypeOK
    <3> QED
      BY <2>2, <3>1
  <2>7. d.rid \in allowed
    BY <1>1, <2>4, <2>6 DEF ApprovalInv
  <2> QED
    BY <2>3, <2>4, <2>5, <2>7 DEF Parked
<1>2. Spec => []GrantInv
  BY GrantInit, GrantNext, TypeCorrect, PTL DEF Spec
<1>3. Spec => []ApprovalInv
  BY <1>2, ApprovalInit, ApprovalNext, TypeCorrect, PTL DEF Spec
<1> QED
  BY <1>1, <1>3, TypeCorrect, PTL DEF Spec, ResumedAsDecided

=============================================================================
