------------------------------ MODULE McpBroker ------------------------------
(***************************************************************************)
(* The consent bridge of aos-mcp-broker: a client's tool.call, the routed  *)
(* tool's mid-call approval, the kernel's grant-on-use gate, and the three *)
(* *.respond handlers that carry the user's answers back.                  *)
(*                                                                         *)
(* Guest calls of the capsule are serialised (approval.rs:77-89), so one   *)
(* handler runs at a time; a handler that drains a subscription is several *)
(* steps here, between which the kernel, the tools and the shim move.      *)
(* Messages of different topics may be handled in any order.               *)
(*                                                                         *)
(* The kernel's access gate and awaiters, the tools and the shim are       *)
(* external, modelled from what the broker's code relies on.  One          *)
(* principal: KV is scoped per principal.  Payloads that do not parse and  *)
(* ids that cannot form a topic are left out.                              *)
(***************************************************************************)
EXTENDS Naturals, Sequences

CONSTANTS
    Calls,       \* req_ids of tool.call, doubling as call_ids; reused when free
    Sources,     \* kernel-stamped source_ids of ingress capsules
    Tools,       \* tool names
    Capsules,    \* capsules the kernel's access gate knows
    CapsuleOf,   \* the capsule that provides each tool
    Denied,      \* capsules whose decision record starts out as deny
    MaxAsks,     \* bound: approvals one tool run asks for
    MaxFaults,   \* bound: failed host calls in a behaviour
    FaultKinds   \* the host calls that may fail

ASSUME ConstantsAssumption ==
    /\ Tools # {} /\ Sources # {}
    /\ CapsuleOf \in [Tools -> Capsules]
    /\ Denied \subseteq Capsules
    /\ MaxAsks \in Nat /\ MaxFaults \in Nat
    /\ FaultKinds \subseteq {"trustRead", "trustWrite", "ingressMark",
                             "ingressTake", "ingressClear", "recordRead",
                             "recordWrite", "markerRead", "markerWrite",
                             "markerTake", "subscribe", "publish"}

VARIABLES
    \* KV of the broker
    trust,      \* mcp.ingress.trust.*: sources the user consented to
    asked,      \* mcp.ingress.pending.*: sources with a consent prompt out
    marker,     \* mcp.grant.pending.*: "none", or the age of its stamp
    record,     \* mcp.grant.decision.*
    \* the running handler
    handler,
    \* bus, kernel and tools
    inbox,      \* requests the broker has not handled yet
    decisions,  \* approval responses on their way to the kernel
    awaiting,   \* calls refused by the gate whose grant awaiter is alive
    granted,    \* capsules the principal may call
    run,        \* the execution of each call
    \* shim and user
    call,       \* the tool and the ingress of each call
    reply,      \* the last tool.call reply the shim has for it
    prompts,    \* consent prompts open in the client
    \* history
    consented,  \* sources the broker ever raised a consent prompt for
    allowed,    \* approval requests the user said yes to, until decided
    wanted,     \* capsules the user answered yes for
    acked,      \* those whose yes the broker accepted and recorded
    unanswered, \* capsules whose marker lost the answer that would clear it
    faults

kvVars == <<trust, asked, marker, record>>
kernelVars == <<decisions, awaiting, granted>>
shimVars == <<call, reply, prompts>>
userVars == <<consented, allowed, wanted, acked, unanswered>>
vars == <<kvVars, handler, inbox, kernelVars, run, shimVars, userVars, faults>>

-----------------------------------------------------------------------------
\* A request id names the run that raised it; 0 is the access gate's.
RequestIds == Calls \X (0..MaxAsks)
GateId(c) == <<c, 0>>

NotRun == [st |-> "none", asks |-> 0, denied |-> FALSE]
RunStates == {"none", "sent", "dropped", "running", "parked", "done"}

\* A tool.call reply: a prompt for the client to show, "try again", an error,
\* or the tool's result.
NoReply == [kind |-> "none"]
Ask == [kind |-> "ask"]
Retry == [kind |-> "retry"]
Error == [kind |-> "error"]
ResultOf(c) == [kind |-> "result", of |-> c]

\* Seeded bug: the request goes out before anyone listens for its result.
PublishFirst == <<"publish", "subscribe", "drain">>

\* What a handler does once it may act: subscribe before publish.
Script == <<"subscribe", "publish", "drain">>

Idle == [kind |-> "idle"]

\* early: the result was published, unheard, before the decision.
Begin(kind, c, tool, rid, yes) ==
    [kind |-> kind, call |-> c, tool |-> tool, rid |-> rid, yes |-> yes,
     at |-> 1, sub |-> FALSE, deaf |-> FALSE, sigs |-> <<>>, res |-> {},
     early |-> FALSE]

At(step) == handler.kind # "idle" /\ Script[handler.at] = step

\* At most one host call of a handler step fails.
Fault(f) == \/ f = "none" /\ UNCHANGED faults
            \/ f \in FaultKinds /\ faults < MaxFaults /\ faults' = faults + 1

Faults(kinds) == {"none"} \cup (kinds \cap FaultKinds)

IsIngressTrusted(s, f) == s \in trust /\ f # "trustRead"

\* Seeded bug: an accept is honoured without a prompt.
TakeAnyAccept(s, f) == TRUE

\* take_ingress_pending: a failed read is no marker, a failed delete leaves it.
TakeIngressPending(s, f) == s \in asked /\ f # "ingressTake"

\* Seeded bug: the age of the marker is not looked at.
GrantPendingForEver(k, f) == marker[k] # "none" /\ f # "markerRead"

\* A stale stamp, a future one and an unreadable one all read as not pending.
GrantPending(k, f) == marker[k] = "fresh" /\ f # "markerRead"

\* Seeded bug: a trusted ingress is enough.
VerdictOfIngress(m, f) == m.yes \/ IsIngressTrusted(m.src, f)

\* Only a yes from a trusted ingress is an approve; the rest is a deny.
Verdict(m, f) == m.yes /\ IsIngressTrusted(m.src, f)

\* Seeded bugs: the verb is recorded as it came; a deny is recorded as an
\* approve; nothing is recorded.
RecordVerb(yes) == IF yes THEN "approve_always" ELSE "none"
RecordAnyAnswer(yes) == "approve"
RecordNothing(yes) == "none"

\* respond_decision_to_record: a deny records nothing.
RespondDecisionToRecord(yes) == IF yes THEN "approve" ELSE "none"

\* Seeded bug: any result on the tool's topic is the call's.
MatchTopic(r, c) == TRUE

\* match_result: the call_id in the body, since the topic is the tool's.
MatchResult(r, c) == r = c

IngressPrompt(s) == [kind |-> "ingress", src |-> s]
GrantPrompt(rid, k) == [kind |-> "grant", rid |-> rid, capsule |-> k]
ApprovalPrompt(rid, c) == [kind |-> "approval", rid |-> rid, call |-> c]

\* Published while the running handler listens, a message joins its queue.
Signalled(kind, rid) ==
    IF handler.kind = "call" /\ handler.sub
    THEN [handler EXCEPT !.sigs = Append(@, [kind |-> kind, rid |-> rid])]
    ELSE handler

Resulted(c) ==
    IF handler.kind # "idle" /\ handler.sub /\ handler.tool = call[c].tool
    THEN [handler EXCEPT !.res = @ \cup {c}]
    ELSE handler

-----------------------------------------------------------------------------
Init ==
    /\ trust = {} /\ asked = {}
    /\ marker = [k \in Capsules |-> "none"]
    /\ record = [k \in Capsules |-> IF k \in Denied THEN "deny" ELSE "none"]
    /\ handler = Idle
    /\ inbox = {} /\ decisions = {} /\ awaiting = {} /\ granted = {}
    /\ run = [c \in Calls |-> NotRun]
    /\ call = [c \in Calls |-> [tool |-> CHOOSE t \in Tools : TRUE,
                                src |-> CHOOSE s \in Sources : TRUE]]
    /\ reply = [c \in Calls |-> NoReply]
    /\ prompts = {}
    /\ consented = {} /\ allowed = {} /\ wanted = {} /\ acked = {}
    /\ unanswered = {} /\ faults = 0

-----------------------------------------------------------------------------
(* handle_mcp_call up to the dispatch.                                      *)

\* An untrusted ingress: mark the prompt, then ask for consent.
AskConsent(c, f) ==
    /\ ~IsIngressTrusted(call[c].src, f)
    /\ asked' = IF f = "ingressMark" THEN asked ELSE asked \cup {call[c].src}
    /\ reply' = [reply EXCEPT ![c] = Ask]
    /\ prompts' = prompts \cup {IngressPrompt(call[c].src)}
    /\ consented' = consented \cup {call[c].src}
    /\ UNCHANGED <<trust, marker, record, handler, call,
                   allowed, wanted, acked, unanswered>>

\* Seeded bug: a rejected call gets no reply.
RejectSilently(c) == UNCHANGED <<kvVars, handler, shimVars, userVars>>

\* The policy denies the call, or the kernel gives no caller context.
RejectCall(c) ==
    /\ reply' = [reply EXCEPT ![c] = Error]
    /\ UNCHANGED <<kvVars, handler, call, prompts, userVars>>

StartDispatch(c, f) ==
    /\ IsIngressTrusted(call[c].src, f)
    /\ handler' = Begin("call", c, call[c].tool, GateId(c), TRUE)
    /\ UNCHANGED <<kvVars, shimVars, userVars>>

HandleCall(c) ==
    /\ handler = Idle
    /\ [kind |-> "call", call |-> c] \in inbox
    /\ inbox' = inbox \ {[kind |-> "call", call |-> c]}
    /\ \E f \in Faults({"trustRead", "ingressMark"}) :
          /\ Fault(f)
          /\ AskConsent(c, f) \/ RejectCall(c) \/ StartDispatch(c, f)
    /\ UNCHANGED <<kernelVars, run>>

-----------------------------------------------------------------------------
(* dispatch_with_approval and resolve_with_decision share their steps.      *)

Finish(r) ==
    /\ handler' = Idle
    /\ reply' = [reply EXCEPT ![handler.call] = r]

Subscribe ==
    /\ At("subscribe")
    /\ \E f \in Faults({"subscribe"}) :
          /\ Fault(f)
          /\ IF f = "none" \/ handler.kind = "respond"
             THEN /\ handler' = [handler EXCEPT !.at = @ + 1,
                                   !.sub = f = "none", !.deaf = f # "none"]
                  /\ UNCHANGED reply
             ELSE Finish(Error)
    /\ UNCHANGED <<kvVars, inbox, kernelVars, run, call, prompts, userVars>>

PublishExecute(f) ==
    /\ handler.kind = "call"
    /\ IF f = "none"
       THEN /\ run' = [run EXCEPT ![handler.call].st = "sent"]
            /\ handler' = [handler EXCEPT !.at = @ + 1]
            /\ UNCHANGED reply
       ELSE Finish(Error) /\ UNCHANGED run
    /\ UNCHANGED decisions

PublishDecision(f) ==
    /\ handler.kind = "respond"
    /\ decisions' = IF f = "none"
                    THEN decisions \cup
                            {[rid |-> handler.rid, yes |-> handler.yes]}
                    ELSE decisions
    /\ handler' = [handler EXCEPT !.at = @ + 1,
                     !.early = /\ run[handler.call].st = "done"
                               /\ handler.call \notin handler.res]
    /\ UNCHANGED <<run, reply>>

Publish ==
    /\ At("publish")
    /\ \E f \in Faults({"publish"}) :
          /\ Fault(f)
          /\ PublishExecute(f) \/ PublishDecision(f)
    /\ UNCHANGED <<kvVars, inbox, awaiting, granted, call, prompts, userVars>>

\* match_result finds the call's own result in the drained batch.
TakeResult ==
    /\ At("drain")
    /\ \E r \in handler.res :
          /\ MatchResult(r, handler.call)
          /\ Finish(ResultOf(r))
    /\ UNCHANGED <<kvVars, inbox, kernelVars, run, call, prompts, userVars,
                   faults>>

\* The drain window closes.  It is 50 s, so the access gate, which answers at
\* once, has long dealt with the request.
CloseWindow ==
    /\ At("drain")
    /\ handler.sigs = <<>>
    /\ \A r \in handler.res : ~MatchResult(r, handler.call)
    /\ handler.deaf \/ run[handler.call].st # "sent"
    /\ Finish(Error)
    /\ UNCHANGED <<kvVars, inbox, kernelVars, run, call, prompts, userVars,
                   faults>>

\* poll_signal takes the whole batch: the first grant, or the first approval.
Signal ==
    LET gate == {i \in DOMAIN handler.sigs : handler.sigs[i].kind = "grant"}
    IN  handler.sigs[IF gate = {} THEN 1
                     ELSE CHOOSE i \in gate : \A j \in gate : i <= j]

SurfaceApproval ==
    /\ Signal.kind = "approval"
    /\ prompts' = prompts \cup {ApprovalPrompt(Signal.rid, handler.call)}
    /\ Finish(Ask)
    /\ UNCHANGED <<kvVars, decisions, unanswered, faults>>

Gated == CapsuleOf[call[Signal.rid[1]].tool]

\* A recorded decision answers the live awaiter without asking the user.
AutoDecide(f) ==
    /\ record[Gated] # "none" /\ f \in {"none", "publish"}
    /\ LET yes == record[Gated] = "approve"
       IN  /\ decisions' = IF f = "none"
                           THEN decisions \cup
                                   {[rid |-> Signal.rid, yes |-> yes]}
                           ELSE decisions
           /\ Finish(IF yes THEN Retry ELSE Error)
    /\ UNCHANGED <<kvVars, prompts, unanswered>>

Dedup(f) ==
    /\ GrantPending(Gated, f) /\ f = "none"
    /\ Finish(Retry)
    /\ UNCHANGED <<kvVars, decisions, prompts, unanswered>>

\* grant_pending drops a stale marker even if the new one fails to be written.
AskGrant(f) ==
    /\ ~GrantPending(Gated, f)
    /\ marker' = [marker EXCEPT ![Gated] =
                     IF f # "markerWrite" THEN "fresh" ELSE "none"]
    /\ prompts' = prompts \cup {GrantPrompt(Signal.rid, Gated)}
    /\ Finish(Ask)
    /\ unanswered' = unanswered \ {Gated}
    /\ UNCHANGED <<trust, asked, record, decisions>>

SurfaceGrant ==
    /\ Signal.kind = "grant"
    /\ \E f \in Faults({"recordRead", "markerRead", "markerWrite", "publish"}) :
          /\ Fault(f)
          /\ \/ AutoDecide(f)
             \/ /\ record[Gated] = "none" \/ f = "recordRead"
                /\ f # "publish"
                /\ Dedup(f) \/ AskGrant(f)

TakeSignal ==
    /\ At("drain")
    /\ handler.sigs # <<>>
    /\ SurfaceApproval \/ SurfaceGrant
    /\ UNCHANGED <<inbox, awaiting, granted, run, call,
                   consented, allowed, wanted, acked>>

-----------------------------------------------------------------------------
(* The respond handlers.                                                    *)

HandleIngress(m) ==
    /\ handler = Idle
    /\ m \in inbox /\ m.kind = "ingress"
    /\ inbox' = inbox \ {m}
    /\ \E f \in Faults({"ingressTake", "ingressClear", "trustWrite"}) :
          LET had == TakeIngressPending(m.src, f)
          IN  /\ Fault(f)
              /\ asked' = IF had /\ f # "ingressClear"
                          THEN asked \ {m.src} ELSE asked
              /\ trust' = IF m.yes /\ had /\ f # "trustWrite"
                          THEN trust \cup {m.src} ELSE trust
    /\ UNCHANGED <<marker, record, handler, kernelVars, run, shimVars, userVars>>

\* An untrusted ingress still retires the parked tool, with a deny.
HandleApproval(m) ==
    /\ handler = Idle
    /\ m \in inbox /\ m.kind = "approval"
    /\ inbox' = inbox \ {m}
    /\ \E f \in Faults({"trustRead"}) :
          /\ Fault(f)
          /\ handler' = Begin("respond", m.call, call[m.call].tool, m.rid,
                              Verdict(m, f))
    /\ UNCHANGED <<kvVars, kernelVars, run, shimVars, userVars>>

\* Seeded bug: only an approve clears the marker.
ClearOnApprove(k, yes) == IF yes THEN [marker EXCEPT ![k] = "none"] ELSE marker

\* clear_grant_marker: on every outcome, whichever prompt was answered.
ClearGrantMarker(k, yes) == [marker EXCEPT ![k] = "none"]

\* Record an approve, publish the decision, consume the marker; no drain.
HandleGrant(m) ==
    /\ handler = Idle
    /\ m \in inbox /\ m.kind = "grant"
    /\ inbox' = inbox \ {m}
    /\ \E f \in Faults({"trustRead", "recordWrite", "publish", "markerTake"}) :
          LET yes   == Verdict(m, f)
              new   == RespondDecisionToRecord(yes)
              saved == /\ IsIngressTrusted(m.src, f)
                       /\ new # "none" /\ f # "recordWrite"
          IN  /\ Fault(f)
              /\ record' = IF saved THEN [record EXCEPT ![m.capsule] = new]
                                    ELSE record
              /\ decisions' = IF f = "publish" THEN decisions
                              ELSE decisions \cup {[rid |-> m.rid, yes |-> yes]}
              /\ IF f = "markerTake"
                 THEN /\ UNCHANGED marker
                      /\ unanswered' = unanswered \cup {m.capsule}
                 ELSE /\ marker' = ClearGrantMarker(m.capsule, yes)
                      /\ UNCHANGED unanswered
              /\ acked' = IF yes /\ f # "recordWrite"
                          THEN acked \cup {m.capsule} ELSE acked
    /\ UNCHANGED <<trust, asked, handler, awaiting, granted, run, shimVars,
                   consented, allowed, wanted>>

-----------------------------------------------------------------------------
(* The kernel's access gate and awaiters, and the tools (external).         *)

Admit(c) ==
    /\ run[c].st = "sent" /\ CapsuleOf[call[c].tool] \in granted
    /\ run' = [run EXCEPT ![c].st = "running"]
    /\ UNCHANGED <<kvVars, handler, inbox, kernelVars, shimVars, userVars, faults>>

\* No capsule provides the tool, or the request is lost.
Unrouted(c) ==
    /\ run[c].st = "sent"
    /\ run' = [run EXCEPT ![c].st = "dropped"]
    /\ UNCHANGED <<kvVars, handler, inbox, kernelVars, shimVars, userVars, faults>>

\* The gate drops the call and raises grant_required.
Refuse(c) ==
    /\ run[c].st = "sent" /\ CapsuleOf[call[c].tool] \notin granted
    /\ run' = [run EXCEPT ![c].st = "dropped"]
    /\ awaiting' = awaiting \cup {c}
    /\ handler' = Signalled("grant", GateId(c))
    /\ UNCHANGED <<kvVars, inbox, decisions, granted, shimVars, userVars, faults>>

\* request_approval publishes its envelope and blocks the tool.
AskApproval(c) ==
    /\ run[c].st = "running" /\ ~run[c].denied /\ run[c].asks < MaxAsks
    /\ run' = [run EXCEPT ![c].st = "parked", ![c].asks = @ + 1]
    /\ handler' = Signalled("approval", <<c, run[c].asks + 1>>)
    /\ UNCHANGED <<kvVars, inbox, kernelVars, shimVars, userVars, faults>>

Return(c) ==
    /\ run[c].st = "running"
    /\ run' = [run EXCEPT ![c].st = "done"]
    /\ handler' = Resulted(c)
    /\ UNCHANGED <<kvVars, inbox, kernelVars, shimVars, userVars, faults>>

Resume(c, yes) == [run EXCEPT ![c].st = "running", ![c].denied = ~yes]

\* After 60 s without a decision the host fails closed.
ParkExpires(c) ==
    /\ run[c].st = "parked"
    /\ run' = Resume(c, FALSE)
    /\ UNCHANGED <<kvVars, handler, inbox, kernelVars, shimVars, userVars, faults>>

\* A decision wakes whoever waits under its request id, if anyone still does.
Decide(d) ==
    LET c == d.rid[1] IN
    /\ d \in decisions
    /\ decisions' = decisions \ {d}
    /\ allowed' = allowed \ {d.rid}
    /\ IF d.rid[2] = 0
       THEN /\ awaiting' = awaiting \ {c}
            /\ granted' = IF c \in awaiting /\ d.yes
                          THEN granted \cup {CapsuleOf[call[c].tool]}
                          ELSE granted
            /\ UNCHANGED run
       ELSE /\ run' = IF run[c].st = "parked" /\ run[c].asks = d.rid[2]
                      THEN Resume(c, d.yes) ELSE run
            /\ UNCHANGED <<awaiting, granted>>
    /\ UNCHANGED <<kvVars, handler, inbox, shimVars, consented, wanted, acked,
                   unanswered, faults>>

\* A grant awaiter lives 60 s: longer than the drain window it was raised in
\* and the hop of a decision published there.
ExpireGrant(c) ==
    /\ c \in awaiting
    /\ handler.kind = "call" => handler.call # c
    /\ \A d \in decisions : d.rid # GateId(c)
    /\ awaiting' = awaiting \ {c}
    /\ UNCHANGED <<kvVars, handler, inbox, decisions, granted, run, shimVars,
                   userVars, faults>>

-----------------------------------------------------------------------------
(* The shim, the user and the clock (external).                             *)

Used(c) ==
    \/ run[c].st \in {"sent", "running", "parked"} \/ c \in awaiting
    \/ /\ handler.kind # "idle"
       /\ \/ c \in {handler.call, handler.rid[1]}
          \/ \E i \in DOMAIN handler.sigs : handler.sigs[i].rid[1] = c
    \/ [kind |-> "call", call |-> c] \in inbox
    \/ \E m \in prompts \cup inbox :
          m.kind \in {"grant", "approval"} /\ m.rid[1] = c
    \/ \E m \in prompts \cup inbox : m.kind = "approval" /\ m.call = c
    \/ \E d \in decisions : d.rid[1] = c

\* A fresh tool.call, or a dropped one sent again; its req_id is unused.
Submit(c, t, s) ==
    /\ ~Used(c)
    /\ call' = [call EXCEPT ![c] = [tool |-> t, src |-> s]]
    /\ run' = [run EXCEPT ![c] = NotRun]
    /\ reply' = [reply EXCEPT ![c] = NoReply]
    /\ inbox' = inbox \cup {[kind |-> "call", call |-> c]}
    /\ allowed' = {r \in allowed : r[1] # c}
    /\ UNCHANGED <<kvVars, handler, kernelVars, prompts,
                   consented, wanted, acked, unanswered, faults>>

\* The user answers, or the shim's elicitation fails and it answers no.  The
\* proxy that forwards the answer need not be the one that was asked.
Answer(p, yes, s) ==
    /\ p \in prompts
    /\ prompts' = prompts \ {p}
    /\ inbox' = inbox \cup
          {CASE p.kind = "ingress" -> [kind |-> "ingress", src |-> s, yes |-> yes]
             [] p.kind = "grant" -> [kind |-> "grant", src |-> s, yes |-> yes,
                                     rid |-> p.rid, capsule |-> p.capsule]
             [] p.kind = "approval" -> [kind |-> "approval", src |-> s,
                                        yes |-> yes, rid |-> p.rid,
                                        call |-> p.call]}
    /\ allowed' = IF yes /\ p.kind = "approval"
                  THEN allowed \cup {p.rid} ELSE allowed
    /\ wanted' = IF yes /\ p.kind = "grant"
                 THEN wanted \cup {p.capsule} ELSE wanted
    /\ UNCHANGED <<kvVars, handler, kernelVars, run, call, reply,
                   consented, acked, unanswered, faults>>

\* The client shuts the prompt, or dies with it, and nothing is sent.
Lose(p) ==
    /\ p \in prompts
    /\ prompts' = prompts \ {p}
    /\ unanswered' = IF p.kind = "grant" THEN unanswered \cup {p.capsule}
                     ELSE unanswered
    /\ UNCHANGED <<kvVars, handler, inbox, kernelVars, run, call, reply,
                   consented, allowed, wanted, acked, faults>>

\* An accept no prompt asked for: sent twice, or on the shim's own initiative.
\* Bound: only while it could make a difference.
StrayAccept(s) ==
    /\ s \notin trust
    /\ inbox' = inbox \cup {[kind |-> "ingress", src |-> s, yes |-> TRUE]}
    /\ UNCHANGED <<kvVars, handler, kernelVars, run, shimVars, userVars, faults>>

\* GRANT_PENDING_TTL_MS passes, or the wall clock steps.
AgeMarker(k) ==
    /\ marker[k] = "fresh"
    /\ marker' = [marker EXCEPT ![k] = "stale"]
    /\ UNCHANGED <<trust, asked, record, handler, inbox, kernelVars, run,
                   shimVars, userVars, faults>>

-----------------------------------------------------------------------------
Broker ==
    \/ \E c \in Calls : HandleCall(c)
    \/ \E m \in inbox : HandleIngress(m) \/ HandleApproval(m) \/ HandleGrant(m)
    \/ Subscribe \/ Publish \/ TakeResult \/ TakeSignal \/ CloseWindow

Kernel ==
    \/ \E c \in Calls : \/ Admit(c) \/ Unrouted(c) \/ Refuse(c)
                        \/ ParkExpires(c) \/ ExpireGrant(c)
    \/ \E d \in decisions : Decide(d)

Tool == \E c \in Calls : AskApproval(c) \/ Return(c)

Client ==
    \/ \E c \in Calls, t \in Tools, s \in Sources : Submit(c, t, s)
    \/ \E p \in prompts, yes \in BOOLEAN, s \in Sources : Answer(p, yes, s)
    \/ \E p \in prompts : Lose(p)
    \/ \E s \in Sources : StrayAccept(s)
    \/ \E k \in Capsules : AgeMarker(k)

Next == Broker \/ Kernel \/ Tool \/ Client

Spec == Init /\ [][Next]_vars

-----------------------------------------------------------------------------
Handlers ==
    [kind : {"call", "respond"}, call : Calls, tool : Tools, rid : RequestIds,
     yes : BOOLEAN, at : 1..Len(Script), sub : BOOLEAN, deaf : BOOLEAN,
     sigs : Seq([kind : {"grant", "approval"}, rid : RequestIds]),
     res : SUBSET Calls, early : BOOLEAN]

Replies ==
    {NoReply, Ask, Retry, Error} \cup [kind : {"result"}, of : Calls]

Prompts ==
    [kind : {"ingress"}, src : Sources]
        \cup [kind : {"grant"}, rid : RequestIds, capsule : Capsules]
        \cup [kind : {"approval"}, rid : RequestIds, call : Calls]

Requests ==
    [kind : {"call"}, call : Calls]
        \cup [kind : {"ingress"}, src : Sources, yes : BOOLEAN]
        \cup [kind : {"grant"}, src : Sources, yes : BOOLEAN,
              rid : RequestIds, capsule : Capsules]
        \cup [kind : {"approval"}, src : Sources, yes : BOOLEAN,
              rid : RequestIds, call : Calls]

\* The types of the variables.
TypeOK ==
    /\ trust \subseteq Sources /\ asked \subseteq Sources
    /\ marker \in [Capsules -> {"none", "fresh", "stale"}]
    /\ record \in [Capsules -> {"none", "approve", "deny"}]
    /\ handler \in {Idle} \cup Handlers
    /\ inbox \subseteq Requests
    /\ decisions \subseteq [rid : RequestIds, yes : BOOLEAN]
    /\ awaiting \subseteq Calls /\ granted \subseteq Capsules
    /\ run \in [Calls -> [st : RunStates, asks : 0..MaxAsks, denied : BOOLEAN]]
    /\ call \in [Calls -> [tool : Tools, src : Sources]]
    /\ reply \in [Calls -> Replies]
    /\ prompts \subseteq Prompts
    /\ consented \subseteq Sources /\ allowed \subseteq RequestIds
    /\ wanted \subseteq Capsules /\ acked \subseteq Capsules
    /\ unanswered \subseteq Capsules
    /\ faults \in 0..MaxFaults

\* A source is trusted only if the broker once asked the user about it, however
\* many accepts arrive that nobody was asked for (approval.rs:477-489).
TrustNeedsPrompt == trust \subseteq consented

\* The kernel grants a capsule only if the user said yes to it: whether the
\* decision came from a respond in time, or was replayed from the record of an
\* answer that came too late (grant_decision.rs:14-20).
GrantsAreWanted == granted \subseteq wanted

\* A parked tool goes on with its approval only if the user approved that very
\* request, whichever call the prompt was shown for (approval.rs:91-94).
ResumedAsDecided ==
    [][\A c \in Calls :
          run[c].st = "parked" /\ run'[c].st = "running" /\ ~run'[c].denied
            => <<c, run[c].asks>> \in allowed]_vars

\* A tool result reaches the client only as the reply to the call that asked
\* for it, though late results of other calls share its topic.
ResultsMatch ==
    \A c \in Calls : reply[c].kind = "result" => reply[c].of = c

\* No result is published past a handler that waits for it: the subscription
\* is open before the execute request or the decision that can lead to a
\* result goes out (execute.rs:154-158, approval.rs:852-855).
NoResultMissed ==
    /\ At("drain") /\ ~handler.deaf /\ ~handler.early
    /\ run[handler.call].st = "done"
    => handler.call \in handler.res

\* The dedup marker suppresses grant prompts only while an answer that will
\* clear it can still come, or was lost (approval.rs:663-670).
MarkerAwaitsAnswer ==
    \A k \in Capsules : marker[k] = "fresh" =>
        \/ k \in unanswered
        \/ \E m \in prompts \cup inbox : m.kind = "grant" /\ m.capsule = k

-----------------------------------------------------------------------------
\* Handlers run to their end: recv is bounded and the window is finite.  The
\* kernel serves every request and decision, awaiters expire, and time passes.
\* Tools, the shim and the user owe nothing.
Fairness ==
    /\ WF_vars(Subscribe) /\ WF_vars(Publish)
    /\ WF_vars(TakeResult \/ TakeSignal \/ CloseWindow)
    /\ \A c \in Calls :
          /\ SF_vars(HandleCall(c))
          /\ WF_vars(Admit(c) \/ Refuse(c))
          /\ WF_vars(ExpireGrant(c))
          /\ WF_vars(\E yes \in BOOLEAN : Decide([rid |-> GateId(c), yes |-> yes]))
    /\ \A k \in Capsules : WF_vars(AgeMarker(k))

\* Every tool.call the broker receives is answered, whatever the tool, the
\* user and the kernel make of it (broker.rs:199-202).
EveryCallAnswered ==
    \A c \in Calls :
        ([kind |-> "call", call |-> c] \in inbox) ~> (reply[c] # NoReply)

\* The dispatch of a call of k hears the kernel's grant_required for it.
HearsRefusal(k) ==
    /\ At("drain") /\ handler.kind = "call" /\ handler.sigs # <<>>
    /\ CapsuleOf[handler.tool] = k
    /\ Signal = [kind |-> "grant", rid |-> GateId(handler.call)]

\* A yes the broker took, even one that missed its awaiter, grants the capsule
\* at the next refused call without asking again (grant_decision.rs:14-20).
LateYesConverges ==
    \A k \in Capsules \ Denied :
        [](k \in acked => (([]<>HearsRefusal(k)) => <>(k \in granted)))

\* A refused capsule that keeps being called is either granted or asked about
\* again and again: neither a lost prompt nor a deny silences it for ever
\* (execute.rs:73-88, grant_decision.rs:22-35).
PromptsRecur ==
    \A k \in Capsules \ Denied :
        ([]<>HearsRefusal(k)) =>
            []<>(\/ k \in granted
                 \/ k \in acked
                 \/ \E p \in prompts : p.kind = "grant" /\ p.capsule = k)

\* A dispatch surfaces only an approval its own routed tool raised
\* (execute.rs:274-281, approval.rs:84-89).
SignalIsOwn ==
    \A p \in prompts : p.kind = "approval" => p.rid[1] = p.call
=============================================================================
