----------------------------- MODULE ToolHooks -----------------------------
(* A lifecycle event of the kernel fanned out as a hook (capsule-hook-bridge
   lib.rs `dispatch_hook`): the bridge subscribes to a reply topic of its own,
   publishes the event, and merges what arrives until the responders fall quiet
   or the deadline passes.  Any capsule may respond; for before_tool_call one
   of them is the broker's policy gate (ToolPolicy).                          *)
EXTENDS ToolPolicy

CONSTANTS
    Dispatches,     \* events being dispatched
    Peers,          \* responding capsules, the broker aside
    Values,         \* replacement values a responder may offer
    Sources,        \* what the policy overlay may hold
    NoValue         \* a null or missing field

\* mapping_for_event, by merge strategy; other events have no hook.
Hooks == {"before_tool_call", "after_tool_call", "message_received"}
Merging == {"before_tool_call", "after_tool_call"}

VARIABLES
    policy,     \* the overlay of the invoking principal
    dispatch    \* the dispatches; veto, denied: what the call met (history)

vars == <<policy, dispatch>>

NoResult == [skip |-> FALSE, data |-> NoValue]
Rest == [pc |-> "idle", hook |-> "none", tool |-> NoName, input |-> NoInput,
         due |-> {}, queue |-> <<>>, got |-> <<>>, veto |-> FALSE,
         denied |-> FALSE, cut |-> FALSE, result |-> NoResult]
Gate == "policy gate"

Init ==
    /\ policy \in Sources
    /\ dispatch = [d \in Dispatches |-> Rest]

\* The operator edits the overlay; it is read at every decision.
EditPolicy == policy' \in Sources /\ UNCHANGED dispatch

\* What first-match-wins means: some rule denies and no earlier one fires.
FirstDeny(rules, tool, input) ==
    \E i \in 1..Len(rules) :
       /\ rules[i].effect = "deny" /\ Fires(rules[i], tool, input)
       /\ \A j \in 1..(i - 1) : ~Fires(rules[j], tool, input)

(* An event without responders' answers is published and done; the others are
   collected.  `due` holds the subscribers that will see the event.           *)
DispatchHook(d) ==
    /\ dispatch[d].pc = "idle"
    /\ \E h \in Hooks, t \in Tools, i \in Inputs :
          dispatch' = [dispatch EXCEPT ![d] =
              IF h \in Merging
              THEN [Rest EXCEPT !.pc = "collect", !.hook = h, !.tool = t,
                                !.input = i, !.due = Peers \cup {Gate}]
              ELSE [Rest EXCEPT !.pc = "done", !.hook = h]]
    /\ UNCHANGED policy

Answer(d, who, reply, denied) ==
    dispatch' = [dispatch EXCEPT ![d].due = @ \ {who},
                                 ![d].queue = Append(@, reply),
                                 ![d].veto = @ \/ reply.skip,
                                 ![d].denied = denied]

\* A peer answers, or has nothing to say.
PeerReplies(d, p) ==
    /\ dispatch[d].pc = "collect" /\ p \in dispatch[d].due
    /\ \E s \in BOOLEAN, v \in Values \cup {NoValue} :
          Answer(d, p, [skip |-> s, data |-> v], dispatch[d].denied)
    /\ UNCHANGED policy

(* handle_before_tool_call.  The bridge sends the event as JSON text, in which the
   gate finds no name and no input; it subscribes to before_tool_call only.
   `denied` is what the rules say of the call itself.                        *)
GateReplies(d) ==
    /\ dispatch[d].pc = "collect" /\ Gate \in dispatch[d].due
    /\ dispatch[d].hook = "before_tool_call"
    /\ LET t == dispatch[d].tool
           i == dispatch[d].input
           verdict == VerdictBody(Decide(policy, Payload("text", t, i)))
       IN  Answer(d, Gate, [skip |-> verdict.skip, data |-> NoValue],
                  FirstDeny(LoadRules(policy), t, i))
    /\ UNCHANGED policy

(* The gate tool of the other transport (broker.rs `pretooluse_gate_reply`):
   the arguments are the call itself, and the answer goes to one caller.      *)
PreToolUseGateReply(d) ==
    /\ dispatch[d].pc = "idle"
    /\ \E t \in Tools, i \in Inputs :
          LET reply == GateReplyBody(Decide(policy, Payload("object", t, i)))
          IN  dispatch' = [dispatch EXCEPT ![d] =
                 [Rest EXCEPT !.pc = "done", !.hook = "gate tool", !.tool = t, !.input = i,
                    !.denied = FirstDeny(LoadRules(policy), t, i),
                    !.result.skip = reply.permission = "deny" /\ ~reply.isError]]
    /\ UNCHANGED policy

\* recv: everything that is queued, in the order it was published.
Receive(d) ==
    /\ dispatch[d].pc = "collect" /\ dispatch[d].queue # <<>>
    /\ dispatch' = [dispatch EXCEPT ![d].got = @ \o dispatch[d].queue,
                                    ![d].queue = <<>>]
    /\ UNCHANGED policy

\* The value of the last answer that has one.
LastValue(got) ==
    LET offers == {i \in DOMAIN got : got[i].data # NoValue}
    IN  IF offers = {} THEN NoValue ELSE got[Max(offers)].data

\* Seeded bug: the last answer's skip wins, like the last value.
ApplyMergeLastWins(hook, got) ==
    [skip |-> hook = "before_tool_call" /\ got # <<>> /\ got[Len(got)].skip,
     data |-> LastValue(got)]

\* apply_merge: any skip wins (before_tool_call only), the last value wins.
ApplyMerge(hook, got) ==
    [skip |-> hook = "before_tool_call" /\ \E i \in 1..Len(got) : got[i].skip,
     data |-> LastValue(got)]

(* recv timed out with nothing queued: no first answer within the deadline, or
   none for the quiescence time after the last one.  Or the deadline itself has
   passed, and what is queued is not read any more.                          *)
Close(d) ==
    /\ dispatch[d].pc = "collect"
    /\ \E late \in BOOLEAN :
          /\ late \/ dispatch[d].queue = <<>>
          /\ dispatch' = [dispatch EXCEPT ![d].pc = "done", ![d].cut = late,
                ![d].result = ApplyMerge(dispatch[d].hook, dispatch[d].got)]
    /\ UNCHANGED policy

\* recv fails otherwise: the interceptor returns the error, without a result.
ReceiveFails(d) ==
    /\ dispatch[d].pc = "collect"
    /\ dispatch' = [dispatch EXCEPT ![d].pc = "failed"]
    /\ UNCHANGED policy

Next ==
    \/ EditPolicy
    \/ \E d \in Dispatches : \/ DispatchHook(d) \/ GateReplies(d)
                             \/ PreToolUseGateReply(d) \/ Receive(d) \/ Close(d) \/ ReceiveFails(d)
                             \/ \E p \in Peers : PeerReplies(d, p)

Spec == Init /\ [][Next]_vars

TypeOK ==
    /\ policy \in Sources
    /\ \A d \in Dispatches :
          /\ dispatch[d].pc \in {"idle", "collect", "done", "failed"}
          /\ dispatch[d].due \subseteq Peers \cup {Gate}
          /\ dispatch[d].result.data \in Values \cup {NoValue}

(* A veto that was published before the window went quiet blocks the call,
   whoever sent it, whatever the others answered, and in any order; and only a
   veto does (apply_merge).  A veto is lost only when the deadline cut the window.
   Whether the broker's gate vetoes what its rules deny is not said here: see
   OperatorDenyBinds.  The gate tool denies exactly the calls whose first firing
   rule is a deny, under the rules in force when it was asked.                *)
VetoesBind ==
    \A d \in Dispatches :
       dispatch[d].pc = "done" =>
          /\ dispatch[d].hook = "before_tool_call" =>
                /\ dispatch[d].veto /\ ~dispatch[d].cut => dispatch[d].result.skip
                /\ dispatch[d].result.skip => dispatch[d].veto
          /\ dispatch[d].hook = "gate tool" =>
                (dispatch[d].result.skip <=> dispatch[d].denied)

(* "**any** responder returning `skip:true` blocks the call (deny-wins), so a deny
   here is binding regardless of other participants" (hook_gate.rs:22-24): a call
   that the operator's rules denied when the gate was asked is skipped, unless
   the deadline cut the window.                                              *)
OperatorDenyBinds ==
    \A d \in Dispatches :
       (/\ dispatch[d].pc = "done" /\ dispatch[d].hook = "before_tool_call"
        /\ dispatch[d].denied /\ ~dispatch[d].cut) => dispatch[d].result.skip
=============================================================================
