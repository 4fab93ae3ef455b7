------------------------------ MODULE McpServe ------------------------------
(* `aos mcp serve` (unicity-aos-bootstrap, mcp/): a bridge between an MCP client
   and the runtime's MCP transport, a child process.  It passes frames both ways
   and decides who answers an elicitation: the client, a dialog of this machine,
   or nobody.  The loop has one thread and a dialog is modal, so nothing is
   passed on while one is open.

   A message is what the bridge makes of it: an initialize, an elicitation, an
   answer to one, or some other frame.                                        *)
EXTENDS Naturals, Sequences, SequencesExt

CONSTANTS
    Modes,          \* interaction modes, of {"auto", "client", "native", "deny"}
    Providers,      \* of {"buttons", "confirm"}: AppKit, or pinentry and Windows
    Forms,          \* choice lists of forms the runtime may send
    MaxFrames,      \* bound on the frames the client sends of its own accord
    MaxElicitations \* bound on the elicitations of the runtime

Ids == 1..MaxElicitations
SafeApprovalChoices == {"approve_once", "approve_session", "approve_always", "deny"}

VARIABLES
    mode, provider,     \* chosen when the bridge starts
    bridge,             \* "up", or how it ended: "ended", "failed"
    closed,             \* the client closed its end and the bridge has seen it
    supports,           \* client_supports_form
    client,             \* [open, sent, asked]: its end, frames sent, ids it was asked
    runtime,            \* [advertised, asked, answers, down]
    fromClient, toRuntime, fromRuntime,     \* the pipes
    decided             \* what users chose in dialogs, and from what (history)

vars == <<mode, provider, bridge, closed, supports, client, runtime, fromClient,
          toRuntime, fromRuntime, decided>>

Initialize(form) == [kind |-> "initialize", form |-> form]
Other == [kind |-> "other"]
Answer(id, action, choice) == [kind |-> "answer", id |-> id, action |-> action, choice |-> choice]
Elicitation(id, form, choices) ==
    [kind |-> "elicitation", id |-> id, form |-> form, choices |-> choices]

Init ==
    /\ mode \in Modes /\ provider \in Providers
    /\ bridge = "up" /\ closed = FALSE /\ supports = FALSE
    /\ client = [open |-> TRUE, sent |-> 0, asked |-> {}]
    /\ runtime = [advertised |-> FALSE, asked |-> 0, answers |-> <<>>, down |-> FALSE]
    /\ fromClient = <<>> /\ toRuntime = <<>> /\ fromRuntime = <<>>
    /\ decided = {}

----------------------------------------------------------------------------
(* The client and the runtime.                                                *)

ClientSends ==
    /\ client.open /\ client.sent < MaxFrames
    /\ \E m \in {Initialize(TRUE), Initialize(FALSE), Other} :
          fromClient' = Append(fromClient, m)
    /\ client' = [client EXCEPT !.sent = @ + 1]
    /\ UNCHANGED <<mode, provider, bridge, closed, supports, runtime, toRuntime, fromRuntime, decided>>

ClientAnswers(id) ==
    /\ client.open /\ id \in client.asked
    /\ \E action \in {"accept", "cancel"} :
          fromClient' = Append(fromClient, Answer(id, action, "client"))
    /\ client' = [client EXCEPT !.asked = @ \ {id}]
    /\ UNCHANGED <<mode, provider, bridge, closed, supports, runtime, toRuntime, fromRuntime, decided>>

ClientCloses ==
    /\ client.open
    /\ client' = [client EXCEPT !.open = FALSE]
    /\ UNCHANGED <<mode, provider, bridge, closed, supports, runtime, fromClient, toRuntime,
                   fromRuntime, decided>>

RuntimeReads ==
    /\ ~runtime.down /\ toRuntime # <<>>
    /\ LET m == Head(toRuntime)
       IN  runtime' = CASE m.kind = "initialize" -> [runtime EXCEPT !.advertised = m.form]
                        [] m.kind = "answer" -> [runtime EXCEPT !.answers = Append(@, m)]
                        [] OTHER -> runtime
    /\ toRuntime' = Tail(toRuntime)
    /\ UNCHANGED <<mode, provider, bridge, closed, supports, client, fromClient, fromRuntime, decided>>

\* The runtime elicits only from a client that advertised forms.
RuntimeElicits ==
    /\ ~runtime.down /\ runtime.advertised /\ runtime.asked < MaxElicitations
    /\ \E form \in BOOLEAN, choices \in Forms :
          /\ ~form => choices = <<>>
          /\ fromRuntime' = Append(fromRuntime, Elicitation(runtime.asked + 1, form, choices))
    /\ runtime' = [runtime EXCEPT !.asked = @ + 1]
    /\ UNCHANGED <<mode, provider, bridge, closed, supports, client, fromClient, toRuntime, decided>>

\* It exits, of itself or because its input ended.
RuntimeExits ==
    /\ ~runtime.down
    /\ runtime' = [runtime EXCEPT !.down = TRUE]
    /\ UNCHANGED <<mode, provider, bridge, closed, supports, client, fromClient, toRuntime,
                   fromRuntime, decided>>

----------------------------------------------------------------------------
(* The bridge.                                                                *)

\* prepare_client_message: note whether the client has forms, and advertise them
\* on its behalf where the bridge can stand in.
Prepared(m) ==
    IF m.kind = "initialize" /\ (mode = "native" \/ (mode = "auto" /\ ~m.form))
    THEN Initialize(TRUE) ELSE m

PassUp ==
    /\ bridge = "up" /\ ~closed /\ fromClient # <<>>
    /\ LET m == Head(fromClient)
       IN  /\ supports' = IF m.kind = "initialize" THEN m.form ELSE supports
           \* a child that is gone takes no more input
           /\ IF runtime.down THEN bridge' = "failed" /\ UNCHANGED toRuntime
              ELSE toRuntime' = Append(toRuntime, Prepared(m)) /\ UNCHANGED bridge
    /\ fromClient' = Tail(fromClient)
    /\ UNCHANGED <<mode, provider, closed, client, runtime, fromRuntime, decided>>

SeeClosed ==
    /\ bridge = "up" /\ ~closed /\ ~client.open /\ fromClient = <<>>
    /\ closed' = TRUE
    /\ UNCHANGED <<mode, provider, bridge, supports, client, runtime, fromClient, toRuntime,
                   fromRuntime, decided>>

\* elicitation_handling.
ElicitationHandling(m) ==
    CASE m.kind # "elicitation" -> "forward"
      [] m.kind = "elicitation" /\ mode = "deny" -> "cancel"
      [] m.kind = "elicitation" /\ mode = "native" /\ m.form -> "present"
      [] m.kind = "elicitation" /\ mode = "auto" /\ m.form /\ ~supports -> "present"
      [] OTHER -> "forward"

Forward ==
    /\ bridge = "up" /\ fromRuntime # <<>>
    /\ ElicitationHandling(Head(fromRuntime)) = "forward"
    /\ client' = [client EXCEPT !.asked = @ \cup {Head(fromRuntime).id}]
    /\ fromRuntime' = Tail(fromRuntime)
    /\ UNCHANGED <<mode, provider, bridge, closed, supports, runtime, fromClient, toRuntime, decided>>

\* Seeded bug: a list that offers no refusal is taken on.
AcceptsAnyList(m) == m.choices # <<>>

\* parse_request and parse_safe_enum: what the dialog will take on.  A yes-or-no
\* form is the list <<"yes", "deny">>.
Acceptable(m) ==
    /\ m.choices # <<>>
    /\ \/ m.choices = <<"yes", "deny">>
       \/ ToSet(m.choices) \subseteq SafeApprovalChoices /\ "deny" \in ToSet(m.choices)

FirstWhere(s, P(_)) ==
    LET hits == {k \in DOMAIN s : P(s[k])}
    IN  IF hits = {} THEN {} ELSE {s[CHOOSE k \in hits : \A other \in hits : k <= other]}

\* What a user can pick: any button, or the first yes and the first no.  A
\* confirmation with no yes is refused.
Selectable(choices) ==
    LET yes == FirstWhere(choices, LAMBDA c : c # "deny")
        no == FirstWhere(choices, LAMBDA c : c = "deny")
    IN  IF provider = "buttons" THEN ToSet(choices)
        ELSE IF yes = {} THEN {} ELSE yes \cup no

\* The answer goes to the runtime; when its input is closed the bridge fails.
Reply(m, answer) ==
    /\ IF closed \/ runtime.down THEN bridge' = "failed" /\ UNCHANGED toRuntime
       ELSE toRuntime' = Append(toRuntime, answer) /\ UNCHANGED bridge
    /\ fromRuntime' = Tail(fromRuntime)
    /\ UNCHANGED <<mode, provider, closed, supports, client, runtime, fromClient>>

\* interaction::resolve, the user having picked one of the choices.
Present ==
    /\ bridge = "up" /\ fromRuntime # <<>>
    /\ LET m == Head(fromRuntime)
       IN  /\ ElicitationHandling(m) = "present"
           /\ Acceptable(m)
           /\ \E c \in Selectable(m.choices) :
                 /\ Reply(m, Answer(m.id, "accept", c))
                 /\ decided' = decided \cup {[id |-> m.id, choice |-> c, offered |-> Selectable(m.choices)]}

\* ... or the user cancelled, the provider failed, or the request is refused; or
\* the mode denies all.
Cancel ==
    /\ bridge = "up" /\ fromRuntime # <<>>
    /\ ElicitationHandling(Head(fromRuntime)) \in {"present", "cancel"}
    /\ Reply(Head(fromRuntime), Answer(Head(fromRuntime).id, "cancel", "none"))
    /\ UNCHANGED decided

\* The child's output has ended.
SeeExit ==
    /\ bridge = "up" /\ runtime.down /\ fromRuntime = <<>>
    /\ bridge' \in {"ended", "failed"}
    /\ UNCHANGED <<mode, provider, closed, supports, client, runtime, fromClient, toRuntime,
                   fromRuntime, decided>>

Next ==
    \/ ClientSends \/ ClientCloses \/ (\E id \in Ids : ClientAnswers(id))
    \/ RuntimeReads \/ RuntimeElicits \/ RuntimeExits
    \/ PassUp \/ SeeClosed \/ Forward \/ Present \/ Cancel \/ SeeExit

Spec == Init /\ [][Next]_vars

----------------------------------------------------------------------------
TypeOK ==
    /\ bridge \in {"up", "ended", "failed"}
    /\ runtime.asked \in 0..MaxElicitations
    /\ client.asked \subseteq Ids

\* The ids a message settles or asks about, and those of a whole pipe.
IdsOf(m) == IF m.kind \in {"elicitation", "answer"} THEN {m.id} ELSE {}
IdsIn(pipe) == UNION {IdsOf(pipe[k]) : k \in DOMAIN pipe}
HoldsOnce(pipe) == \A j, k \in DOMAIN pipe : IdsOf(pipe[j]) \cap IdsOf(pipe[k]) # {} => j = k

(* While the bridge is up every elicitation is in exactly one place: on its way
   from the runtime, with the client, on its way back, or answered; none is lost
   and none can be answered twice (mod.rs:119-176).                           *)
ElicitationsAreAccountedFor ==
    bridge = "up" =>
       LET pipes == <<fromRuntime, fromClient, toRuntime, runtime.answers>>
           places == <<IdsIn(fromRuntime), IdsIn(fromClient), IdsIn(toRuntime),
                       IdsIn(runtime.answers), client.asked>>
       IN  /\ \A p \in 1..4 : HoldsOnce(pipes[p])
           /\ \A id \in 1..runtime.asked :
                 \E p \in 1..5 : \A q \in 1..5 : id \in places[q] <=> q = p

(* "Nothing in this function can synthesize consent" (interaction.rs:69-70): an
   acceptance that is not the client's is a choice that a user made for that very
   request, from a list that let them refuse; in deny mode there is none, nor in
   client mode.                                                               *)
ConsentIsSomeonesChoice ==
    \A m \in ToSet(runtime.answers \o toRuntime) :
       m.kind = "answer" /\ m.action = "accept" /\ m.choice # "client" =>
          /\ mode \in {"auto", "native"}
          /\ \E d \in decided : /\ d.id = m.id /\ d.choice = m.choice
                                /\ "deny" \in d.offered
                                /\ d.offered \subseteq SafeApprovalChoices \cup {"yes"}
=============================================================================
