----------------------------- MODULE MCProgress -----------------------------
(* What must happen in the end, in one run: small instances of ReactLoop on a
   bus that loses nothing, where the capsules' answers alone must end every turn,
   and on one that may lose anything, where the watchdog alone must; of McpBroker;
   and of Migration.  Which of the four a behaviour is of is settled at the start;
   the variables of the others stay as they are first.                         *)
EXTENDS Migration, Sequences

CONSTANTS
    s1, s2,                         \* ReactLoop: sessions
    ReqIds,                         \* ReactLoop: request ids
    NoReq, NoSession, MaxIterations,
    Calls,                          \* ReactLoop and McpBroker
    src, tool, capsule              \* McpBroker: one of each

VARIABLES
    turn, req2sess, call2sess, active, bus, hist, own, finals, rounds, lost,
    trust, asked, marker, record, handler, inbox, decisions, awaiting, granted,
    run, call, reply, prompts, consented, allowed, wanted, acked, unanswered, broken,
    which               \* "reliable bus", "lossy bus", "broker" or "import"

turnVars == <<turn, req2sess, call2sess, active, bus, hist, own, finals, rounds, lost>>
brokerVars == <<trust, asked, marker, record, handler, inbox, decisions, awaiting,
                granted, run, call, reply, prompts, consented, allowed, wanted,
                acked, unanswered, broken>>
allVars == <<turnVars, brokerVars, vars, which>>

Reliable == INSTANCE ReactLoop WITH
    Requests <- ReqIds, Sessions <- {s1},
    MaxPrompts <- 2, MaxTools <- 2, MaxRedrive <- 2, MaxFaults <- 0,
    FaultKinds <- {}, FreshCallIds <- TRUE, MidTurnClear <- TRUE, faults <- lost

Lossy == INSTANCE ReactLoop WITH
    Requests <- ReqIds, Sessions <- {s1, s2},
    MaxPrompts <- 1, MaxTools <- 1, MaxRedrive <- 1, MaxFaults <- 1,
    FaultKinds <- {"rpc", "rpcLate", "publish"},
    FreshCallIds <- TRUE, MidTurnClear <- TRUE, faults <- lost

Broker == INSTANCE McpBroker WITH
    Sources <- {src}, Tools <- {tool}, Capsules <- {capsule},
    CapsuleOf <- [t \in {tool} |-> capsule], Denied <- {},
    MaxAsks <- 1, MaxFaults <- 0, FaultKinds <- {}, faults <- broken

-----------------------------------------------------------------------------
AllInit ==
    /\ \/ which = "lossy bus" /\ Lossy!Init
       \/ which \in {"reliable bus", "broker", "import"} /\ Reliable!Init
    /\ Broker!Init
    /\ Init

OnReliable == which = "reliable bus" /\ UNCHANGED <<brokerVars, vars, which>>
OnLossy == which = "lossy bus" /\ UNCHANGED <<brokerVars, vars, which>>
OnBroker == which = "broker" /\ UNCHANGED <<turnVars, vars, which>>
OnImport == which = "import" /\ UNCHANGED <<turnVars, brokerVars, which>>

\* Turns and calls may stop; an import always goes on, or is begun again.
Rest == which # "import" /\ UNCHANGED allVars

AllNext ==
    \/ OnReliable /\ Reliable!Next
    \/ OnLossy /\ Lossy!Next
    \/ OnBroker /\ Broker!Next
    \/ OnImport /\ Next
    \/ Rest

\* The capsules answer and a reliable bus delivers, with no help from timeouts.
Answers ==
    /\ WF_allVars(OnReliable /\ Reliable!HandleIdentityResponse)
    /\ WF_allVars(OnReliable /\ Reliable!PromptBuilderAssemble)
    /\ WF_allVars(OnReliable /\ Reliable!HandlePromptResponse)
    /\ WF_allVars(OnReliable /\ Reliable!StreamEnds)
    /\ WF_allVars(OnReliable /\ Reliable!HandleToolResult)

\* The kernel keeps ticking, and a phase that does not change runs over its limit.
Ticks ==
    \A s \in {s1, s2} :
        WF_allVars(/\ OnLossy /\ Lossy!HandleWatchdogTick
                   /\ turn[s].phase # "Idle" /\ turn'[s] = Lossy!IdleTurn)

\* An operator who tries again until the import is done.
Retries == WF_allVars(OnImport /\ MigrateRuntime)

AllSpec ==
    AllInit /\ [][AllNext]_allVars /\ Answers /\ Ticks /\ Broker!Fairness /\ Retries

-----------------------------------------------------------------------------
Running(s) == s \in DOMAIN turn /\ turn[s].phase # "Idle"

\* capsule-react: no turn hangs.  Every prompt's turn gets back to Idle, by the
\* answers on a bus that delivers them, by the watchdog on one that may lose them.
TurnsEnd == \A s \in {s1, s2} : Running(s) ~> ~Running(s)

\* MAX_REDRIVE_RETRIES: "a genuinely orphaned event can't loop forever"; on the
\* bus that delivers, it is taken off in the end.
Orphaned == \E m \in bus : m.type \in {"spark", "assembled"}

OrphansDrain == (which = "reliable bus" /\ Orphaned) ~> ~Orphaned

\* aos-mcp-broker: every tool.call is answered; a yes that came too late grants
\* at the next refusal; a refused capsule is asked about again.
EveryCallAnswered == Broker!EveryCallAnswered
LateYesConverges == Broker!LateYesConverges
PromptsRecur == Broker!PromptsRecur

\* aos migrate runtime: "the next import either completes a fully validated
\* replacement or restores that backup before retrying": who retries gets it.
ImportsFinish == <>[](which = "import" => receipt # 0)
=============================================================================
