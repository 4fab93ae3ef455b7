----------------------------- MODULE Compaction -----------------------------
(* The context engine (capsule-context-engine) and the react loop's call of it.

   The caller subscribes to one static reply topic, publishes its history and
   waits for the first reply; when none comes in time it goes on with the whole
   history.  Interceptors of the caller are serialised, so one call is open at a
   time; the engine serves requests one by one, and for each asks the plugins
   what to pin and whether to skip.  Neither request nor reply carries an id.

   A message is its identifier (NoId when it has none) and the length of its
   JSON text.                                                                *)
EXTENDS Naturals, Sequences, FiniteSets, SequencesExt, Picking

CONSTANTS
    Sessions,
    Histories,      \* the histories a session may have grown to
    Plugins,        \* capsules that answer the before_compaction hook
    Pins,           \* sets of message ids a plugin may pin
    Budgets,        \* pairs <<max_tokens, target_tokens>>
    KeepRecent,     \* keep_recent
    MaxResponses,   \* MAX_HOOK_RESPONSES
    MaxCalls,       \* bound on the calls made
    NoId, None

VARIABLES
    asking,     \* the open call: [session, messages], or None
    requests,   \* requests published and not yet taken up
    engine,     \* the request being served, or None
    asked,      \* plugins the hook has reached and that have not answered
    answers,    \* answers published on the response topic of the request
    responses,  \* answers collected
    replies,    \* replies the open call's subscription holds
    sent,       \* what the last call went on with
    calls,      \* calls made so far
    orphaned    \* some call was given up while its request was outstanding

vars == <<asking, requests, engine, asked, answers, responses, replies, sent,
          calls, orphaned>>

----------------------------------------------------------------------------
(* strategy.rs *)

EstimateTokens(m) == (m.len + 3) \div 4

\* The estimate of the messages at the positions `at`.
EstimateTotal(messages, at) ==
    LET upto[n \in 0..Len(messages)] ==
            IF n = 0 THEN 0
            ELSE IF n \in at THEN upto[n - 1] + EstimateTokens(messages[n]) ELSE upto[n - 1]
    IN  upto[Len(messages)]

Removable(messages, protected, keep) ==
    {i \in DOMAIN messages : i + keep <= Len(messages) /\ messages[i].id \notin protected}

\* What is left when the removable messages before the i-th are gone.
LeftAt(i, messages, removable) ==
    EstimateTotal(messages, DOMAIN messages \ {j \in removable : j < i})

\* Seeded bug: a history that has met its target loses one message more.
TruncateBelow(messages, target, protected, keep) ==
    LET removable == Removable(messages, protected, keep)
        removed == {i \in removable : LeftAt(i, messages, removable) >= target}
    IN  Picked(messages, DOMAIN messages \ removed)

SummarizeAndTruncate(messages, target, protected, keep) ==
    LET removable == Removable(messages, protected, keep)
        removed == {i \in removable : LeftAt(i, messages, removable) > target}
    IN  Picked(messages, DOMAIN messages \ removed)

----------------------------------------------------------------------------
Init ==
    /\ asking = None
    /\ requests = <<>> /\ engine = None
    /\ asked = {} /\ answers = <<>> /\ responses = <<>>
    /\ replies = <<>> /\ sent = None
    /\ calls = 0 /\ orphaned = FALSE

\* compact_messages up to its recv: subscribe, then publish.
Compact(s) ==
    /\ asking = None /\ calls < MaxCalls
    /\ \E h \in Histories, b \in Budgets :
          /\ asking' = [session |-> s, messages |-> h, budget |-> b]
          /\ requests' = Append(requests, asking')
    /\ calls' = calls + 1
    /\ UNCHANGED <<engine, asked, answers, responses, replies, sent, orphaned>>

\* The reply did not come in time: on with the whole history.
CompactTimesOut ==
    /\ asking # None /\ replies = <<>>
    /\ sent' = [call |-> asking, messages |-> asking.messages, reply |-> None]
    /\ asking' = None
    /\ orphaned' = TRUE
    /\ UNCHANGED <<requests, engine, asked, answers, responses, replies, calls>>

\* The first message on the subscription is taken for the reply.
CompactReturns ==
    /\ asking # None /\ replies # <<>>
    /\ sent' = [call |-> asking, messages |-> Head(replies).messages, reply |-> Head(replies)]
    /\ asking' = None
    /\ replies' = <<>>
    /\ UNCHANGED <<requests, engine, asked, answers, responses, calls, orphaned>>

\* handle_compact up to the hook's publication.
HandleCompact ==
    /\ engine = None /\ requests # <<>>
    /\ engine' = Head(requests)
    /\ requests' = Tail(requests)
    /\ asked' = Plugins
    /\ UNCHANGED <<asking, answers, responses, replies, sent, calls, orphaned>>

\* A plugin answers; its answer is dropped when the request was served meanwhile.
\* Answers do not say whose they are: a plugin that answers twice is two here.
PluginAnswers(p) ==
    /\ p \in asked
    /\ \E skip \in {None, TRUE, FALSE}, pins \in Pins \cup {{}} :
          answers' = Append(answers, [skip |-> skip, pins |-> pins])
    /\ asked' = asked \ {p}
    /\ UNCHANGED <<asking, requests, engine, responses, replies, sent, calls, orphaned>>

HasAnyField(r) == r.skip # None \/ r.pins # {}

\* One recv of fire_before_compaction: everything published so far.
CollectResponses ==
    /\ engine # None /\ answers # <<>> /\ Len(responses) < MaxResponses
    /\ responses' = responses \o
          Picked(answers, {i \in DOMAIN answers : HasAnyField(answers[i])})
    /\ answers' = <<>>
    /\ UNCHANGED <<asking, requests, engine, asked, replies, sent, calls, orphaned>>

Pinned(rs) == UNION {r.pins : r \in ToSet(rs)}
Skipped(rs) == \E r \in ToSet(rs) : r.skip = TRUE
Least(a, b) == IF a <= b THEN a ELSE b

(* The windows are over (the first one unanswered, the idle grace, or the outer
   cap), or enough answered: merge, compact, reply.  The reply reaches whichever
   call is open, or none.                                                     *)
FinishCompact ==
    /\ engine # None
    /\ LET target == Least(engine.budget[2], engine.budget[1])
           result == IF Skipped(responses) THEN engine.messages
                     ELSE SummarizeAndTruncate(engine.messages, target,
                                               Pinned(responses), KeepRecent)
           reply == [messages |-> result, responses |-> responses]
       IN  replies' = IF asking = None THEN <<>> ELSE Append(replies, reply)
    /\ engine' = None
    /\ asked' = {} /\ answers' = <<>> /\ responses' = <<>>
    /\ UNCHANGED <<asking, requests, sent, calls, orphaned>>

Next ==
    \/ \E s \in Sessions : Compact(s)
    \/ CompactTimesOut \/ CompactReturns
    \/ HandleCompact
    \/ \E p \in Plugins : PluginAnswers(p)
    \/ CollectResponses \/ FinishCompact

Spec == Init /\ [][Next]_vars

----------------------------------------------------------------------------
TypeOK ==
    /\ calls \in 0..MaxCalls /\ orphaned \in BOOLEAN
    /\ asked \subseteq Plugins
    /\ Len(responses) + Len(answers) <= Cardinality(Plugins)
    /\ engine = None => asked = {} /\ answers = <<>> /\ responses = <<>>

(* The kept positions of a history are right: nothing pinned or recent is gone,
   what is gone is the oldest there was to remove, the target is met unless
   nothing removable is left, and one message fewer would not have met it.    *)
Fits(kept, messages, target, protected) ==
    LET gone == DOMAIN messages \ kept
        removable == Removable(messages, protected, KeepRecent)
        total(ks) == EstimateTotal(messages, ks)
    IN  /\ gone \subseteq removable
        /\ \A i \in removable, j \in gone : i < j => i \in gone
        /\ total(kept) <= target \/ gone = removable
        /\ \A j \in gone : (\A i \in gone : i <= j) => total(kept \cup {j}) > target

(* What a session sends to its model is its own history, less the oldest
   unprotected messages and no more of them than the budget asks for
   (strategy.rs:42-50, lib.rs:375-384), as long as no call was ever given up: the
   reply topic carries no id (react lib.rs:2004-2007), so a reply that comes
   after its caller left answers the next one.                                *)
CompactionKeepsWhatItMust ==
    sent # None /\ sent.reply # None /\ ~orphaned =>
       LET c == sent.call
           rs == sent.reply.responses
       IN  \E kept \in SUBSET DOMAIN c.messages :
              /\ sent.messages = Picked(c.messages, kept)
              /\ IF Skipped(rs) THEN kept = DOMAIN c.messages
                 ELSE Fits(kept, c.messages, Least(c.budget[2], c.budget[1]), Pinned(rs))
=============================================================================
