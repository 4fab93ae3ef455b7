---------------------------- MODULE CapsuleProofs ----------------------------
(***************************************************************************)
(* Theorems of the components that stand for themselves, one section each: *)
(* what MCCapsules checks on a small instance of a component, proved for   *)
(* every instance of it.                                                   *)
(***************************************************************************)
EXTENDS CapsuleInstances, Positions, FiniteSets, FiniteSetTheorems

-----------------------------------------------------------------------------
(* McpServe: consent and elicitations *)

\* What the pipes hold.
Frames(choices) ==
    [kind : {"initialize"}, form : BOOLEAN] \cup [kind : {"other"}]
       \cup [kind : {"answer"}, id : Nat, action : {"accept", "cancel"}, choice : choices]
FromClientFrames == Frames({"client"})
ToRuntimeFrames == Frames({"client", "none", "yes"} \cup Serve!SafeApprovalChoices)
Elicited == [kind : {"elicitation"}, id : Nat, form : BOOLEAN, choices : Forms]

ServeTypes ==
    /\ client \in [open : BOOLEAN, sent : Nat, asked : SUBSET Nat]
    /\ runtime \in [advertised : BOOLEAN, asked : Nat, answers : Seq(ToRuntimeFrames),
                    down : BOOLEAN]
    /\ fromClient \in Seq(FromClientFrames)
    /\ toRuntime \in Seq(ToRuntimeFrames)
    /\ fromRuntime \in Seq(Elicited)

\* One place for every id that was asked for: waiting to be passed on, with the
\* client, on its way up, on its way down, or answered.
OnePlace(waiting, out, back, passed, settled, n) ==
    /\ waiting \cap out = {} /\ waiting \cap back = {} /\ waiting \cap passed = {}
    /\ waiting \cap settled = {} /\ out \cap back = {} /\ out \cap passed = {}
    /\ out \cap settled = {} /\ back \cap passed = {} /\ back \cap settled = {}
    /\ passed \cap settled = {}
    /\ waiting \cup out \cup back \cup passed \cup settled = 1..n

Accounted ==
    /\ Serve!HoldsOnce(fromRuntime) /\ Serve!HoldsOnce(fromClient)
    /\ Serve!HoldsOnce(toRuntime) /\ Serve!HoldsOnce(runtime.answers)
    /\ OnePlace(Serve!IdsIn(fromRuntime), client.asked, Serve!IdsIn(fromClient),
                Serve!IdsIn(toRuntime), Serve!IdsIn(runtime.answers), runtime.asked)

\* A frame is no consent but a user's.
Consented(m) ==
    m.kind = "answer" /\ m.action = "accept" /\ m.choice # "client" =>
       /\ mode \in {"auto", "native"}
       /\ \E d \in decided : /\ d.id = m.id /\ d.choice = m.choice /\ "deny" \in d.offered
                             /\ d.offered \subseteq Serve!SafeApprovalChoices \cup {"yes"}

AllConsented ==
    /\ \A k \in DOMAIN toRuntime : Consented(toRuntime[k])
    /\ \A k \in DOMAIN runtime.answers : Consented(runtime.answers[k])

ServeInv == ServeTypes /\ (bridge = "up" => Accounted) /\ AllConsented

\* The ids of a pipe when a frame enters and when one leaves.
LEMMA IdsAppended ==
    ASSUME NEW S, NEW pipe \in Seq(S), NEW m \in S
    PROVE  /\ Serve!IdsIn(Append(pipe, m)) = Serve!IdsIn(pipe) \cup Serve!IdsOf(m)
           /\ Serve!HoldsOnce(pipe) /\ Serve!IdsOf(m) \cap Serve!IdsIn(pipe) = {}
                => Serve!HoldsOnce(Append(pipe, m))
<1> DEFINE new == Append(pipe, m)
<1>1. /\ DOMAIN new = DOMAIN pipe \cup {Len(pipe) + 1} /\ Len(pipe) + 1 \notin DOMAIN pipe
      /\ \A k \in DOMAIN pipe : new[k] = pipe[k]
      /\ new[Len(pipe) + 1] = m
  BY AppendElements
<1> HIDE DEF new
<1>2. Serve!IdsIn(new) = Serve!IdsIn(pipe) \cup Serve!IdsOf(m)
  BY <1>1 DEF Serve!IdsIn
<1>3. ASSUME Serve!HoldsOnce(pipe), Serve!IdsOf(m) \cap Serve!IdsIn(pipe) = {}
      PROVE  Serve!HoldsOnce(new)
  BY <1>1, <1>3 DEF Serve!IdsIn, Serve!HoldsOnce
<1> QED
  BY <1>2, <1>3 DEF new

LEMMA IdsDropped ==
    ASSUME NEW S, NEW pipe \in Seq(S), pipe # <<>>
    PROVE  /\ Serve!IdsIn(pipe) = Serve!IdsIn(Tail(pipe)) \cup Serve!IdsOf(Head(pipe))
           /\ Serve!HoldsOnce(pipe)
                => /\ Serve!HoldsOnce(Tail(pipe))
                   /\ Serve!IdsOf(Head(pipe)) \cap Serve!IdsIn(Tail(pipe)) = {}
<1> DEFINE rest == Tail(pipe)
<1>1. /\ 1 \in DOMAIN pipe /\ pipe[1] = Head(pipe)
      /\ \A k \in DOMAIN rest : k + 1 \in DOMAIN pipe /\ k + 1 # 1 /\ rest[k] = pipe[k + 1]
      /\ \A k \in DOMAIN pipe \ {1} : k - 1 \in DOMAIN rest /\ (k - 1) + 1 = k
      /\ \A j, k \in DOMAIN rest : j + 1 = k + 1 => j = k
  BY TailElements
<1> HIDE DEF rest
<1>2. \A id : id \in Serve!IdsIn(pipe) <=> id \in Serve!IdsIn(rest) \/ id \in Serve!IdsOf(pipe[1])
  <2>1. ASSUME NEW k \in DOMAIN pipe
        PROVE  k = 1 \/ \E j \in DOMAIN rest : rest[j] = pipe[k]
    BY <1>1
  <2> QED
    BY <1>1, <2>1 DEF Serve!IdsIn
<1>3. ASSUME Serve!HoldsOnce(pipe)
      PROVE  Serve!HoldsOnce(rest) /\ Serve!IdsOf(pipe[1]) \cap Serve!IdsIn(rest) = {}
  BY <1>1, <1>3 DEF Serve!IdsIn, Serve!HoldsOnce
<1> QED
  BY <1>1, <1>2, <1>3 DEF rest

\* A dialog offers only what a safe list holds, and always the refusal.
LEMMA OffersRefusal ==
    ASSUME NEW m, m.choices \in Seq(STRING), Serve!Acceptable(m),
           Serve!Selectable(m.choices) # {}
    PROVE  /\ "deny" \in Serve!Selectable(m.choices)
           /\ Serve!Selectable(m.choices) \subseteq Serve!SafeApprovalChoices \cup {"yes"}
<1> DEFINE list == m.choices
           denied == {k \in DOMAIN list : list[k] = "deny"}
           others == {k \in DOMAIN list : list[k] # "deny"}
<1>1. /\ list \in Seq(STRING) /\ "deny" \in Serve!ToSet(list)
      /\ Serve!ToSet(list) \subseteq Serve!SafeApprovalChoices \cup {"yes"}
  <2>1. CASE list = <<"yes", "deny">>
    BY <2>1 DEF Serve!ToSet, Serve!SafeApprovalChoices
  <2>2. CASE /\ Serve!ToSet(list) \subseteq Serve!SafeApprovalChoices
             /\ "deny" \in Serve!ToSet(list)
    BY <2>2
  <2> QED
    BY <2>1, <2>2 DEF Serve!Acceptable, Serve!ToSet
<1>2. DOMAIN list \subseteq Nat
  BY <1>1
<1> HIDE DEF list
<1>3. denied # {} /\ denied \subseteq Nat /\ others \subseteq Nat
  BY <1>1, <1>2 DEF Serve!ToSet
<1>4. PICK first \in denied : first = CHOOSE k \in denied : \A other \in denied : k <= other
  BY <1>3, FirstPosition
<1>5. Serve!FirstWhere(list, LAMBDA c : c = "deny") = {"deny"}
  BY <1>3, <1>4 DEF Serve!FirstWhere
<1>6. Serve!FirstWhere(list, LAMBDA c : c # "deny") \subseteq Serve!ToSet(list)
  <2>1. CASE others = {}
    BY <2>1 DEF Serve!FirstWhere
  <2>2. CASE others # {}
    <3>1. PICK other \in others :
             other = CHOOSE k \in others : \A o \in others : k <= o
      BY <1>3, <2>2, FirstPosition
    <3>2. Serve!FirstWhere(list, LAMBDA c : c # "deny") = {list[other]}
      BY <2>2, <3>1 DEF Serve!FirstWhere
    <3> QED
      BY <3>2 DEF Serve!ToSet
  <2> QED
    BY <2>1, <2>2
<1> QED
  BY <1>1, <1>5, <1>6 DEF Serve!Selectable, Serve!ToSet, list

LEMMA ServeStart == ASSUME Serve!Init PROVE ServeInv
<1>1. ServeTypes
  BY DEF Serve!Init, ServeTypes
<1>2. /\ Serve!IdsIn(<<>>) = {} /\ Serve!HoldsOnce(<<>>)
  BY DEF Serve!IdsIn, Serve!HoldsOnce
<1>3. Accounted /\ AllConsented
  BY <1>2 DEF Serve!Init, Accounted, OnePlace, AllConsented
<1> QED
  BY <1>1, <1>3 DEF ServeInv

\* An acceptance comes from a dialog: a frame, and a choice that was choosable
\* beside the refusal.
LEMMA Chosen ==
    ASSUME Forms \subseteq Seq(STRING), ServeTypes, Serve!Present
    PROVE  /\ fromRuntime # <<>> /\ mode \in {"auto", "native"}
           /\ LET m == Head(fromRuntime)
                  choosable == Serve!Selectable(m.choices)
              IN  /\ "deny" \in choosable /\ choosable \subseteq Serve!SafeApprovalChoices \cup {"yes"}
                  /\ \E c \in choosable :
                        /\ Serve!Answer(m.id, "accept", c) \in ToRuntimeFrames
                        /\ Serve!Reply(m, Serve!Answer(m.id, "accept", c))
                        /\ decided' = decided \cup {[id |-> m.id, choice |-> c, offered |-> choosable]}
<1> DEFINE m == Head(fromRuntime)
           choosable == Serve!Selectable(m.choices)
<1>1. fromRuntime # <<>> /\ Serve!ElicitationHandling(m) = "present" /\ Serve!Acceptable(m)
  BY DEF Serve!Present
<1>2. mode \in {"auto", "native"}
  BY <1>1 DEF Serve!ElicitationHandling
<1>3. m.id \in Nat /\ m.choices \in Seq(STRING)
  <2>1. m \in Elicited
    BY <1>1 DEF ServeTypes
  <2> QED
    BY <2>1 DEF Elicited
<1>4. PICK c \in choosable :
         /\ Serve!Reply(m, Serve!Answer(m.id, "accept", c))
         /\ decided' = decided \cup {[id |-> m.id, choice |-> c, offered |-> choosable]}
  BY DEF Serve!Present
<1>5. "deny" \in choosable /\ choosable \subseteq Serve!SafeApprovalChoices \cup {"yes"}
  BY <1>1, <1>3, <1>4, OffersRefusal
<1>6. Serve!Answer(m.id, "accept", c) \in ToRuntimeFrames
  BY <1>3, <1>4, <1>5 DEF ToRuntimeFrames, Frames, Serve!Answer
<1> QED
  BY <1>1, <1>2, <1>4, <1>5, <1>6

\* The frames are what the ends of the pipes say they are.
LEMMA ServeTypesKept ==
    ASSUME Forms \subseteq Seq(STRING), ServeTypes, [Serve!Next]_Serve!vars
    PROVE  ServeTypes'
<1> USE DEF ServeTypes
<1>1. CASE Serve!ClientSends
  <2>1. PICK m \in {Serve!Initialize(TRUE), Serve!Initialize(FALSE), Serve!Other} :
           fromClient' = Append(fromClient, m)
    BY <1>1 DEF Serve!ClientSends
  <2>2. /\ Serve!Initialize(TRUE) \in FromClientFrames
        /\ Serve!Initialize(FALSE) \in FromClientFrames
        /\ Serve!Other \in FromClientFrames
    BY DEF FromClientFrames, Frames, Serve!Initialize, Serve!Other
  <2>3. fromClient' \in Seq(FromClientFrames)
    <3>1. m \in FromClientFrames
      BY <2>1, <2>2
    <3> QED
      BY <2>1, <3>1, AppendElements
  <2>4. client' \in [open : BOOLEAN, sent : Nat, asked : SUBSET Nat]
    <3>1. client' = [client EXCEPT !.sent = @ + 1]
      BY <1>1 DEF Serve!ClientSends
    <3>2. client \in [open : BOOLEAN, sent : Nat, asked : SUBSET Nat]
      OBVIOUS
    <3> HIDE DEF ServeTypes
    <3> QED
      BY <3>1, <3>2
  <2>5. UNCHANGED <<runtime, toRuntime, fromRuntime>>
    BY <1>1 DEF Serve!ClientSends
  <2> QED
    BY <2>3, <2>4, <2>5
<1>2. ASSUME NEW id \in Serve!Ids, Serve!ClientAnswers(id)
      PROVE  ServeTypes'
  <2>1. id \in Nat
    BY <1>2 DEF Serve!ClientAnswers
  <2>2. PICK action \in {"accept", "cancel"} :
           fromClient' = Append(fromClient, Serve!Answer(id, action, "client"))
    BY <1>2 DEF Serve!ClientAnswers
  <2>3. Serve!Answer(id, action, "client") \in FromClientFrames
    BY <2>1, <2>2 DEF FromClientFrames, Frames, Serve!Answer
  <2>4. fromClient' \in Seq(FromClientFrames)
    BY <2>2, <2>3
  <2>5. client' \in [open : BOOLEAN, sent : Nat, asked : SUBSET Nat]
    BY <1>2 DEF Serve!ClientAnswers
  <2>6. UNCHANGED <<runtime, toRuntime, fromRuntime>>
    BY <1>2 DEF Serve!ClientAnswers
  <2> QED
    BY <2>4, <2>5, <2>6
<1>3. CASE Serve!ClientCloses
  BY <1>3 DEF Serve!ClientCloses
<1>4. CASE Serve!RuntimeReads
  <2> DEFINE m == Head(toRuntime)
  <2>1. m \in ToRuntimeFrames /\ toRuntime' \in Seq(ToRuntimeFrames)
    BY <1>4 DEF Serve!RuntimeReads
  <2>2. m.kind = "initialize" => m.form \in BOOLEAN
    BY <2>1 DEF ToRuntimeFrames, Frames
  <2>3. UNCHANGED <<client, fromClient, fromRuntime>>
    BY <1>4 DEF Serve!RuntimeReads
  <2>4. \/ m.kind = "initialize" /\ runtime' = [runtime EXCEPT !.advertised = m.form]
        \/ runtime' = [runtime EXCEPT !.answers = Append(@, m)]
        \/ runtime' = runtime
    <3> HIDE DEF ServeTypes
    <3> QED
      BY <1>4 DEF Serve!RuntimeReads
  <2>5. runtime' \in [advertised : BOOLEAN, asked : Nat, answers : Seq(ToRuntimeFrames),
                      down : BOOLEAN]
    <3>1. runtime.answers \in Seq(ToRuntimeFrames)
      OBVIOUS
    <3>2. Append(runtime.answers, m) \in Seq(ToRuntimeFrames)
      BY <2>1, <3>1, AppendElements
    <3> HIDE DEF m
    <3> QED
      BY <2>2, <2>4, <3>2
  <2> QED
    BY <2>1, <2>3, <2>5
<1>5. CASE Serve!RuntimeElicits
  <2>1. PICK form \in BOOLEAN, choices \in Forms :
           fromRuntime' = Append(fromRuntime, Serve!Elicitation(runtime.asked + 1, form, choices))
    BY <1>5 DEF Serve!RuntimeElicits
  <2>2. Serve!Elicitation(runtime.asked + 1, form, choices) \in Elicited
    BY <2>1 DEF Elicited, Serve!Elicitation
  <2>3. fromRuntime' \in Seq(Elicited)
    BY <2>1, <2>2
  <2>4. runtime' \in [advertised : BOOLEAN, asked : Nat, answers : Seq(ToRuntimeFrames),
                      down : BOOLEAN]
    <3>1. runtime' = [runtime EXCEPT !.asked = @ + 1]
      BY <1>5 DEF Serve!RuntimeElicits
    <3>2. runtime \in [advertised : BOOLEAN, asked : Nat, answers : Seq(ToRuntimeFrames),
                       down : BOOLEAN]
      OBVIOUS
    <3> HIDE DEF ServeTypes
    <3> QED
      BY <3>1, <3>2
  <2>5. UNCHANGED <<client, fromClient, toRuntime>>
    BY <1>5 DEF Serve!RuntimeElicits
  <2> QED
    BY <2>3, <2>4, <2>5
<1>6. CASE Serve!RuntimeExits
  BY <1>6 DEF Serve!RuntimeExits
<1>7. CASE Serve!PassUp
  <2> DEFINE m == Head(fromClient)
  <2>1. m \in FromClientFrames /\ fromClient' \in Seq(FromClientFrames)
    BY <1>7 DEF Serve!PassUp
  <2>2. Serve!Prepared(m) \in ToRuntimeFrames
    BY <2>1 DEF FromClientFrames, ToRuntimeFrames, Frames, Serve!Prepared,
       Serve!Initialize
  <2>3. toRuntime' \in {toRuntime, Append(toRuntime, Serve!Prepared(m))}
    BY <1>7 DEF Serve!PassUp
  <2>4. UNCHANGED <<client, runtime, fromRuntime>>
    BY <1>7 DEF Serve!PassUp
  <2>5. toRuntime' \in Seq(ToRuntimeFrames)
    <3>1. toRuntime \in Seq(ToRuntimeFrames)
      OBVIOUS
    <3>2. Append(toRuntime, Serve!Prepared(m)) \in Seq(ToRuntimeFrames)
      BY <2>2, <3>1, AppendElements
    <3> QED
      BY <2>3, <3>1, <3>2
  <2> QED
    BY <2>1, <2>4, <2>5
<1>8. CASE Serve!SeeClosed
  BY <1>8 DEF Serve!SeeClosed
<1>9. CASE Serve!Forward
  <2>1. Head(fromRuntime) \in Elicited /\ fromRuntime' \in Seq(Elicited)
    BY <1>9 DEF Serve!Forward
  <2>2. Head(fromRuntime).id \in Nat
    BY <2>1 DEF Elicited
  <2> QED
    BY <1>9, <2>1, <2>2 DEF Serve!Forward
<1>10. ASSUME bridge = "up", fromRuntime # <<>>, NEW answer \in ToRuntimeFrames,
              Serve!Reply(Head(fromRuntime), answer)
       PROVE  ServeTypes'
  <2>1. fromRuntime' \in Seq(Elicited)
    BY <1>10 DEF Serve!Reply
  <2>2. toRuntime' \in {toRuntime, Append(toRuntime, answer)}
    BY <1>10 DEF Serve!Reply
  <2>3. UNCHANGED <<client, runtime, fromClient>>
    BY <1>10 DEF Serve!Reply
  <2>4. toRuntime' \in Seq(ToRuntimeFrames)
    <3>1. toRuntime \in Seq(ToRuntimeFrames)
      OBVIOUS
    <3>2. Append(toRuntime, answer) \in Seq(ToRuntimeFrames)
      BY <1>10, <3>1, AppendElements
    <3> QED
      BY <2>2, <3>1, <3>2
  <2> QED
    BY <2>1, <2>3, <2>4
<1>11. CASE Serve!Present
  BY <1>10, <1>11, Chosen DEF Serve!Present
<1>12. CASE Serve!Cancel
  <2> DEFINE m == Head(fromRuntime)
  <2>1. m \in Elicited
    BY <1>12 DEF Serve!Cancel
  <2>2. Serve!Answer(m.id, "cancel", "none") \in ToRuntimeFrames
    BY <2>1 DEF ToRuntimeFrames, Frames, Serve!Answer, Elicited
  <2> QED
    BY <1>10, <1>12, <2>2 DEF Serve!Cancel
<1>13. CASE Serve!SeeExit
  BY <1>13 DEF Serve!SeeExit
<1>14. CASE UNCHANGED Serve!vars
  BY <1>14 DEF Serve!vars
<1> QED
  BY <1>1, <1>2, <1>3, <1>4, <1>5, <1>6, <1>7, <1>8, <1>9, <1>11, <1>12, <1>13, <1>14
     DEF Serve!Next

\* Every step of a bridge that stays up moves an id to its next place.
LEMMA AccountedKept ==
    ASSUME Forms \subseteq Seq(STRING), ServeTypes, Accounted, [Serve!Next]_Serve!vars,
           bridge' = "up"
    PROVE  Accounted'
<1>1. /\ fromClient \in Seq(FromClientFrames) /\ toRuntime \in Seq(ToRuntimeFrames)
      /\ fromRuntime \in Seq(Elicited) /\ runtime.answers \in Seq(ToRuntimeFrames)
      /\ runtime.asked \in Nat
  BY DEF ServeTypes
<1>2. client \in [open : BOOLEAN, sent : Nat, asked : SUBSET Nat]
  BY DEF ServeTypes
<1>3. \A m \in FromClientFrames \cup ToRuntimeFrames :
         Serve!IdsOf(m) = IF m.kind = "answer" THEN {m.id} ELSE {}
  BY DEF FromClientFrames, ToRuntimeFrames, Frames, Serve!IdsOf
<1>4. \A m \in Elicited : Serve!IdsOf(m) = {m.id}
  BY DEF Elicited, Serve!IdsOf
<1>5. CASE Serve!ClientSends
  <2>1. PICK m \in {Serve!Initialize(TRUE), Serve!Initialize(FALSE), Serve!Other} :
           fromClient' = Append(fromClient, m)
    BY <1>5 DEF Serve!ClientSends
  <2>2. m \in FromClientFrames /\ m.kind # "answer"
    <3>1. /\ Serve!Initialize(TRUE) \in FromClientFrames
          /\ Serve!Initialize(FALSE) \in FromClientFrames
          /\ Serve!Other \in FromClientFrames
          /\ Serve!Initialize(TRUE).kind # "answer" /\ Serve!Initialize(FALSE).kind # "answer"
          /\ Serve!Other.kind # "answer"
      BY DEF FromClientFrames, Frames, Serve!Initialize, Serve!Other
    <3> QED
      BY <2>1, <3>1
  <2>3. /\ Serve!IdsIn(fromClient') = Serve!IdsIn(fromClient)
        /\ Serve!HoldsOnce(fromClient')
    <3>1. Serve!IdsOf(m) = {}
      BY <1>3, <2>2
    <3>2. Serve!HoldsOnce(fromClient)
      BY DEF Accounted
    <3>3. Serve!IdsOf(m) \cap Serve!IdsIn(fromClient) = {}
      BY <3>1
    <3>4. /\ Serve!IdsIn(Append(fromClient, m)) = Serve!IdsIn(fromClient) \cup Serve!IdsOf(m)
          /\ Serve!HoldsOnce(Append(fromClient, m))
      BY <1>1, <2>2, <3>2, <3>3, IdsAppended
    <3> QED
      BY <2>1, <3>1, <3>4
  <2>4. client'.asked = client.asked
    BY <1>2, <1>5 DEF Serve!ClientSends
  <2>5. UNCHANGED <<runtime, toRuntime, fromRuntime>>
    BY <1>5 DEF Serve!ClientSends
  <2> QED
    BY <2>3, <2>4, <2>5 DEF Accounted
<1>6. ASSUME NEW id \in Serve!Ids, Serve!ClientAnswers(id)
      PROVE  Accounted'
  <2>1. PICK action \in {"accept", "cancel"} :
           fromClient' = Append(fromClient, Serve!Answer(id, action, "client"))
    BY <1>6 DEF Serve!ClientAnswers
  <2>2. id \in client.asked /\ id \in Nat
    BY <1>2, <1>6 DEF Serve!ClientAnswers
  <2>3. /\ Serve!Answer(id, action, "client") \in FromClientFrames
        /\ Serve!IdsOf(Serve!Answer(id, action, "client")) = {id}
    BY <2>1, <2>2 DEF FromClientFrames, Frames, Serve!Answer, Serve!IdsOf
  <2>4. id \notin Serve!IdsIn(fromClient)
    BY <2>2 DEF Accounted, OnePlace
  <2>5. /\ Serve!IdsIn(fromClient') = Serve!IdsIn(fromClient) \cup {id}
        /\ Serve!HoldsOnce(fromClient')
    BY <1>1, <2>1, <2>3, <2>4, IdsAppended DEF Accounted
  <2>6. client'.asked = client.asked \ {id}
    BY <1>2, <1>6 DEF Serve!ClientAnswers
  <2>7. UNCHANGED <<runtime, toRuntime, fromRuntime>>
    BY <1>6 DEF Serve!ClientAnswers
  <2>8. OnePlace(Serve!IdsIn(fromRuntime), client.asked \ {id}, Serve!IdsIn(fromClient) \cup {id},
                 Serve!IdsIn(toRuntime), Serve!IdsIn(runtime.answers), runtime.asked)
    BY <2>2 DEF Accounted, OnePlace
  <2> QED
    BY <2>5, <2>6, <2>7, <2>8 DEF Accounted
<1>7. CASE Serve!ClientCloses
  <2>1. client'.asked = client.asked
    BY <1>2, <1>7 DEF Serve!ClientCloses
  <2> QED
    BY <1>7, <2>1 DEF Accounted, Serve!ClientCloses
<1>8. CASE Serve!RuntimeReads
  <2> DEFINE m == Head(toRuntime)
  <2>1. m \in ToRuntimeFrames /\ toRuntime # <<>> /\ toRuntime' = Tail(toRuntime)
    BY <1>1, <1>8 DEF Serve!RuntimeReads
  <2>2. /\ Serve!IdsIn(toRuntime) = Serve!IdsIn(toRuntime') \cup Serve!IdsOf(m)
        /\ Serve!HoldsOnce(toRuntime') /\ Serve!IdsOf(m) \cap Serve!IdsIn(toRuntime') = {}
    BY <1>1, <2>1, IdsDropped DEF Accounted
  <2>3. runtime'.asked = runtime.asked /\ UNCHANGED <<client, fromClient, fromRuntime>>
    BY <1>8 DEF Serve!RuntimeReads, ServeTypes
  <2>4. CASE m.kind = "answer"
    <3>1. runtime'.answers = Append(runtime.answers, m)
      BY <1>8, <2>4 DEF Serve!RuntimeReads, ServeTypes
    <3>2. Serve!IdsOf(m) \cap Serve!IdsIn(runtime.answers) = {}
      BY <2>2 DEF Accounted, OnePlace
    <3>3. /\ Serve!IdsIn(runtime'.answers) = Serve!IdsIn(runtime.answers) \cup Serve!IdsOf(m)
          /\ Serve!HoldsOnce(runtime'.answers)
      BY <1>1, <2>1, <3>1, <3>2, IdsAppended DEF Accounted
    <3>4. OnePlace(Serve!IdsIn(fromRuntime), client.asked, Serve!IdsIn(fromClient),
                   Serve!IdsIn(toRuntime'), Serve!IdsIn(runtime'.answers), runtime.asked)
      BY <2>2, <3>3 DEF Accounted, OnePlace
    <3> QED
      BY <2>2, <2>3, <3>3, <3>4 DEF Accounted
  <2>5. CASE m.kind # "answer"
    <3>1. runtime'.answers = runtime.answers
      BY <1>8, <2>5 DEF Serve!RuntimeReads, ServeTypes
    <3>2. Serve!IdsOf(m) = {}
      BY <1>3, <2>1, <2>5
    <3> QED
      BY <2>2, <2>3, <3>1, <3>2 DEF Accounted
  <2> QED
    BY <2>4, <2>5
<1>9. CASE Serve!RuntimeElicits
  <2> DEFINE id == runtime.asked + 1
  <2>1. PICK form \in BOOLEAN, choices \in Forms :
           fromRuntime' = Append(fromRuntime, Serve!Elicitation(id, form, choices))
    BY <1>9 DEF Serve!RuntimeElicits
  <2>2. /\ Serve!Elicitation(id, form, choices) \in Elicited
        /\ Serve!IdsOf(Serve!Elicitation(id, form, choices)) = {id}
    BY <1>1, <2>1 DEF Elicited, Serve!Elicitation, Serve!IdsOf
  <2>3. id \notin 1..runtime.asked /\ 1..id = 1..runtime.asked \cup {id}
    BY <1>1
  <2>4. /\ Serve!IdsIn(fromRuntime') = Serve!IdsIn(fromRuntime) \cup {id}
        /\ Serve!HoldsOnce(fromRuntime')
    BY <1>1, <2>1, <2>2, <2>3, IdsAppended DEF Accounted, OnePlace
  <2>5. /\ runtime'.asked = id /\ runtime'.answers = runtime.answers
        /\ UNCHANGED <<client, fromClient, toRuntime>>
    BY <1>9 DEF Serve!RuntimeElicits, ServeTypes
  <2>6. OnePlace(Serve!IdsIn(fromRuntime) \cup {id}, client.asked, Serve!IdsIn(fromClient),
                 Serve!IdsIn(toRuntime), Serve!IdsIn(runtime.answers), id)
    BY <2>3 DEF Accounted, OnePlace
  <2> QED
    BY <2>4, <2>5, <2>6 DEF Accounted
<1>10. CASE Serve!RuntimeExits
  BY <1>10 DEF Serve!RuntimeExits, Accounted, ServeTypes
<1>11. CASE Serve!PassUp
  <2> DEFINE m == Head(fromClient)
  <2>1. /\ m \in FromClientFrames /\ fromClient # <<>> /\ fromClient' = Tail(fromClient)
        /\ toRuntime' = Append(toRuntime, Serve!Prepared(m))
        /\ UNCHANGED <<client, runtime, fromRuntime>>
    BY <1>1, <1>11 DEF Serve!PassUp
  <2>2. Serve!Prepared(m) \in ToRuntimeFrames /\ Serve!IdsOf(Serve!Prepared(m)) = Serve!IdsOf(m)
    BY <2>1 DEF FromClientFrames, ToRuntimeFrames, Frames, Serve!Prepared,
       Serve!Initialize,
                Serve!IdsOf
  <2>3. /\ Serve!IdsIn(fromClient) = Serve!IdsIn(fromClient') \cup Serve!IdsOf(m)
        /\ Serve!HoldsOnce(fromClient') /\ Serve!IdsOf(m) \cap Serve!IdsIn(fromClient') = {}
    BY <1>1, <2>1, IdsDropped DEF Accounted
  <2>4. Serve!IdsOf(m) \cap Serve!IdsIn(toRuntime) = {}
    BY <2>3 DEF Accounted, OnePlace
  <2>5. /\ Serve!IdsIn(toRuntime') = Serve!IdsIn(toRuntime) \cup Serve!IdsOf(m)
        /\ Serve!HoldsOnce(toRuntime')
    BY <1>1, <2>1, <2>2, <2>4, IdsAppended DEF Accounted
  <2>6. OnePlace(Serve!IdsIn(fromRuntime), client.asked, Serve!IdsIn(fromClient'),
                 Serve!IdsIn(toRuntime'), Serve!IdsIn(runtime.answers), runtime.asked)
    BY <2>3, <2>5 DEF Accounted, OnePlace
  <2> QED
    BY <2>1, <2>3, <2>5, <2>6 DEF Accounted
<1>12. CASE Serve!SeeClosed
  BY <1>12 DEF Serve!SeeClosed, Accounted
<1>13. CASE Serve!Forward
  <2> DEFINE m == Head(fromRuntime)
  <2>1. /\ m \in Elicited /\ fromRuntime # <<>> /\ fromRuntime' = Tail(fromRuntime)
        /\ UNCHANGED <<runtime, fromClient, toRuntime>>
    BY <1>1, <1>13 DEF Serve!Forward
  <2>2. client'.asked = client.asked \cup {m.id}
    BY <1>2, <1>13 DEF Serve!Forward
  <2>3. /\ Serve!IdsIn(fromRuntime) = Serve!IdsIn(fromRuntime') \cup {m.id}
        /\ Serve!HoldsOnce(fromRuntime') /\ m.id \notin Serve!IdsIn(fromRuntime')
    BY <1>1, <1>4, <2>1, IdsDropped DEF Accounted
  <2>4. OnePlace(Serve!IdsIn(fromRuntime'), client.asked \cup {m.id}, Serve!IdsIn(fromClient),
                 Serve!IdsIn(toRuntime), Serve!IdsIn(runtime.answers), runtime.asked)
    BY <2>3 DEF Accounted, OnePlace
  <2> QED
    BY <2>1, <2>2, <2>3, <2>4 DEF Accounted
<1>14. ASSUME fromRuntime # <<>>, NEW answer \in ToRuntimeFrames,
              answer.kind = "answer", answer.id = Head(fromRuntime).id,
              Serve!Reply(Head(fromRuntime), answer)
       PROVE  Accounted'
  <2> DEFINE m == Head(fromRuntime)
  <2>1. /\ m \in Elicited /\ fromRuntime' = Tail(fromRuntime)
        /\ toRuntime' = Append(toRuntime, answer)
        /\ UNCHANGED <<client, runtime, fromClient>>
    BY <1>1, <1>14 DEF Serve!Reply
  <2>2. /\ Serve!IdsIn(fromRuntime) = Serve!IdsIn(fromRuntime') \cup {m.id}
        /\ Serve!HoldsOnce(fromRuntime') /\ m.id \notin Serve!IdsIn(fromRuntime')
    BY <1>1, <1>4, <1>14, <2>1, IdsDropped DEF Accounted
  <2>3. Serve!IdsOf(answer) = {m.id} /\ m.id \notin Serve!IdsIn(toRuntime)
    BY <1>3, <1>14, <2>2 DEF Accounted, OnePlace
  <2>4. /\ Serve!IdsIn(toRuntime') = Serve!IdsIn(toRuntime) \cup {m.id}
        /\ Serve!HoldsOnce(toRuntime')
    BY <1>1, <1>14, <2>1, <2>3, IdsAppended DEF Accounted
  <2>5. OnePlace(Serve!IdsIn(fromRuntime'), client.asked, Serve!IdsIn(fromClient),
                 Serve!IdsIn(toRuntime'), Serve!IdsIn(runtime.answers), runtime.asked)
    BY <2>2, <2>4 DEF Accounted, OnePlace
  <2> QED
    BY <2>1, <2>2, <2>4, <2>5 DEF Accounted
<1>15. CASE Serve!Present
  BY <1>14, <1>15, Chosen DEF Serve!Answer
<1>16. CASE Serve!Cancel
  <2> DEFINE m == Head(fromRuntime)
  <2>1. m \in Elicited
    BY <1>1, <1>16 DEF Serve!Cancel
  <2>2. Serve!Answer(m.id, "cancel", "none") \in ToRuntimeFrames
    BY <2>1 DEF ToRuntimeFrames, Frames, Serve!Answer, Elicited
  <2> QED
    BY <1>14, <1>16, <2>2 DEF Serve!Cancel, Serve!Answer
<1>17. CASE Serve!SeeExit
  BY <1>17 DEF Serve!SeeExit
<1>18. CASE UNCHANGED Serve!vars
  BY <1>18 DEF Serve!vars, Accounted
<1> QED
  BY <1>5, <1>6, <1>7, <1>8, <1>9, <1>10, <1>11, <1>12, <1>13, <1>15, <1>16, <1>17, <1>18
     DEF Serve!Next

\* Only a dialog writes an acceptance that is not the client's.
LEMMA ConsentKept ==
    ASSUME Forms \subseteq Seq(STRING), ServeTypes, AllConsented, [Serve!Next]_Serve!vars
    PROVE  AllConsented'
<1>1. /\ fromClient \in Seq(FromClientFrames) /\ toRuntime \in Seq(ToRuntimeFrames)
      /\ fromRuntime \in Seq(Elicited) /\ runtime.answers \in Seq(ToRuntimeFrames)
  BY DEF ServeTypes
<1>2. mode' = mode /\ decided \subseteq decided'
  <2>1. CASE Serve!Present
    BY <2>1, Chosen DEF Serve!Reply
  <2>2. CASE Serve!Cancel
    BY <2>2 DEF Serve!Cancel, Serve!Reply
  <2> QED
    BY <2>1, <2>2 DEF Serve!Next, Serve!vars, Serve!ClientSends, Serve!ClientAnswers,
         Serve!ClientCloses, Serve!RuntimeReads, Serve!RuntimeElicits, Serve!RuntimeExits,
         Serve!PassUp, Serve!SeeClosed, Serve!Forward, Serve!SeeExit
<1>3. \A m : Consented(m) => Consented(m)'
  BY <1>2 DEF Consented
<1>4. ASSUME NEW m \in ToRuntimeFrames, Consented(m)', UNCHANGED runtime,
             toRuntime' = Append(toRuntime, m) \/ UNCHANGED toRuntime
      PROVE  AllConsented'
  <2>1. ASSUME NEW k \in DOMAIN toRuntime', toRuntime' = Append(toRuntime, m)
        PROVE  \/ toRuntime'[k] = m
               \/ k \in DOMAIN toRuntime /\ toRuntime'[k] = toRuntime[k]
    BY <1>1, <1>4, <2>1, AppendElements
  <2> QED
    BY <1>3, <1>4, <2>1 DEF AllConsented
<1>5. ASSUME UNCHANGED <<toRuntime, runtime>>
      PROVE  AllConsented'
  BY <1>3, <1>5 DEF AllConsented
<1>6. CASE Serve!RuntimeReads
  <2> DEFINE m == Head(toRuntime)
  <2>1. Consented(m) /\ m \in ToRuntimeFrames
    BY <1>1, <1>6, TailElements DEF Serve!RuntimeReads, AllConsented
  <2>2. \A k \in DOMAIN toRuntime' : \E j \in DOMAIN toRuntime : toRuntime'[k] = toRuntime[j]
    BY <1>1, <1>6, TailElements DEF Serve!RuntimeReads
  <2>3. runtime'.answers = Append(runtime.answers, m) \/ runtime'.answers = runtime.answers
    BY <1>6 DEF Serve!RuntimeReads, ServeTypes
  <2>4. ASSUME NEW k \in DOMAIN runtime'.answers, runtime'.answers = Append(runtime.answers, m)
        PROVE  \/ runtime'.answers[k] = m
               \/ k \in DOMAIN runtime.answers /\ runtime'.answers[k] = runtime.answers[k]
    BY <1>1, <2>1, <2>4, AppendElements
  <2> QED
    BY <1>3, <2>1, <2>2, <2>3, <2>4 DEF AllConsented
<1>7. CASE Serve!RuntimeElicits \/ Serve!RuntimeExits
  <2>1. runtime'.answers = runtime.answers /\ UNCHANGED toRuntime
    BY <1>7 DEF Serve!RuntimeElicits, Serve!RuntimeExits, ServeTypes
  <2> QED
    BY <1>3, <2>1 DEF AllConsented
<1>8. CASE Serve!PassUp
  <2> DEFINE m == Head(fromClient)
  <2>1. m \in FromClientFrames
    BY <1>1, <1>8 DEF Serve!PassUp
  <2>2. PICK f : f = Serve!Prepared(m)
    OBVIOUS
  <2>3. f \in ToRuntimeFrames /\ (f.kind = "answer" => f.choice = "client")
    BY <2>1, <2>2 DEF FromClientFrames, ToRuntimeFrames, Frames, Serve!Prepared,
       Serve!Initialize
  <2>4. Consented(f)'
    BY <2>3 DEF Consented
  <2>5. UNCHANGED runtime /\ (toRuntime' = Append(toRuntime, f) \/ UNCHANGED toRuntime)
    BY <1>8, <2>2 DEF Serve!PassUp
  <2> QED
    BY <1>4, <2>3, <2>4, <2>5
<1>9. CASE Serve!Present
  <2> DEFINE m == Head(fromRuntime)
             choosable == Serve!Selectable(m.choices)
  <2>1. PICK c \in choosable :
           /\ Serve!Answer(m.id, "accept", c) \in ToRuntimeFrames
           /\ Serve!Reply(m, Serve!Answer(m.id, "accept", c))
           /\ decided' = decided \cup {[id |-> m.id, choice |-> c, offered |-> choosable]}
    BY <1>9, Chosen
  <2>2. PICK f : f = Serve!Answer(m.id, "accept", c)
    OBVIOUS
  <2>3. PICK d : d = [id |-> m.id, choice |-> c, offered |-> choosable]
    OBVIOUS
  <2>4. /\ d \in decided' /\ d.id = f.id /\ d.choice = f.choice
        /\ "deny" \in d.offered /\ d.offered \subseteq Serve!SafeApprovalChoices \cup {"yes"}
        /\ mode' \in {"auto", "native"}
    BY <1>2, <1>9, <2>1, <2>2, <2>3, Chosen DEF Serve!Answer
  <2>5. Consented(f)'
    BY <2>4 DEF Consented
  <2> QED
    BY <1>4, <2>1, <2>2, <2>5 DEF Serve!Reply
<1>10. CASE Serve!Cancel
  <2>1. PICK f : f = Serve!Answer(Head(fromRuntime).id, "cancel", "none")
    OBVIOUS
  <2>2. f \in ToRuntimeFrames
    <3>1. Head(fromRuntime) \in Elicited
      BY <1>1, <1>10 DEF Serve!Cancel
    <3> QED
      BY <2>1, <3>1 DEF ToRuntimeFrames, Frames, Serve!Answer, Elicited
  <2>3. Consented(f)'
    BY <2>1 DEF Consented, Serve!Answer
  <2> QED
    BY <1>4, <1>10, <2>1, <2>2, <2>3 DEF Serve!Cancel, Serve!Reply
<1> QED
  BY <1>5, <1>6, <1>7, <1>8, <1>9, <1>10
     DEF Serve!Next, Serve!vars, Serve!ClientSends, Serve!ClientAnswers,
     Serve!ClientCloses,
         Serve!SeeClosed, Serve!Forward, Serve!SeeExit

\* Whatever the modes, the forms and the order of frames: the bridge loses no
\* elicitation and lets none be answered twice (mod.rs:119-176), and "nothing in
\* this function can synthesize consent" (interaction.rs:69-70).
THEOREM ConsentIsAChoice ==
    Forms \subseteq Seq(STRING)
       => (Serve!Spec => []( /\ Serve!ElicitationsAreAccountedFor
                            /\ Serve!ConsentIsSomeonesChoice))
<1> SUFFICES ASSUME Forms \subseteq Seq(STRING)
             PROVE  Serve!Spec => []( /\ Serve!ElicitationsAreAccountedFor
                                     /\ Serve!ConsentIsSomeonesChoice)
  OBVIOUS
<1>1. ServeInv /\ [Serve!Next]_Serve!vars => ServeInv'
  <2>1. bridge' = "up" => bridge = "up" \/ ~[Serve!Next]_Serve!vars
    BY DEF Serve!Next, Serve!vars, Serve!ClientSends, Serve!ClientAnswers,
       Serve!ClientCloses,
           Serve!RuntimeReads, Serve!RuntimeElicits, Serve!RuntimeExits, Serve!PassUp,
           Serve!SeeClosed, Serve!Forward, Serve!Present, Serve!Cancel, Serve!Reply,
           Serve!SeeExit
  <2> QED
    BY <2>1, ServeTypesKept, AccountedKept, ConsentKept DEF ServeInv
<1>2. ServeInv => Serve!ElicitationsAreAccountedFor
  <2> SUFFICES ASSUME ServeInv, bridge = "up"
               PROVE  Serve!ElicitationsAreAccountedFor
    BY DEF Serve!ElicitationsAreAccountedFor
  <2> DEFINE pipes == <<fromRuntime, fromClient, toRuntime, runtime.answers>>
             places == <<Serve!IdsIn(fromRuntime), Serve!IdsIn(fromClient), Serve!IdsIn(toRuntime),
                         Serve!IdsIn(runtime.answers), client.asked>>
  <2>1. Accounted
    BY DEF ServeInv
  <2>2. \A p \in 1..4 : Serve!HoldsOnce(pipes[p])
    BY <2>1 DEF Accounted
  <2>3. ASSUME NEW id \in 1..runtime.asked
        PROVE  \E p \in 1..5 : \A q \in 1..5 : id \in places[q] <=> q = p
    BY <2>1 DEF Accounted, OnePlace
  <2> QED
    BY <2>2, <2>3 DEF Serve!ElicitationsAreAccountedFor
<1>3. ServeInv => Serve!ConsentIsSomeonesChoice
  <2> SUFFICES ASSUME ServeInv,
                      NEW m \in Serve!ToSet(runtime.answers \o toRuntime)
               PROVE  Consented(m)
    BY DEF Consented, Serve!ConsentIsSomeonesChoice
  <2>1. PICK k \in DOMAIN (runtime.answers \o toRuntime) : m = (runtime.answers \o toRuntime)[k]
    BY DEF Serve!ToSet
  <2>2. \/ k \in DOMAIN runtime.answers /\ m = runtime.answers[k]
        \/ k - Len(runtime.answers) \in DOMAIN toRuntime /\ m = toRuntime[k - Len(runtime.answers)]
    BY <2>1 DEF ServeInv, ServeTypes
  <2> QED
    BY <2>2 DEF ServeInv, AllConsented
<1> QED
  BY <1>1, <1>2, <1>3, ServeStart, PTL DEF Serve!Spec

-----------------------------------------------------------------------------
(* McpServe: types *)

\* The runtime's frames: no id is asked for that the runtime did not give.
ServeTyped ==
    /\ ServeTypes /\ Serve!TypeOK
    /\ \A k \in DOMAIN fromRuntime : fromRuntime[k].id \in 1..runtime.asked

LEMMA ServeTypedKept ==
    ASSUME Forms \subseteq Seq(STRING), MaxElicitations \in Nat,
           ServeTyped, [Serve!Next]_(Serve!vars)
    PROVE  ServeTyped'
<1> USE DEF ServeTyped, Serve!TypeOK, Serve!Ids
<1>1. ServeTypes'
  BY ServeTypesKept
<1>2. CASE Serve!RuntimeElicits
  <2>1. PICK form \in BOOLEAN, choices \in Forms :
           fromRuntime' = Append(fromRuntime, Serve!Elicitation(runtime.asked + 1, form, choices))
    BY <1>2 DEF Serve!RuntimeElicits
  <2> DEFINE m == Serve!Elicitation(runtime.asked + 1, form, choices)
  <2>2. m \in Elicited /\ m.id = runtime.asked + 1
    BY DEF ServeTypes, Serve!Elicitation, Elicited
  <2>3. /\ runtime'.asked = runtime.asked + 1 /\ runtime.asked < MaxElicitations
        /\ UNCHANGED <<bridge, client>>
    BY <1>2 DEF Serve!RuntimeElicits, ServeTypes
  <2>4. runtime.asked \in Nat
    BY DEF ServeTypes
  <2> HIDE DEF m
  <2>5. \A k \in DOMAIN fromRuntime' : fromRuntime'[k].id \in 1..runtime'.asked
    <3>1. fromRuntime \in Seq(Elicited)
      BY DEF ServeTypes
    <3>2. SUFFICES ASSUME NEW k \in DOMAIN fromRuntime'
                   PROVE  fromRuntime'[k].id \in 1..runtime'.asked
      OBVIOUS
    <3>3. \/ k \in DOMAIN fromRuntime /\ fromRuntime'[k] = fromRuntime[k]
          \/ fromRuntime'[k] = m
      BY <2>1, <2>2, <3>1, AppendElements DEF m
    <3> QED
      BY <2>2, <2>3, <2>4, <3>3
  <2> QED
    BY <1>1, <2>3, <2>4, <2>5
<1>3. CASE Serve!Forward \/ Serve!Present \/ Serve!Cancel
  <2>1. /\ fromRuntime # <<>> /\ fromRuntime' = Tail(fromRuntime) /\ runtime' = runtime
        /\ bridge' \in {bridge, "failed"}
    BY <1>3 DEF Serve!Forward, Serve!Present, Serve!Cancel, Serve!Reply
  <2>2. /\ fromRuntime \in Seq(Elicited)
        /\ \A k \in DOMAIN fromRuntime' : \E j \in DOMAIN fromRuntime : fromRuntime'[k] = fromRuntime[j]
    BY <2>1, TailElements DEF ServeTypes
  <2>3. Head(fromRuntime).id \in Serve!Ids
    BY <2>1, <2>2
  <2>4. client'.asked \subseteq Serve!Ids
    <3>1. client' = client \/ client' = [client EXCEPT !.asked = @ \cup {Head(fromRuntime).id}]
      BY <1>3 DEF Serve!Forward, Serve!Present, Serve!Cancel, Serve!Reply
    <3>2. client'.asked \subseteq client.asked \cup {Head(fromRuntime).id}
      BY <3>1 DEF ServeTypes
    <3> QED
      BY <2>3, <3>2
  <2> QED
    BY <1>1, <2>1, <2>2, <2>4
<1>4. CASE Serve!ClientSends \/ Serve!ClientCloses \/ \E id \in Serve!Ids : Serve!ClientAnswers(id)
  <2>1. UNCHANGED <<runtime, fromRuntime, bridge>> /\ client'.asked \subseteq client.asked
    BY <1>4 DEF Serve!ClientSends, Serve!ClientCloses, Serve!ClientAnswers, ServeTypes
  <2> QED
    BY <1>1, <2>1
<1>5. CASE Serve!RuntimeReads \/ Serve!RuntimeExits
  <2>1. UNCHANGED <<client, fromRuntime, bridge>> /\ runtime'.asked = runtime.asked
    BY <1>5 DEF Serve!RuntimeReads, Serve!RuntimeExits, ServeTypes
  <2> QED
    BY <1>1, <2>1
<1>6. CASE Serve!PassUp \/ Serve!SeeClosed \/ Serve!SeeExit \/ UNCHANGED Serve!vars
  <2>1. UNCHANGED <<client, fromRuntime, runtime>> /\ bridge' \in {bridge, "ended", "failed"}
    BY <1>6 DEF Serve!PassUp, Serve!SeeClosed, Serve!SeeExit, Serve!vars
  <2> QED
    BY <1>1, <2>1
<1> QED
  BY <1>2, <1>3, <1>4, <1>5, <1>6 DEF Serve!Next

\* The bridge of `aos mcp serve` (mod.rs:119-176): whichever side closes first, the
\* client is asked nothing but elicitations of the runtime.
THEOREM ServeIsTyped ==
    ASSUME Forms \subseteq Seq(STRING), MaxElicitations \in Nat
    PROVE  Serve!Spec => []Serve!TypeOK
<1>1. ASSUME Serve!Init PROVE ServeTyped
  <2>1. ServeTypes
    BY <1>1, ServeStart DEF ServeInv
  <2>2. fromRuntime = <<>> /\ runtime.asked = 0 /\ client.asked = {} /\ bridge = "up"
    BY <1>1 DEF Serve!Init
  <2> QED
    BY <2>1, <2>2 DEF ServeTyped, Serve!TypeOK
<1>2. ServeTyped => Serve!TypeOK
  BY DEF ServeTyped
<1> QED
  BY <1>1, <1>2, ServeTypedKept, PTL DEF Serve!Spec

-----------------------------------------------------------------------------
(* Identity: the identity that was saved *)

\* A saved identity is in the file, and in the state once the agent has one.
SavedIsKept ==
    saved \notin {None, Spark!Stub} =>
       /\ file = saved /\ saved \in Callsigns
       /\ onboarded => spark = saved
       /\ prompt # None => \/ prompt.of = saved
                           \/ prompt.unread /\ prompt.of = "onboarding"

LEMMA SavedIsKeptByAll ==
    ASSUME SavedIsKept, [Spark!Next]_Spark!vars
    PROVE  SavedIsKept'
<1>1. CASE Spark!BuildSystemPrompt
  <2>1. PICK unread \in (IF onboarded THEN {FALSE} ELSE BOOLEAN) :
           LET detected == ~onboarded /\ ~unread /\ file \in Spark!Sparks \ {Spark!Stub}
           IN  /\ spark' = IF detected THEN file ELSE spark
               /\ onboarded' = (onboarded \/ detected)
               /\ prompt' = [of |-> IF ~onboarded' THEN "onboarding"
                                   ELSE IF spark' = Spark!Stub THEN Spark!Default ELSE spark',
                             unread |-> unread]
               /\ UNCHANGED <<file, saved>>
    BY <1>1 DEF Spark!BuildSystemPrompt
  <2>2. SUFFICES ASSUME saved \notin {None, Spark!Stub}
                 PROVE  /\ file = saved /\ saved \in Callsigns
                        /\ onboarded' => spark' = saved
                        /\ prompt'.of = saved \/ (prompt'.unread /\ prompt'.of = "onboarding")
    BY <2>1 DEF SavedIsKept
  <2>3. /\ file = saved /\ saved \in Callsigns /\ saved # Spark!Stub
        /\ onboarded => spark = saved
    BY <2>2 DEF SavedIsKept
  <2>4. file \in Spark!Sparks \ {Spark!Stub}
    BY <2>3 DEF Spark!Sparks
  <2>5. onboarded' => spark' = saved
    BY <2>1, <2>3
  <2>6. CASE onboarded \/ ~unread
    <3>1. onboarded' /\ spark' = saved /\ saved # Spark!Stub
      <4>1. CASE onboarded
        BY <2>1, <2>3, <2>5, <4>1
      <4>2. CASE ~onboarded /\ ~unread
        BY <2>1, <2>3, <2>4, <4>2
      <4> QED
        BY <2>6, <4>1, <4>2
    <3>2. prompt'.of = IF ~onboarded' THEN "onboarding"
                       ELSE IF spark' = Spark!Stub THEN Spark!Default ELSE spark'
      BY <2>1
    <3> QED
      BY <2>3, <3>1, <3>2
  <2>7. CASE ~onboarded /\ unread
    BY <2>1, <2>3, <2>7
  <2> QED
    BY <2>6, <2>7
<1>2. CASE Spark!IdentityExport
  BY <1>2 DEF Spark!IdentityExport, Spark!Torn, SavedIsKept
<1>3. CASE Spark!IdentityImport
  BY <1>3 DEF Spark!IdentityImport, SavedIsKept
<1>4. CASE Spark!SaveIdentity
  BY <1>4 DEF Spark!SaveIdentity, SavedIsKept
<1>5. CASE Spark!StoreReset
  BY <1>5 DEF Spark!StoreReset, SavedIsKept
<1>6. CASE Spark!FileEdited
  BY <1>6 DEF Spark!FileEdited, SavedIsKept
<1>7. CASE UNCHANGED Spark!vars
  BY <1>7 DEF Spark!vars, SavedIsKept
<1> QED
  BY <1>1, <1>2, <1>3, <1>4, <1>5, <1>6, <1>7 DEF Spark!Next

\* "Writes both KV state (for immediate use) and spark.toml (for persistence
\* across KV resets)": prompts are built for the identity last saved, through any
\* number of resets.  Reads and writes of the file may fail (lib.rs:153-155, 223,
\* 265): a failed read asks for a name in that one prompt, and a write that did
\* not leave the file as it was ends the claim.
THEOREM SavedIdentityStays == Spark!Spec => []Spark!SavedIdentityOutlivesResets
<1>1. Spark!Init => SavedIsKept
  BY DEF Spark!Init, SavedIsKept
<1>2. SavedIsKept => Spark!SavedIdentityOutlivesResets
  BY DEF SavedIsKept, Spark!SavedIdentityOutlivesResets
<1> QED
  BY <1>1, <1>2, SavedIsKeptByAll, PTL DEF Spark!Spec

-----------------------------------------------------------------------------
(* Identity: types *)

\* The identity in the state and in the file is one an agent may have.
THEOREM IdentityIsTyped == Spark!Spec => []Spark!TypeOK
<1> USE DEF Spark!TypeOK, Spark!Sparks
<1>1. Spark!Init => Spark!TypeOK
  BY DEF Spark!Init
<1>2. Spark!TypeOK /\ [Spark!Next]_(Spark!vars) => Spark!TypeOK'
  <2> SUFFICES ASSUME Spark!TypeOK, [Spark!Next]_(Spark!vars) PROVE Spark!TypeOK'
    OBVIOUS
  <2>1. CASE Spark!BuildSystemPrompt
    <3>1. PICK unread \in BOOLEAN, of \in Spark!Sparks \cup {"onboarding"} :
             prompt' = [of |-> of, unread |-> unread]
      <4>1. PICK unread \in (IF onboarded THEN {FALSE} ELSE BOOLEAN) :
               /\ (spark' = file /\ file \in Spark!Sparks) \/ spark' = spark
               /\ prompt' = [of |-> IF ~onboarded' THEN "onboarding"
                                    ELSE IF spark' = Spark!Stub THEN Spark!Default
                                    ELSE spark',
                             unread |-> unread]
        BY <2>1 DEF Spark!BuildSystemPrompt
      <4> DEFINE of == IF ~onboarded' THEN "onboarding"
                       ELSE IF spark' = Spark!Stub THEN Spark!Default ELSE spark'
      <4>2. of \in Spark!Sparks \cup {"onboarding"} /\ unread \in BOOLEAN
        BY <4>1
      <4> QED
        BY <4>1, <4>2
    <3>2. spark' \in Spark!Sparks /\ onboarded' \in BOOLEAN /\ UNCHANGED <<file, saved>>
      BY <2>1 DEF Spark!BuildSystemPrompt
    <3> QED
      BY <3>1, <3>2
  <2>2. CASE Spark!IdentityExport
    BY <2>2 DEF Spark!IdentityExport, Spark!Torn
  <2>3. CASE Spark!IdentityImport
    BY <2>3 DEF Spark!IdentityImport
  <2>4. CASE Spark!SaveIdentity
    BY <2>4 DEF Spark!SaveIdentity, Spark!Torn
  <2>5. CASE Spark!StoreReset \/ Spark!FileEdited
    BY <2>5 DEF Spark!StoreReset, Spark!FileEdited
  <2>6. CASE UNCHANGED Spark!vars
    BY <2>6 DEF Spark!vars
  <2> QED
    BY <2>1, <2>2, <2>3, <2>4, <2>5, <2>6 DEF Spark!Next
<1> QED
  BY <1>1, <1>2, PTL DEF Spark!Spec

-----------------------------------------------------------------------------
(* HostHooks: the owner of a session's route *)

\* Relays that are past their check and will retire session s.
Closing(s) == {m \in bus : Hosts!Closes(m, s)}

\* A process that has fired its hook has a session and a token; every message and
\* every open window is of one that has.
Fired(c) == process[c].pc # "idle"
HostTypes ==
    /\ token \in [Sessions -> Tokens \cup {None}]
    /\ DOMAIN owner = Sessions
    /\ overlapped \subseteq Sessions
    /\ DOMAIN process = Clients /\ DOMAIN window = Clients
    /\ \A c \in Clients : DOMAIN process[c] = {"pc", "session", "token", "event", "context"}
    /\ \A c \in Clients : DOMAIN window[c] = {"open", "got", "total", "offered"}
    /\ \A c \in Clients : Fired(c) => process[c].session \in Sessions /\ process[c].token \in Tokens
    /\ \A m \in bus : m.c \in Clients /\ Fired(m.c)
    /\ \A m \in bus : m.to = "retire" => process[m.c].event \in Hosts!Ending
    /\ \A c \in Clients : window[c].open => Fired(c)
\* Unless two ends overlapped: the owner is the token stored, and a relay about to
\* retire the session is alone and checked that token.
RouteOwned ==
    \A s \in Sessions \ overlapped :
        /\ owner[s] = {token[s]} \ {None}
        /\ \A m, n \in Closing(s) : m = n
        /\ \A m \in Closing(s) : process[m.c].token = token[s]

LEMMA HostTypesKept ==
    ASSUME HostTypes, [Hosts!Next]_Hosts!vars
    PROVE  HostTypes'
<1> USE DEF HostTypes, Fired, Hosts!Message
<1>1. ASSUME NEW c \in Clients, Hosts!Deliver(c)
      PROVE  HostTypes'
  BY <1>1 DEF Hosts!Deliver
<1>2. ASSUME NEW c \in Clients, Hosts!CloseWindow(c)
      PROVE  HostTypes'
  BY <1>2 DEF Hosts!CloseWindow, Hosts!Closed
<1>3. ASSUME NEW c \in Clients, Hosts!GiveUp(c)
      PROVE  HostTypes'
  BY <1>3 DEF Hosts!GiveUp
<1>4. ASSUME NEW c \in Clients, NEW p \in Contributors, Hosts!CollectContext(c, p)
      PROVE  HostTypes'
  BY <1>4 DEF Hosts!CollectContext, Hosts!PushContext
<1>5. ASSUME NEW m \in bus, Hosts!Refuse(m)
      PROVE  HostTypes'
  BY <1>5 DEF Hosts!Refuse
<1>6. ASSUME NEW m \in bus, Hosts!HandleIngress(m)
      PROVE  HostTypes'
  BY <1>6 DEF Hosts!HandleIngress
<1>7. ASSUME NEW m \in bus, Hosts!HandleOracleHook(m)
      PROVE  HostTypes'
  BY <1>7 DEF Hosts!HandleOracleHook
<1>8. ASSUME NEW m \in bus, Hosts!RelayResponse(m)
      PROVE  HostTypes'
  BY <1>8 DEF Hosts!RelayResponse
<1>9. ASSUME NEW m \in bus, Hosts!PassOn(m)
      PROVE  HostTypes'
  BY <1>9 DEF Hosts!PassOn
<1>10. ASSUME NEW m \in bus, Hosts!Retire(m)
       PROVE  HostTypes'
  BY <1>10 DEF Hosts!Retire
<1>11. CASE UNCHANGED Hosts!vars
  BY <1>11 DEF Hosts!vars
<1> QED
  BY <1>1, <1>2, <1>3, <1>4, <1>5, <1>6, <1>7, <1>8, <1>9, <1>10, <1>11 DEF Hosts!Next

\* What a step leaves as it was: the routes, and what the processes that have
\* fired fired with.
LEMMA FiredForGood ==
    ASSUME HostTypes, [Hosts!Next]_Hosts!vars
    PROVE  \A c \in Clients : Fired(c) =>
              /\ process'[c].session = process[c].session
              /\ process'[c].token = process[c].token
              /\ process'[c].event = process[c].event
<1>1. ASSUME UNCHANGED process
      PROVE  \A c \in Clients : process'[c] = process[c]
  BY <1>1
<1>2. ASSUME NEW c \in Clients, Hosts!Deliver(c) \/ Hosts!GiveUp(c)
      PROVE  \A d \in Clients : Fired(d) =>
                /\ process'[d].session = process[d].session
                /\ process'[d].token = process[d].token
                /\ process'[d].event = process[d].event
  BY <1>2 DEF Hosts!Deliver, Hosts!GiveUp, HostTypes, Fired
<1>3. ASSUME NEW m \in bus, Hosts!PassOn(m)
      PROVE  \A d \in Clients :
                /\ process'[d].session = process[d].session
                /\ process'[d].token = process[d].token
                /\ process'[d].event = process[d].event
  BY <1>3 DEF Hosts!PassOn, HostTypes
<1> QED
  BY <1>1, <1>2, <1>3 DEF Hosts!Next, Hosts!vars, Hosts!CloseWindow,
     Hosts!CollectContext, Hosts!Refuse, Hosts!HandleIngress, Hosts!HandleOracleHook,
     Hosts!RelayResponse, Hosts!Retire

\* A step that neither touches a session's route nor adds to its closing relays.
LEMMA RouteUntouched ==
    ASSUME HostTypes, RouteOwned, [Hosts!Next]_Hosts!vars, NEW s \in Sessions \ overlapped,
           UNCHANGED <<token[s], owner[s]>>, Closing(s)' \subseteq Closing(s)
    PROVE  /\ owner'[s] = {token'[s]} \ {None}
           /\ \A m, n \in Closing(s)' : m = n
           /\ \A m \in Closing(s)' : process'[m.c].token = token'[s]
<1>1. \A m \in Closing(s) : m.c \in Clients /\ Fired(m.c)
  BY DEF Closing, HostTypes
<1> QED
  BY <1>1, FiredForGood DEF RouteOwned

LEMMA RouteOwnedKept ==
    ASSUME None \notin Tokens, HostTypes, RouteOwned, [Hosts!Next]_Hosts!vars
    PROVE  RouteOwned'
<1> SUFFICES ASSUME NEW s \in Sessions \ overlapped'
             PROVE  /\ owner'[s] = {token'[s]} \ {None}
                    /\ \A m, n \in Closing(s)' : m = n
                    /\ \A m \in Closing(s)' : process'[m.c].token = token'[s]
  BY DEF RouteOwned
<1> DEFINE Kept == /\ owner'[s] = {token'[s]} \ {None}
                   /\ \A m, n \in Closing(s)' : m = n
                   /\ \A m \in Closing(s)' : process'[m.c].token = token'[s]
<1>1. s \notin overlapped
  BY DEF Hosts!Next, Hosts!vars, Hosts!Deliver, Hosts!CloseWindow, Hosts!GiveUp,
     Hosts!CollectContext, Hosts!Refuse, Hosts!HandleIngress, Hosts!HandleOracleHook,
     Hosts!RelayResponse, Hosts!PassOn, Hosts!Retire
<1>2. /\ owner[s] = {token[s]} \ {None}
      /\ \A m, n \in Closing(s) : m = n
      /\ \A m \in Closing(s) : process[m.c].token = token[s] /\ token[s] \in Tokens
  BY <1>1 DEF RouteOwned, Closing, HostTypes
<1>3. \A m \in bus : /\ m.c \in Clients
                     /\ process'[m.c].session = process[m.c].session
                     /\ process'[m.c].token = process[m.c].token
                     /\ process'[m.c].event = process[m.c].event
  BY FiredForGood DEF HostTypes
<1>4. \A m \in bus' \cap bus : m \in Closing(s)' <=> m \in Closing(s)
  BY <1>3 DEF Closing, Hosts!Closes
<1>5. ASSUME UNCHANGED <<token, owner>>, \A m \in bus' \ bus : m.to \notin {"pass", "retire"}
      PROVE  Kept
  <2>1. Closing(s)' \subseteq Closing(s)
    BY <1>4, <1>5 DEF Closing, Hosts!Closes
  <2> QED
    BY <1>1, <1>5, <2>1, RouteUntouched
<1>6. ASSUME NEW m \in bus, Hosts!HandleIngress(m)
      PROVE  Kept
  <2> DEFINE r == process[m.c].session
             t == process[m.c].token
  <2>1. r \in Sessions /\ t \in Tokens /\ t # None
    BY <1>6 DEF HostTypes, Fired
  <2>2. Closing(s)' \subseteq Closing(s)
    BY <1>4, <1>6 DEF Closing, Hosts!Closes, Hosts!HandleIngress, Hosts!Message
  <2>3. CASE Hosts!Authenticates(r, t, process[m.c].event) /\ r = s
    <3>1. token' = [token EXCEPT ![r] = t] /\ owner' = [owner EXCEPT ![r] = @ \cup {t}]
      BY <1>6, <2>3 DEF Hosts!HandleIngress
    <3>2. token[s] = t \/ token[s] = None
      BY <2>3 DEF Hosts!Authenticates
    <3> HIDE DEF r, t
    <3>3. token'[s] = t /\ owner'[s] = {t}
      BY <1>2, <2>1, <2>3, <3>1, <3>2 DEF HostTypes
    <3>4. \A n \in Closing(s)' : n \in Closing(s) /\ token[s] # None /\ token'[s] = token[s]
      BY <1>2, <2>2, <3>2, <3>3
    <3>5. \A n \in Closing(s)' : process'[n.c].token = token'[s]
      BY <1>2, <1>3, <3>4 DEF Closing
    <3> QED
      BY <1>2, <2>1, <2>2, <3>3, <3>5
  <2>4. CASE ~(Hosts!Authenticates(r, t, process[m.c].event) /\ r = s)
    <3>1. UNCHANGED <<token[s], owner[s]>>
      BY <1>6, <2>1, <2>4 DEF Hosts!HandleIngress, HostTypes
    <3> QED
      BY <1>1, <2>2, <3>1, RouteUntouched
  <2> QED
    BY <2>3, <2>4
<1>7. ASSUME NEW m \in bus, Hosts!RelayResponse(m)
      PROVE  Kept
  <2> DEFINE passed == Hosts!Message("pass", m.c, m.context)
  <2>1. UNCHANGED <<token, owner, process>>
    BY <1>7 DEF Hosts!RelayResponse
  <2>2. CASE passed \in bus' /\ Hosts!Closes(passed, s)'
    <3>1. passed.c = m.c /\ passed.to = "pass"
      BY DEF Hosts!Message
    <3>2. process[m.c].session = s /\ process[m.c].event \in Hosts!Ending
      BY <2>1, <2>2, <3>1 DEF Hosts!Closes
    <3>3. CASE passed \in bus
      <4>1. bus' \subseteq bus
        BY <1>7, <3>3 DEF Hosts!RelayResponse
      <4> QED
        BY <1>1, <1>4, <2>1, <4>1, RouteUntouched DEF Closing
    <3>4. CASE passed \notin bus
      <4>1. /\ token[s] = process[m.c].token
            /\ ~\E n \in bus : Hosts!Closes(n, s)
            /\ bus' = (bus \ {m}) \cup {passed}
        BY <1>7, <2>2, <3>2, <3>4 DEF Hosts!RelayResponse
      <4>2. Closing(s)' = {passed}
        BY <1>4, <2>2, <4>1 DEF Closing
      <4> HIDE DEF passed
      <4> QED
        BY <1>2, <2>1, <3>1, <4>1, <4>2
    <3> QED
      BY <3>3, <3>4
  <2>3. CASE ~(passed \in bus' /\ Hosts!Closes(passed, s)')
    <3>1. bus' \subseteq bus \cup {passed}
      BY <1>7 DEF Hosts!RelayResponse
    <3>2. Closing(s)' \subseteq Closing(s)
      BY <1>4, <2>3, <3>1 DEF Closing
    <3> QED
      BY <1>1, <2>1, <3>2, RouteUntouched
  <2> QED
    BY <2>2, <2>3
<1>8. ASSUME NEW m \in bus, Hosts!PassOn(m)
      PROVE  Kept
  <2> DEFINE last == Hosts!Message("retire", m.c, <<>>)
  <2>1. last.c = m.c /\ last.to = "retire" /\ m.to = "pass"
    BY <1>8 DEF Hosts!PassOn, Hosts!Message
  <2>2. /\ UNCHANGED <<token, owner>>
        /\ bus' \subseteq (bus \ {m}) \cup {last}
        /\ bus' # bus \ {m} => process[m.c].event \in Hosts!Ending
    BY <1>8 DEF Hosts!PassOn
  <2>3. CASE bus' # bus \ {m} /\ process[m.c].session = s
    <3>1. m \in Closing(s)
      BY <2>1, <2>2, <2>3 DEF Closing, Hosts!Closes
    <3>2. Closing(s) = {m}
      BY <1>2, <3>1
    <3>3. Closing(s)' \subseteq {last}
      <4> SUFFICES ASSUME NEW n \in Closing(s)'
                   PROVE  n = last
        OBVIOUS
      <4>1. n \in bus' /\ (n # last => n \in bus /\ n # m)
        BY <2>2 DEF Closing
      <4> HIDE DEF last
      <4> QED
        BY <1>4, <3>2, <4>1
    <3>4. process'[last.c].token = token'[s]
      BY <1>2, <1>3, <2>1, <2>2, <3>1
    <3> HIDE DEF last
    <3> QED
      BY <1>2, <2>2, <3>3, <3>4
  <2>4. CASE ~(bus' # bus \ {m} /\ process[m.c].session = s)
    <3>1. Closing(s)' \subseteq Closing(s)
      <4> SUFFICES ASSUME NEW n \in Closing(s)', n \notin bus
                   PROVE  FALSE
        BY <1>4 DEF Closing
      <4>1. n = last /\ process'[n.c].session = s /\ bus' # bus \ {m}
        BY <2>2 DEF Closing, Hosts!Closes
      <4> QED
        BY <1>3, <2>1, <2>4, <4>1
    <3> QED
      BY <1>1, <2>2, <3>1, RouteUntouched
  <2> QED
    BY <2>3, <2>4
<1>9. ASSUME NEW m \in bus, Hosts!Retire(m)
      PROVE  Kept
  <2> DEFINE r == process[m.c].session
  <2>1. r \in Sessions
    BY <1>9 DEF HostTypes, Fired
  <2>2. /\ token' = [token EXCEPT ![r] = None]
        /\ owner' = [owner EXCEPT ![r] = @ \ {process[m.c].token}]
        /\ bus' = bus \ {m} /\ UNCHANGED process
    BY <1>9 DEF Hosts!Retire
  <2>3. CASE r = s /\ process[m.c].event \in Hosts!Ending
    <3>1. m \in Closing(s)
      BY <1>9, <2>3 DEF Closing, Hosts!Closes, Hosts!Retire
    <3>2. Closing(s)' = {}
      BY <1>2, <1>4, <2>2, <3>1 DEF Closing
    <3>3. owner[s] = {process[m.c].token}
      BY <1>2, <3>1
    <3> HIDE DEF r
    <3>4. token'[s] = None /\ owner'[s] = {}
      BY <2>1, <2>2, <2>3, <3>3 DEF HostTypes
    <3> QED
      BY <3>2, <3>4
  <2>4. CASE r # s
    <3>1. Closing(s)' \subseteq Closing(s)
      BY <1>4, <2>2 DEF Closing
    <3>2. UNCHANGED <<token[s], owner[s]>>
      BY <2>1, <2>2, <2>4 DEF HostTypes
    <3> QED
      BY <1>1, <3>1, <3>2, RouteUntouched
  <2>5. process[m.c].event \in Hosts!Ending
    BY <1>9 DEF HostTypes, Hosts!Retire
  <2> QED
    BY <2>3, <2>4, <2>5
<1>10. CASE UNCHANGED Hosts!vars
  BY <1>5, <1>10 DEF Hosts!vars
<1>11. ASSUME NEW c \in Clients, Hosts!Deliver(c) \/ Hosts!CloseWindow(c) \/ Hosts!GiveUp(c)
       PROVE  Kept
  BY <1>5, <1>11 DEF Hosts!Deliver, Hosts!CloseWindow, Hosts!GiveUp, Hosts!Message
<1>12. ASSUME NEW c \in Clients, NEW p \in Contributors, Hosts!CollectContext(c, p)
       PROVE  Kept
  BY <1>5, <1>12 DEF Hosts!CollectContext
<1>13. ASSUME NEW m \in bus, Hosts!Refuse(m) \/ Hosts!HandleOracleHook(m)
       PROVE  Kept
  BY <1>5, <1>13 DEF Hosts!Refuse, Hosts!HandleOracleHook, Hosts!Message
<1>14. CASE Hosts!Next
  <2>1. CASE \E c \in Clients : Hosts!Deliver(c) \/ Hosts!CloseWindow(c) \/ Hosts!GiveUp(c)
    BY <1>11, <2>1
  <2>2. CASE \E c \in Clients, p \in Contributors : Hosts!CollectContext(c, p)
    BY <1>12, <2>2
  <2>3. CASE \E m \in bus : \/ Hosts!Refuse(m) \/ Hosts!HandleIngress(m)
                           \/ Hosts!HandleOracleHook(m) \/ Hosts!RelayResponse(m)
                           \/ Hosts!PassOn(m) \/ Hosts!Retire(m)
    BY <1>6, <1>7, <1>8, <1>9, <1>13, <2>3
  <2> QED
    BY <1>14, <2>1, <2>2, <2>3 DEF Hosts!Next
<1> QED
  BY <1>10, <1>14 DEF Kept

\* Whatever the number of hosts and the order of their events, losses and late
\* answers: between two retirements a session belongs to one token, and none is
\* retired by the end of an earlier one, unless two ends overlapped.
THEOREM RoutesHaveOneOwner ==
    None \notin Tokens => (Hosts!Spec => []Hosts!RouteHasOneOwner)
<1> SUFFICES ASSUME None \notin Tokens
             PROVE  Hosts!Spec => []Hosts!RouteHasOneOwner
  OBVIOUS
<1>1. Hosts!Init => HostTypes /\ RouteOwned
  BY DEF Hosts!Init, Hosts!Off, Hosts!Closed, HostTypes, RouteOwned, Closing, Fired
<1>2. HostTypes /\ RouteOwned /\ [Hosts!Next]_Hosts!vars => (HostTypes /\ RouteOwned)'
  BY HostTypesKept, RouteOwnedKept
<1>3. RouteOwned => Hosts!RouteHasOneOwner
  BY DEF RouteOwned, Hosts!RouteHasOneOwner
<1> QED
  BY <1>1, <1>2, <1>3, PTL DEF Hosts!Spec

-----------------------------------------------------------------------------
(* HostHooks: the two limits on a joined context *)

\* f counts the bytes of the first k contexts of joined, for every k.
Sum(f, joined, k) ==
    IF k = 0 THEN 0
    ELSE f[k - 1] + (IF k = 1 THEN 0 ELSE Hosts!Sep) + Size[joined[k]]
Counts(f, joined) == f = [k \in 0..Len(joined) |-> Sum(f, joined, k)]
Counted(joined) == \E f \in [0..Len(joined) -> Nat] : Counts(f, joined)

LEMMA BytesAreACount ==
    ASSUME NEW joined
    PROVE  Hosts!Bytes(joined) = (CHOOSE f : Counts(f, joined))[Len(joined)]
  BY Zenon DEF Hosts!Bytes, Counts, Sum

LEMMA CountsAgree ==
    ASSUME NEW joined \in Seq(Contributors), NEW f, NEW g, Counts(f, joined), Counts(g, joined)
    PROVE  f = g
<1> DEFINE Differ == {k \in 0..Len(joined) : f[k] # g[k]}
<1>1. f = [k \in 0..Len(joined) |-> f[k]] /\ g = [k \in 0..Len(joined) |-> g[k]]
  BY DEF Counts
<1>2. CASE Differ # {}
  <2> Differ \subseteq Nat
    OBVIOUS
  <2>1. PICK k \in Differ : \A other \in Differ : k <= other
    <3> HIDE DEF Differ
    <3> QED
      BY <1>2, FirstPosition
  <2>2. k \in 0..Len(joined) /\ f[k] = Sum(f, joined, k) /\ g[k] = Sum(g, joined, k)
    BY DEF Counts
  <2>3. k # 0
    BY <2>2 DEF Sum
  <2>4. k - 1 \in 0..Len(joined) /\ k - 1 \notin Differ
    BY <2>1, <2>2, <2>3
  <2>5. Sum(f, joined, k) = Sum(g, joined, k)
    BY <2>4 DEF Sum
  <2> QED
    BY <2>2, <2>5
<1>3. CASE Differ = {}
  BY <1>1, <1>3
<1> QED
  BY <1>2, <1>3

LEMMA BytesOfCount ==
    ASSUME NEW joined \in Seq(Contributors), NEW f, Counts(f, joined)
    PROVE  Hosts!Bytes(joined) = f[Len(joined)]
<1>1. \A g : Counts(g, joined) => g = f
  BY CountsAgree
<1> DEFINE C(g) == Counts(g, joined)
<1>2. C(f)
  OBVIOUS
<1> HIDE DEF C
<1>3. C(CHOOSE g : C(g))
  BY <1>2
<1>4. (CHOOSE g : C(g)) = f
  BY <1>1, <1>3 DEF C
<1> QED
  BY <1>4, BytesAreACount DEF C

\* One context more.
LEMMA CountOfAppend ==
    ASSUME Size \in [Contributors -> Nat],
           NEW joined \in Seq(Contributors), NEW p \in Contributors,
           NEW f \in [0..Len(joined) -> Nat], Counts(f, joined)
    PROVE  \E g \in [0..(Len(joined) + 1) -> Nat] :
              /\ Counts(g, Append(joined, p))
              /\ g[Len(joined) + 1] = f[Len(joined)] + Hosts!Separator(joined) + Size[p]
<1> DEFINE n == Len(joined)
           more == Append(joined, p)
           last == f[n] + Hosts!Separator(joined) + Size[p]
           g == [k \in 0..(n + 1) |-> IF k = n + 1 THEN last ELSE f[k]]
<1>1. n \in Nat /\ Len(more) = n + 1 /\ (joined = <<>>) = (n = 0)
  OBVIOUS
<1>2. /\ more[n + 1] = p
      /\ \A k \in 1..n : more[k] = joined[k]
  OBVIOUS
<1>3. last \in Nat
  BY <1>1 DEF Hosts!Separator, Hosts!Sep
<1>4. g \in [0..(n + 1) -> Nat]
  BY <1>1, <1>3
<1>5. ASSUME NEW k \in 0..(n + 1)
      PROVE  g[k] = Sum(g, more, k)
  <2>1. CASE k = n + 1
    <3>1. g[k] = last /\ k - 1 = n /\ g[k - 1] = f[n] /\ k # 0 /\ (k = 1) = (n = 0)
      BY <1>1, <2>1
    <3>2. more[k] = p
      BY <1>2, <2>1
    <3> HIDE DEF more, g
    <3> QED
      BY <1>1, <3>1, <3>2 DEF Sum, Hosts!Separator
  <2>2. CASE k # n + 1
    <3>1. k \in 0..n /\ g[k] = f[k] /\ (k # 0 => k - 1 \in 0..n /\ g[k - 1] = f[k - 1])
      BY <1>1, <2>2
    <3>2. k # 0 => more[k] = joined[k]
      BY <1>2, <3>1
    <3>3. f[k] = Sum(f, joined, k)
      BY <3>1 DEF Counts
    <3> HIDE DEF more, g
    <3> QED
      BY <3>1, <3>2, <3>3 DEF Sum
  <2> QED
    BY <2>1, <2>2
<1>6. Counts(g, more)
  <2> HIDE DEF more, last
  <2>1. g = [k \in 0..Len(more) |-> g[k]]
    BY <1>1
  <2> HIDE DEF g
  <2> QED
    BY <1>1, <1>5, <2>1 DEF Counts
<1>7. g[n + 1] = last
  BY <1>1
<1> QED
  BY <1>1, <1>4, <1>6, <1>7

\* Every list of contexts has a count: the shortest one without would be one
\* context longer than one with.
LEMMA CountsExist ==
    ASSUME Size \in [Contributors -> Nat]
    PROVE  \A joined \in Seq(Contributors) : Counted(joined)
<1> DEFINE K == {n \in Nat : \E joined \in Seq(Contributors) : Len(joined) = n /\ ~Counted(joined)}
<1>1. SUFFICES K = {}
  OBVIOUS
<1>2. SUFFICES ASSUME K # {}
               PROVE  FALSE
  OBVIOUS
<1>3. PICK n \in K : \A other \in K : n <= other
  BY <1>2, FirstPosition
<1>4. PICK joined \in Seq(Contributors) : Len(joined) = n /\ ~Counted(joined)
  BY <1>3
<1>5. n # 0
  <2> SUFFICES ASSUME n = 0
               PROVE  FALSE
    OBVIOUS
  <2> DEFINE f == [k \in 0..0 |-> 0]
  <2>1. Len(joined) = 0
    BY <1>4
  <2>2. f \in [0..Len(joined) -> Nat]
    BY <2>1
  <2>3. Counts(f, joined)
    BY <2>1 DEF Counts, Sum
  <2> QED
    BY <1>4, <2>2, <2>3 DEF Counted
<1> DEFINE front == [k \in 1..(n - 1) |-> joined[k]]
<1>6. /\ front \in Seq(Contributors) /\ Len(front) = n - 1
      /\ joined[n] \in Contributors /\ joined = Append(front, joined[n])
  BY <1>3, <1>4, <1>5
<1>7. Counted(front)
  BY <1>3, <1>5, <1>6
<1> HIDE DEF front
<1>8. PICK f \in [0..Len(front) -> Nat] : Counts(f, front)
  BY <1>7 DEF Counted
<1>9. Counted(Append(front, joined[n]))
  <2>1. PICK g \in [0..(Len(front) + 1) -> Nat] : Counts(g, Append(front, joined[n]))
    BY <1>6, <1>8, CountOfAppend
  <2>2. Len(Append(front, joined[n])) = Len(front) + 1
    BY <1>6
  <2> QED
    BY <2>1, <2>2 DEF Counted
<1> QED
  BY <1>4, <1>6, <1>9

LEMMA BytesAdd ==
    ASSUME Size \in [Contributors -> Nat], NEW joined \in Seq(Contributors)
    PROVE  /\ Hosts!Bytes(joined) \in Nat
           /\ \A p \in Contributors :
                 Hosts!Bytes(Append(joined, p)) = Hosts!Bytes(joined) + Hosts!Separator(joined) + Size[p]
<1>1. PICK f \in [0..Len(joined) -> Nat] : Counts(f, joined)
  BY CountsExist DEF Counted
<1>2. Hosts!Bytes(joined) = f[Len(joined)]
  BY <1>1, BytesOfCount
<1>3. ASSUME NEW p \in Contributors
      PROVE  Hosts!Bytes(Append(joined, p)) = f[Len(joined)] + Hosts!Separator(joined) + Size[p]
  <2>1. PICK g \in [0..(Len(joined) + 1) -> Nat] :
            /\ Counts(g, Append(joined, p))
            /\ g[Len(joined) + 1] = f[Len(joined)] + Hosts!Separator(joined) + Size[p]
    BY <1>1, CountOfAppend
  <2>2. Append(joined, p) \in Seq(Contributors) /\ Len(Append(joined, p)) = Len(joined) + 1
    OBVIOUS
  <2> QED
    BY <2>1, <2>2, BytesOfCount
<1> QED
  BY <1>1, <1>2, <1>3

LEMMA BytesOfNothing == Hosts!Bytes(<<>>) = 0
<1> DEFINE f == [k \in 0..0 |-> 0]
<1>1. <<>> \in Seq(Contributors) /\ Len(<<>>) = 0
  OBVIOUS
<1>2. Counts(f, <<>>)
  BY <1>1 DEF Counts, Sum
<1> HIDE DEF f
<1>3. Hosts!Bytes(<<>>) = f[Len(<<>>)]
  BY <1>1, <1>2, BytesOfCount
<1> QED
  BY <1>1, <1>3 DEF f

\* A window's count is the length of its join and within the limit; what it left
\* out would pass the limit behind any of its later states too; every answer on the
\* way to the relay was such a window's.
WindowCounted(c) ==
    /\ window[c].got \in Seq(Contributors)
    /\ window[c].total = Hosts!Bytes(window[c].got)
    /\ window[c].total <= MaxContext
    /\ \A p \in window[c].offered : p \in Contributors
    /\ \A p \in window[c].offered \ Hosts!ToSet(window[c].got) :
          window[c].total + Hosts!Separator(window[c].got) + Size[p] > MaxContext
WindowsCounted == \A c \in Clients : WindowCounted(c)
AnswersFit == \A m \in bus : m.to = "relay" => Hosts!ContextFits(m)

LEMMA WindowCountedByCollect ==
    ASSUME Size \in [Contributors -> Nat], MaxContext \in Nat, HostTypes, WindowsCounted,
           NEW c \in Clients, NEW p \in Contributors, Hosts!CollectContext(c, p)
    PROVE  WindowsCounted'
<1> DEFINE w == window[c]
<1>1. PICK joined : joined = window[c].got
  OBVIOUS
<1>2. PICK total : total = window[c].total
  OBVIOUS
<1>3. PICK tried : tried = window[c].offered
  OBVIOUS
<1>4. /\ joined \in Seq(Contributors) /\ total = Hosts!Bytes(joined) /\ total <= MaxContext
      /\ \A q \in tried : q \in Contributors
      /\ \A q \in tried \ Hosts!ToSet(joined) : total + Hosts!Separator(joined) + Size[q] > MaxContext
  BY <1>1, <1>2, <1>3 DEF WindowsCounted, WindowCounted
<1>5. total \in Nat /\ Hosts!Separator(joined) \in Nat /\ Size[p] \in Nat
  BY <1>4, BytesAdd DEF Hosts!Separator, Hosts!Sep
<1>6. DOMAIN window = Clients /\ DOMAIN w = {"open", "got", "total", "offered"}
  BY DEF HostTypes
<1>7. \A d \in Clients \ {c} : WindowCounted(d)'
  BY <1>6 DEF Hosts!CollectContext, WindowsCounted, WindowCounted
<1> DEFINE next == total + Hosts!Separator(joined) + Size[p]
           pushed == Hosts!PushContext(w, p)
<1>8. window'[c] = [pushed EXCEPT !.offered = tried \cup {p}]
  BY <1>3, <1>6 DEF Hosts!CollectContext
<1>9. pushed = IF next <= MaxContext THEN [w EXCEPT !.got = Append(joined, p), !.total = next] ELSE w
  BY <1>1, <1>2 DEF Hosts!PushContext
<1>10. CASE next <= MaxContext
  <2>1. /\ window'[c].got = Append(joined, p) /\ window'[c].total = next
        /\ window'[c].offered = tried \cup {p}
    <3> HIDE DEF next
    <3>1. pushed = [w EXCEPT !.got = Append(joined, p), !.total = next]
      BY <1>10, <1>9
    <3>2. /\ pushed.got = Append(joined, p) /\ pushed.total = next /\ pushed.offered = tried
          /\ DOMAIN pushed = {"open", "got", "total", "offered"}
      BY <1>3, <1>6, <3>1
    <3> HIDE DEF pushed
    <3> QED
      BY <1>8, <3>2
  <2>2. Append(joined, p) \in Seq(Contributors) /\ next = Hosts!Bytes(Append(joined, p))
    BY <1>4, BytesAdd
  <2>3. Hosts!ToSet(joined) \cup {p} \subseteq Hosts!ToSet(Append(joined, p))
    BY <1>4, AppendElements DEF Hosts!ToSet
  <2>4. Hosts!Separator(Append(joined, p)) = Hosts!Sep
    <3>1. Len(Append(joined, p)) = Len(joined) + 1 /\ Len(joined) \in Nat /\ Len(<<>>) = 0
      BY <1>4
    <3>2. Append(joined, p) # <<>>
      BY <3>1
    <3> QED
      BY <3>2 DEF Hosts!Separator
  <2>5. ASSUME NEW q \in (tried \cup {p}) \ Hosts!ToSet(Append(joined, p))
        PROVE  next + Hosts!Sep + Size[q] > MaxContext
    <3>1. q \in tried \ Hosts!ToSet(joined) /\ q \in Contributors /\ Size[q] \in Nat
      BY <1>4, <2>3
    <3>2. total + Hosts!Separator(joined) + Size[q] > MaxContext
      BY <1>4, <3>1
    <3> QED
      BY <1>5, <3>1, <3>2 DEF Hosts!Sep
  <2> HIDE DEF next
  <2>6. WindowCounted(c)'
    BY <1>4, <1>10, <2>1, <2>2, <2>4, <2>5 DEF WindowCounted
  <2> QED
    BY <1>7, <2>6 DEF WindowsCounted
<1>11. CASE ~(next <= MaxContext)
  <2>1. /\ window'[c].got = joined /\ window'[c].total = total
        /\ window'[c].offered = tried \cup {p}
    <3>1. pushed = w
      BY <1>11, <1>9
    <3> HIDE DEF pushed
    <3> QED
      BY <1>1, <1>2, <1>3, <1>6, <1>8, <3>1
  <2>2. next > MaxContext
    BY <1>5, <1>11
  <2>3. \A q \in (tried \cup {p}) \ Hosts!ToSet(joined) : total + Hosts!Separator(joined) + Size[q] > MaxContext
    BY <1>4, <2>2
  <2>4. WindowCounted(c)'
    BY <1>4, <2>1, <2>3 DEF WindowCounted
  <2> QED
    BY <1>7, <2>4 DEF WindowsCounted
<1> QED
  BY <1>10, <1>11

LEMMA CountsKept ==
    ASSUME Size \in [Contributors -> Nat], MaxContext \in Nat, HostTypes,
           WindowsCounted, AnswersFit, [Hosts!Next]_Hosts!vars
    PROVE  (WindowsCounted /\ AnswersFit)'
<1> USE DEF AnswersFit, Hosts!Message, Hosts!ContextFits
<1>1. ASSUME UNCHANGED window, \A m \in bus' \ bus : m.to = "relay" => m.context = <<>>
      PROVE  (WindowsCounted /\ AnswersFit)'
  BY <1>1, BytesOfNothing DEF WindowsCounted, WindowCounted
<1>2. ASSUME NEW c \in Clients, Hosts!CloseWindow(c)
      PROVE  (WindowsCounted /\ AnswersFit)'
  <2>1. Hosts!Bytes(window[c].got) <= MaxContext
    BY DEF WindowsCounted, WindowCounted
  <2>2. AnswersFit'
    BY <1>2, <2>1 DEF Hosts!CloseWindow
  <2>3. ASSUME NEW d \in Clients
        PROVE  WindowCounted(d)'
    <3>1. CASE d = c
      <4>1. window'[d] = Hosts!Closed
        BY <1>2, <3>1 DEF Hosts!CloseWindow, HostTypes
      <4> QED
        BY <4>1, BytesOfNothing DEF WindowCounted, Hosts!Closed, Hosts!ToSet
    <3>2. CASE d # c
      <4>1. window'[d] = window[d]
        BY <1>2, <3>2 DEF Hosts!CloseWindow, HostTypes
      <4> QED
        BY <4>1 DEF WindowsCounted, WindowCounted
    <3> QED
      BY <3>1, <3>2
  <2> QED
    BY <2>2, <2>3 DEF WindowsCounted
<1>3. ASSUME NEW c \in Clients, NEW p \in Contributors, Hosts!CollectContext(c, p)
      PROVE  (WindowsCounted /\ AnswersFit)'
  BY <1>3, WindowCountedByCollect DEF Hosts!CollectContext
<1>4. ASSUME NEW m \in bus, Hosts!HandleOracleHook(m)
      PROVE  (WindowsCounted /\ AnswersFit)'
  <2>1. AnswersFit'
    BY <1>4, BytesOfNothing DEF Hosts!HandleOracleHook
  <2>2. \A d \in Clients : /\ window'[d].got = window[d].got
                           /\ window'[d].total = window[d].total
                           /\ window'[d].offered = window[d].offered
    BY <1>4 DEF Hosts!HandleOracleHook, HostTypes
  <2> QED
    BY <2>1, <2>2 DEF WindowsCounted, WindowCounted
<1>5. CASE UNCHANGED Hosts!vars
  BY <1>5 DEF Hosts!vars, WindowsCounted, WindowCounted
<1>6. ASSUME NEW c \in Clients, Hosts!Deliver(c) \/ Hosts!GiveUp(c)
      PROVE  (WindowsCounted /\ AnswersFit)'
  BY <1>1, <1>6 DEF Hosts!Deliver, Hosts!GiveUp
<1>7. ASSUME NEW m \in bus, \/ Hosts!Refuse(m) \/ Hosts!HandleIngress(m)
                             \/ Hosts!RelayResponse(m) \/ Hosts!PassOn(m) \/ Hosts!Retire(m)
      PROVE  (WindowsCounted /\ AnswersFit)'
  <2>1. UNCHANGED window
    BY <1>7 DEF Hosts!Refuse, Hosts!HandleIngress, Hosts!RelayResponse, Hosts!PassOn, Hosts!Retire
  <2>2. \A n \in bus' \ bus : n.to # "relay"
    BY <1>7 DEF Hosts!Refuse, Hosts!HandleIngress, Hosts!RelayResponse, Hosts!PassOn, Hosts!Retire
  <2> QED
    BY <1>1, <2>1, <2>2
<1> QED
  BY <1>2, <1>3, <1>4, <1>5, <1>6, <1>7 DEF Hosts!Next

\* However many capsules contribute, of whatever sizes and in whatever order: the
\* bridge's count and the relay's limit agree, and nothing that fits is left out.
THEOREM ContextsFit ==
    Size \in [Contributors -> Nat] /\ MaxContext \in Nat
        => (Hosts!Spec => []Hosts!CollectedContextPasses)
<1> SUFFICES ASSUME Size \in [Contributors -> Nat], MaxContext \in Nat
             PROVE  Hosts!Spec => []Hosts!CollectedContextPasses
  OBVIOUS
<1> DEFINE Inv == HostTypes /\ WindowsCounted /\ AnswersFit
<1>1. Hosts!Init => Inv
  <2> SUFFICES ASSUME Hosts!Init
               PROVE  Inv
    OBVIOUS
  <2>1. HostTypes
    BY DEF Hosts!Init, Hosts!Off, Hosts!Closed, HostTypes, Fired
  <2>2. AnswersFit
    BY DEF Hosts!Init, AnswersFit
  <2>3. ASSUME NEW c \in Clients
        PROVE  WindowCounted(c)
    <3>1. window[c] = Hosts!Closed
      BY DEF Hosts!Init
    <3> QED
      BY <3>1, BytesOfNothing DEF WindowCounted, Hosts!Closed, Hosts!ToSet
  <2> QED
    BY <2>1, <2>2, <2>3 DEF WindowsCounted
<1>2. Inv /\ [Hosts!Next]_Hosts!vars => Inv'
  BY HostTypesKept, CountsKept
<1>3. Inv => Hosts!CollectedContextPasses
  <2> SUFFICES ASSUME Inv
               PROVE  \A c \in Clients : \A p \in window[c].offered :
                         p \notin Hosts!ToSet(window[c].got)
                            => Hosts!Bytes(Append(window[c].got, p)) > MaxContext
    BY DEF AnswersFit, Hosts!CollectedContextPasses
  <2> SUFFICES ASSUME NEW c \in Clients, NEW p \in window[c].offered,
                      p \notin Hosts!ToSet(window[c].got)
               PROVE  Hosts!Bytes(Append(window[c].got, p)) > MaxContext
    BY Zenon
  <2>1. /\ window[c].got \in Seq(Contributors) /\ p \in Contributors
        /\ window[c].total = Hosts!Bytes(window[c].got)
        /\ window[c].total + Hosts!Separator(window[c].got) + Size[p] > MaxContext
    BY DEF WindowsCounted, WindowCounted
  <2> QED
    BY <2>1, BytesAdd
<1> HIDE DEF Inv
<1> QED
  BY <1>1, <1>2, <1>3, PTL DEF Hosts!Spec

-----------------------------------------------------------------------------
(* HostHooks: types *)

\* A window took in what came to it, and everything that goes on from there holds
\* contributions only.
WindowTyped(c) ==
    /\ window[c].offered \subseteq Contributors
    /\ window[c].got \in Seq(window[c].offered)
Stages == {"ingress", "bridge", "relay", "pass", "retire"}
ContextsTyped ==
    /\ \A c \in Clients : /\ process[c].pc \in {"idle", "waiting", "done", "gone"}
                          /\ process[c].context \in Seq(Contributors)
    /\ \A m \in bus : m.to \in Stages /\ m.context \in Seq(Contributors)
    /\ \A c \in Clients : WindowTyped(c)

LEMMA MembersOfASequence ==
    ASSUME NEW S, NEW s \in Seq(S)
    PROVE  Hosts!ToSet(s) \subseteq S
BY DEF Hosts!ToSet

LEMMA CollectTyped ==
    ASSUME HostTypes, ContextsTyped, NEW c \in Clients, NEW p \in Contributors,
           Hosts!CollectContext(c, p)
    PROVE  WindowTyped(c)'
<1> DEFINE w == window[c]
           all == w.offered \cup {p}
<1>1. DOMAIN w = {"open", "got", "total", "offered"}
  BY DEF HostTypes
<1>2. w.got \in Seq(all) /\ all \subseteq Contributors /\ Append(w.got, p) \in Seq(all)
  <2>1. w.got \in Seq(w.offered) /\ w.offered \subseteq Contributors
    BY DEF ContextsTyped, WindowTyped
  <2> HIDE DEF w
  <2> QED
    BY <2>1
<1>3. window'[c] = [Hosts!PushContext(w, p) EXCEPT !.offered = w.offered \cup {p}]
  BY DEF Hosts!CollectContext, HostTypes
<1>4. window'[c].offered = all /\ window'[c].got \in {w.got, Append(w.got, p)}
  <2> HIDE DEF w
  <2> QED
    BY <1>1, <1>3 DEF Hosts!PushContext
<1> HIDE DEF w, all
<1> QED
  BY <1>2, <1>4 DEF WindowTyped

LEMMA ContextsTypedKept ==
    ASSUME HostTypes, ContextsTyped, [Hosts!Next]_(Hosts!vars)
    PROVE  ContextsTyped'
<1> DEFINE MessageTyped(m) == m.to \in Stages /\ m.context \in Seq(Contributors)
           ProcessTyped(x) == x.pc \in {"idle", "waiting", "done", "gone"} /\ x.context \in Seq(Contributors)
<1>1. <<>> \in Seq(Contributors)
  OBVIOUS
<1>2. ASSUME \A d \in Clients : ProcessTyped(process'[d]), \A d \in Clients : WindowTyped(d)',
             \A m \in bus' \ bus : MessageTyped(m)
      PROVE  ContextsTyped'
  BY <1>2 DEF ContextsTyped
<1>3. UNCHANGED process => \A d \in Clients : ProcessTyped(process'[d])
  BY DEF ContextsTyped
<1>4. UNCHANGED window => \A d \in Clients : WindowTyped(d)'
  BY DEF ContextsTyped, WindowTyped
<1>5. ASSUME NEW c \in Clients, Hosts!Deliver(c)
      PROVE  ContextsTyped'
  <2>1. ASSUME NEW d \in Clients
        PROVE  ProcessTyped(process'[d])
    <3>1. PICK s \in Sessions, t \in Tokens, e \in Hosts!Events :
             process' = [process EXCEPT ![c] = [pc |-> "waiting", session |-> s,
                           token |-> t, event |-> e, context |-> <<>>]]
      BY <1>5 DEF Hosts!Deliver
    <3>2. CASE d = c
      <4>1. process'[d] = [pc |-> "waiting", session |-> s, token |-> t, event |-> e,
                           context |-> <<>>]
        BY <3>1, <3>2 DEF HostTypes
      <4> QED
        BY <1>1, <4>1
    <3>3. CASE d # c
      BY <3>1, <3>3 DEF HostTypes, ContextsTyped
    <3> QED
      BY <3>2, <3>3
  <2>2. \A m \in bus' \ bus : MessageTyped(m)
    <3>1. \A m \in bus' \ bus : m = Hosts!Message("ingress", c, <<>>)
      BY <1>5 DEF Hosts!Deliver
    <3>2. MessageTyped(Hosts!Message("ingress", c, <<>>))
      BY <1>1 DEF Hosts!Message, Stages
    <3> QED
      BY <3>1, <3>2
  <2> QED
    BY <1>2, <1>4, <1>5, <2>1, <2>2 DEF Hosts!Deliver
<1>6. ASSUME NEW c \in Clients, Hosts!GiveUp(c)
      PROVE  ContextsTyped'
  <2>1. ASSUME NEW d \in Clients
        PROVE  ProcessTyped(process'[d])
    BY <1>6 DEF Hosts!GiveUp, HostTypes, ContextsTyped
  <2> QED
    BY <1>2, <1>4, <1>6, <2>1 DEF Hosts!GiveUp
<1>7. ASSUME NEW c \in Clients, Hosts!CloseWindow(c)
      PROVE  ContextsTyped'
  <2>1. window[c].got \in Seq(Contributors)
    BY DEF ContextsTyped, WindowTyped
  <2>2. ASSUME NEW d \in Clients
        PROVE  WindowTyped(d)'
    <3>1. CASE d = c
      <4>1. window'[d].got = <<>> /\ window'[d].offered = {}
        BY <1>7, <3>1 DEF Hosts!CloseWindow, HostTypes, Hosts!Closed
      <4> QED
        BY <4>1 DEF WindowTyped
    <3>2. CASE d # c
      <4>1. window'[d] = window[d]
        BY <1>7, <3>2 DEF Hosts!CloseWindow, HostTypes
      <4> QED
        BY <4>1 DEF WindowTyped, ContextsTyped
    <3> QED
      BY <3>1, <3>2
  <2>3. \A m \in bus' \ bus : MessageTyped(m)
    BY <1>7, <2>1 DEF Hosts!CloseWindow, Hosts!Message, Stages
  <2> QED
    BY <1>2, <1>3, <1>7, <2>2, <2>3 DEF Hosts!CloseWindow
<1>8. ASSUME NEW c \in Clients, NEW p \in Contributors, Hosts!CollectContext(c, p)
      PROVE  ContextsTyped'
  <2>1. \A d \in Clients \ {c} : window'[d] = window[d]
    BY <1>8 DEF Hosts!CollectContext, HostTypes
  <2>2. \A d \in Clients : WindowTyped(d)'
    BY <1>8, <2>1, CollectTyped DEF ContextsTyped, WindowTyped
  <2> QED
    BY <1>2, <1>3, <1>8, <2>2 DEF Hosts!CollectContext
<1>9. ASSUME NEW m \in bus, Hosts!HandleOracleHook(m)
      PROVE  ContextsTyped'
  <2>1. \A d \in Clients : /\ window'[d].got = window[d].got
                           /\ window'[d].offered = window[d].offered
    BY <1>9 DEF Hosts!HandleOracleHook, HostTypes
  <2>2. \A d \in Clients : WindowTyped(d)'
    BY <2>1 DEF ContextsTyped, WindowTyped
  <2>3. \A n \in bus' \ bus : MessageTyped(n)
    <3>1. \A n \in bus' \ bus : n = Hosts!Message("relay", m.c, <<>>)
      BY <1>9 DEF Hosts!HandleOracleHook
    <3>2. MessageTyped(Hosts!Message("relay", m.c, <<>>))
      BY <1>1 DEF Hosts!Message, Stages
    <3> QED
      BY <3>1, <3>2
  <2> QED
    BY <1>2, <1>3, <1>9, <2>2, <2>3 DEF Hosts!HandleOracleHook
<1>10. ASSUME NEW m \in bus, Hosts!Refuse(m) \/ Hosts!HandleIngress(m)
       PROVE  ContextsTyped'
  <2>1. \A n \in bus' \ bus : n = Hosts!Message("bridge", m.c, <<>>)
    BY <1>10 DEF Hosts!Refuse, Hosts!HandleIngress
  <2>2. MessageTyped(Hosts!Message("bridge", m.c, <<>>))
    BY <1>1 DEF Hosts!Message, Stages
  <2>3. \A n \in bus' \ bus : MessageTyped(n)
    BY <2>1, <2>2
  <2> QED
    BY <1>2, <1>3, <1>4, <1>10, <2>3 DEF Hosts!Refuse, Hosts!HandleIngress
<1>11. ASSUME NEW m \in bus, Hosts!PassOn(m)
       PROVE  ContextsTyped'
  <2>1. m.context \in Seq(Contributors) /\ m.c \in Clients
    BY DEF ContextsTyped, HostTypes
  <2>2. ASSUME NEW d \in Clients
        PROVE  ProcessTyped(process'[d])
    <3> DEFINE x == process[d]
               y == [x EXCEPT !.pc = "done", !.context = m.context]
    <3>1. process'[d] \in {x, y}
      BY <1>11 DEF Hosts!PassOn, HostTypes
    <3>2. ProcessTyped(x) /\ DOMAIN x = {"pc", "session", "token", "event", "context"}
      BY DEF ContextsTyped, HostTypes
    <3> HIDE DEF x
    <3>3. ProcessTyped(y)
      BY <2>1, <3>2
    <3> HIDE DEF y
    <3> QED
      BY <3>1, <3>2, <3>3
  <2>3. \A n \in bus' \ bus : n = Hosts!Message("retire", m.c, <<>>)
    BY <1>11 DEF Hosts!PassOn
  <2>4. MessageTyped(Hosts!Message("retire", m.c, <<>>))
    BY <1>1 DEF Hosts!Message, Stages
  <2>5. \A n \in bus' \ bus : MessageTyped(n)
    BY <2>3, <2>4
  <2> QED
    BY <1>2, <1>4, <1>11, <2>2, <2>5 DEF Hosts!PassOn
<1>12. ASSUME NEW m \in bus, Hosts!RelayResponse(m)
       PROVE  ContextsTyped'
  <2>1. m.context \in Seq(Contributors)
    BY DEF ContextsTyped
  <2>2. \A n \in bus' \ bus : n = Hosts!Message("pass", m.c, m.context)
    BY <1>12 DEF Hosts!RelayResponse
  <2>3. MessageTyped(Hosts!Message("pass", m.c, m.context))
    BY <2>1 DEF Hosts!Message, Stages
  <2>4. \A n \in bus' \ bus : MessageTyped(n)
    BY <2>2, <2>3
  <2> QED
    BY <1>2, <1>3, <1>4, <1>12, <2>4 DEF Hosts!RelayResponse
<1>13. ASSUME NEW m \in bus, Hosts!Retire(m)
       PROVE  ContextsTyped'
  BY <1>2, <1>3, <1>4, <1>13 DEF Hosts!Retire
<1>14. CASE UNCHANGED Hosts!vars
  BY <1>2, <1>3, <1>4, <1>14 DEF Hosts!vars
<1> QED
  BY <1>5, <1>6, <1>7, <1>8, <1>9, <1>10, <1>11, <1>12, <1>13, <1>14 DEF Hosts!Next

\* handle_oracle_hook: what a window holds came to it while it was open.
THEOREM HostsAreTyped == Hosts!Spec => []Hosts!TypeOK
<1>1. Hosts!Init => HostTypes /\ ContextsTyped
  <2> SUFFICES ASSUME Hosts!Init
               PROVE  HostTypes /\ ContextsTyped
    OBVIOUS
  <2>1. HostTypes
    BY DEF Hosts!Init, Hosts!Off, Hosts!Closed, HostTypes, Fired
  <2>2. ASSUME NEW c \in Clients
        PROVE  WindowTyped(c)
    <3>1. window[c].got = <<>> /\ window[c].offered = {}
      BY DEF Hosts!Init, Hosts!Closed
    <3> QED
      BY <3>1 DEF WindowTyped
  <2>3. ASSUME NEW c \in Clients
        PROVE  process[c].pc = "idle" /\ process[c].context \in Seq(Contributors)
    <3>1. process[c].pc = "idle" /\ process[c].context = <<>>
      BY DEF Hosts!Init, Hosts!Off
    <3> QED
      BY <3>1
  <2>4. bus = {}
    BY DEF Hosts!Init
  <2> QED
    BY <2>1, <2>2, <2>3, <2>4 DEF ContextsTyped
<1>2. HostTypes /\ ContextsTyped /\ [Hosts!Next]_(Hosts!vars) => (HostTypes /\ ContextsTyped)'
  BY HostTypesKept, ContextsTypedKept
<1>3. HostTypes /\ ContextsTyped => Hosts!TypeOK
  BY MembersOfASequence DEF HostTypes, ContextsTyped, WindowTyped, Stages, Hosts!TypeOK
<1> QED
  BY <1>1, <1>2, <1>3, PTL DEF Hosts!Spec

-----------------------------------------------------------------------------
(* Registry: what subscribers hear, and why a selection moves *)

\* A registry state is its two fields.
IsState(state) == state = [providers |-> state.providers, active |-> state.active]

\* What an operation leaves of a state whose selection was `old`: the selection
\* is the old one, or there was none, or the providers found do not offer it.
Justified(state, old) ==
    \/ state.active = old
    \/ old = Models!Nothing
    \/ state.providers # <<>> /\ ~Models!Contains(state.providers, old)

LEMMA Discovery ==
    ASSUME NEW state, IsState(state), NEW when, NEW arrival
    PROVE  LET found == Models!WithProviders(state, when, arrival)
           IN  IsState(found) /\ found.active = state.active
  BY DEF Models!WithProviders, IsState

LEMMA Healing ==
    ASSUME NEW state, IsState(state)
    PROVE  /\ IsState(Models!Reconciled(state))
           /\ Models!Reconciled(state).providers = state.providers
           /\ Justified(Models!Reconciled(state), state.active)
  BY DEF Models!Reconciled, IsState, Justified

LEMMA Defaulting ==
    ASSUME NEW state, IsState(state), NEW old, Justified(state, old)
    PROVE  /\ IsState(Models!AutoSelected(state))
           /\ Justified(Models!AutoSelected(state), old)
  BY DEF Models!AutoSelected, IsState, Justified

\* The invariant, and what every step establishes.
Follows == IsState(stored) /\ Models!SubscribersFollow
Step == Follows' /\ Models!MoveHasCause

\* What a save and its broadcast leave, whichever of the two failed.
LEMMA Committed ==
    ASSUME NEW state, NEW announced, Models!Commit(state, announced)
    PROVE  /\ stored' = state \/ stored' = stored
           /\ heard' = state.active \/ heard' = heard
           /\ announced /\ ~lost' => stored' = state /\ heard' = state.active
           /\ ~announced => heard' = heard /\ lost' = lost
           /\ lost \in BOOLEAN => lost' \in BOOLEAN
  BY DEF Models!Commit

\* A state that is saved and announced, whether the store took it or not.
LEMMA SavedAloud ==
    ASSUME Follows, NEW state, IsState(state),
           Models!Commit(state, Models!Announced(state)),
           \/ Justified(state, stored.active)
           \/ reply'.sub = "unset" /\ reply'.exit = 0,
           reply'.sub = "set" => reply'.exit # 0
    PROVE  Step
<1>1. stored' = state \/ stored' = stored
  BY Committed
<1>2. IsState(stored)'
  BY <1>1 DEF IsState, Follows
<1>3. Models!SubscribersFollow'
  <2>1. CASE Models!Announced(state)
    BY <2>1, Committed DEF Models!SubscribersFollow
  <2>2. CASE ~Models!Announced(state)
    <3>1. stored'.active = stored.active /\ heard' = heard /\ lost' = lost
      BY <1>1, <2>2, Committed DEF Models!Announced
    <3> QED
      BY <3>1 DEF Follows, Models!SubscribersFollow
  <2> QED
    BY <2>1, <2>2
<1>4. Models!MoveHasCause
  BY <1>1 DEF Models!MoveHasCause, Justified
<1> QED
  BY <1>2, <1>3, <1>4 DEF Step, Follows

\* What set_active_model_by_id answers is what it stored and broadcast.
LEMMA SetAloud ==
    ASSUME Follows, NEW state, IsState(state), NEW input, Models!SetActive(state, input)
    PROVE  Step
<1> DEFINE found == Models!ResolveSelection(input, state.providers)
           next == [state EXCEPT !.active = found.id]
<1>1. CASE found.ok
  <2>1. /\ Models!Commit(next, TRUE)
        /\ reply' = [sub |-> "set", exit |-> 0, id |-> found.id]
    BY <1>1 DEF Models!SetActive
  <2>2. IsState(next) /\ next.active = found.id
    BY DEF IsState
  <2> HIDE DEF found, next
  <2>3. stored' = next \/ stored' = stored
    BY <2>1, Committed
  <2>4. ~lost' => stored' = next /\ heard' = found.id
    BY <2>1, <2>2, Committed
  <2>5. IsState(stored)'
    BY <2>2, <2>3 DEF IsState, Follows
  <2> QED
    BY <2>1, <2>2, <2>4, <2>5 DEF Step, Follows, Models!SubscribersFollow,
       Models!MoveHasCause
<1>2. CASE ~found.ok
  <2>1. /\ reply' = [sub |-> "set", exit |-> 1, id |-> Models!Nothing]
        /\ UNCHANGED <<stored, heard, lost>>
    BY <1>2 DEF Models!SetActive
  <2> QED
    BY <2>1 DEF Step, Follows, IsState, Models!SubscribersFollow, Models!MoveHasCause
<1> QED
  BY <1>1, <1>2

\* Steps that save without a word: nothing but the providers moves.
LEMMA RefreshQuiet == ASSUME Follows, Models!Refresh PROVE Step
<1>1. PICK a \in Models!Arrivals :
         Models!Commit(Models!WithProviders(stored, TRUE, a), FALSE)
  BY DEF Models!Refresh
<1>2. reply' = Models!NoReply
  BY DEF Models!Refresh
<1>3. PICK state : state = Models!WithProviders(stored, TRUE, a)
  OBVIOUS
<1>4. IsState(state) /\ state.active = stored.active
  BY <1>3, Discovery DEF Follows
<1>5. (stored' = state \/ stored' = stored) /\ heard' = heard /\ lost' = lost
  BY <1>1, <1>3, Committed
<1>6. stored'.active = stored.active /\ IsState(stored')
  BY <1>4, <1>5 DEF Follows
<1> QED
  BY <1>2, <1>5, <1>6 DEF Step, Follows, IsState, Models!SubscribersFollow,
     Models!MoveHasCause,
     Models!NoReply

LEMMA SetById == ASSUME Follows, Models!SetActiveModelById PROVE Step
<1>1. PICK a \in Models!Arrivals, input \in Inputs :
         Models!SetActive(Models!WithProviders(stored, stored.providers = <<>>, a), input)
  BY DEF Models!SetActiveModelById
<1> QED
  BY <1>1, Discovery, SetAloud DEF Follows

LEMMA CliRun == ASSUME Follows, Models!DispatchCliRun PROVE Step
<1>1. PICK a \in Models!Arrivals, run \in Models!Runs :
         Models!RunModels(run, Models!Reconciled(Models!WithProviders(stored,
                                  Models!NeedsDiscovery(run) /\ stored.providers = <<>>, a)))
  BY DEF Models!DispatchCliRun
<1> DEFINE found == Models!WithProviders(stored,
                       Models!NeedsDiscovery(run) /\ stored.providers = <<>>, a)
           state == Models!Reconciled(found)
           body == Models!ModelsResult(run, state)
           last == IF run.sub = "unset" THEN [state EXCEPT !.active = Models!Nothing] ELSE state
<1>2. IsState(state) /\ Justified(state, stored.active)
  BY Discovery, Healing DEF Follows
<1>3. run.sub = "unset" => body.exit = 0
  BY DEF Models!ModelsResult
<1>4. CASE run.sub = "set" /\ body.exit = 0
  <2>1. Models!SetActive(state, run.input)
    BY <1>1, <1>4 DEF Models!RunModels
  <2> QED
    BY <1>2, <2>1, SetAloud
<1>5. CASE ~(run.sub = "set" /\ body.exit = 0) /\ run.sub \in Models!KnownSubcommands
  <2>1. /\ Models!Commit(last, Models!Announced(last))
        /\ reply' = [sub |-> run.sub, exit |-> body.exit, id |-> body.id]
    BY <1>1, <1>5 DEF Models!RunModels
  <2>2. /\ IsState(last)
        /\ Justified(last, stored.active) \/ run.sub = "unset"
    BY <1>2 DEF IsState
  <2> HIDE DEF last, body
  <2> QED
    BY <1>3, <1>5, <2>1, <2>2, SavedAloud
<1>6. CASE run.sub \notin Models!KnownSubcommands
  <2>1. /\ UNCHANGED <<stored, heard, lost>>
        /\ reply' = [sub |-> run.sub, exit |-> body.exit, id |-> body.id]
    BY <1>1, <1>6 DEF Models!RunModels, Models!KnownSubcommands
  <2> QED
    BY <1>6, <2>1 DEF Step, Follows, IsState, Models!SubscribersFollow,
       Models!MoveHasCause,
       Models!KnownSubcommands
<1> QED
  BY <1>4, <1>5, <1>6

LEMMA EveryStepFollows == ASSUME Follows, [Models!Next]_Models!vars PROVE Step
<1>1. CASE Models!HandleGetActiveModel
  <2>1. PICK a \in Models!Arrivals :
           LET state == Models!AutoSelected(Models!Reconciled(
                           Models!WithProviders(stored, stored.providers = <<>>, a)))
           IN  Models!Commit(state, Models!Announced(state))
    BY <1>1 DEF Models!HandleGetActiveModel
  <2>2. reply' = Models!NoReply
    BY <1>1 DEF Models!HandleGetActiveModel
  <2> DEFINE found == Models!WithProviders(stored, stored.providers = <<>>, a)
             state == Models!AutoSelected(Models!Reconciled(found))
  <2>3. IsState(state) /\ Justified(state, stored.active)
    BY Discovery, Healing, Defaulting DEF Follows
  <2> QED
    BY <2>1, <2>2, <2>3, SavedAloud DEF Models!NoReply
<1>2. CASE Models!Rediscover
  <2>1. PICK a \in Models!Arrivals, starting \in BOOLEAN :
           LET found == Models!WithProviders(stored, TRUE, a)
               state == IF starting \/ Models!Discovered(a) # <<>>
                        THEN Models!AutoSelected(Models!Reconciled(found)) ELSE stored
           IN  Models!Commit(state, Models!Announced(state))
    BY <1>2 DEF Models!Rediscover
  <2>2. reply' = Models!NoReply
    BY <1>2 DEF Models!Rediscover
  <2> DEFINE found == Models!WithProviders(stored, TRUE, a)
             healed == Models!AutoSelected(Models!Reconciled(found))
             state == IF starting \/ Models!Discovered(a) # <<>> THEN healed ELSE stored
  <2>3. IsState(healed) /\ Justified(healed, stored.active)
    BY Discovery, Healing, Defaulting DEF Follows
  <2> HIDE DEF healed
  <2>4. IsState(state) /\ Justified(state, stored.active)
    BY <2>3 DEF Follows, Justified
  <2> QED
    BY <2>1, <2>2, <2>4, SavedAloud DEF Models!NoReply, healed
<1>3. CASE Models!Reload
  BY <1>3 DEF Models!Reload, Models!NoReply, Step, Follows, IsState,
     Models!SubscribersFollow,
     Models!MoveHasCause
<1>4. CASE UNCHANGED Models!vars
  BY <1>4 DEF Models!vars, Step, Follows, IsState, Models!SubscribersFollow,
     Models!MoveHasCause
<1> QED
  BY <1>1, <1>2, <1>3, <1>4, RefreshQuiet, SetById, CliRun
     DEF Models!Next, Models!HandleGetProviders, Models!HandleSetActiveModel,
         Models!DispatchCommand, Models!DispatchSelection

LEMMA FollowsFirst == ASSUME Models!Init PROVE Follows
  BY DEF Models!Init, Models!EmptyState, Models!NoReply, Follows, IsState,
     Models!SubscribersFollow

\* A subscriber fed by the broadcasts routes to the stored model, whatever the
\* providers, the inputs and the discovery windows, unless the last broadcast or
\* the save it went with was lost: both failures are discarded (lib.rs:137-144,
\* 289-307), and no step but a lost one parts the two.
THEOREM SubscribersAreCurrent == Models!Spec => []Models!SubscribersFollow
<1>1. Follows /\ [Models!Next]_Models!vars => Follows'
  BY EveryStepFollows DEF Step
<1>2. Follows => Models!SubscribersFollow
  BY DEF Follows
<1> QED
  BY <1>1, <1>2, FollowsFirst, PTL DEF Models!Spec

\* A selection is replaced or dropped by an operator, or by a discovery that found
\* providers and not this one; an empty window costs nobody their model.
THEOREM SelectionsMoveForCause == Models!Spec => Models!SelectionMovesForCause
<1>1. Follows /\ [Models!Next]_Models!vars => Follows' /\ [Models!MoveHasCause]_Models!vars
  BY EveryStepFollows DEF Step
<1> QED
  BY <1>1, FollowsFirst, PTL DEF Models!Spec, Models!SelectionMovesForCause

-----------------------------------------------------------------------------
(* Registry: types *)

\* Selections are among what providers describe, what was stored before canonical
\* ids, and none.
KnownIds == Models!Ids \cup OldIds \cup {Models!Nothing}
ModelsTyped(state) == /\ IsState(state)
                      /\ state.providers \in Seq(Models!Ids)
                      /\ state.active \in KnownIds
RegistryInv ==
    /\ loaded \subseteq Capsules /\ ModelsTyped(stored)
    /\ heard \in KnownIds /\ lost \in BOOLEAN

\* There are finitely many provider capsules, and each describes a list of models.
DescriptionsAreLists ==
    /\ IsFiniteSet(Capsules)
    /\ \E Entries : \A c \in Capsules : Emits[c] \in Seq(Entries)

LEMMA PickedIn ==
    ASSUME NEW V, NEW list \in Seq(V), NEW at
    PROVE  Models!Picked(list, at) \in Seq(V)
<1> DEFINE size == Len(list)
           Next(n, s) == IF n \in at THEN Append(s, list[n]) ELSE s
           step == [n \in 1..size |-> [s \in Seq(V) |-> Next(n, s)]]
           Is(f) == f = [n \in 0..size |-> IF n = 0 THEN <<>>
                           ELSE IF n \in at THEN Append(f[n - 1], list[n]) ELSE f[n - 1]]
<1>1. size \in Nat /\ <<>> \in Seq(V) /\ \A n \in 1..size : n - 1 \in 0..size /\ n \in 0..size /\ n # 0
  OBVIOUS
<1>2. ASSUME NEW n \in 1..size, NEW s \in Seq(V)
      PROVE  Next(n, s) \in Seq(V)
  <2>1. list[n] \in V
    OBVIOUS
  <2> QED
    BY <2>1
<1>3. step \in [1..size -> [Seq(V) -> Seq(V)]] /\ \A n \in 1..size, s \in Seq(V) : step[n][s] = Next(n, s)
  <2> HIDE DEF Next
  <2> QED
    BY <1>2
<1>4. PICK h \in [0..size -> Seq(V)] : h[0] = <<>> /\ \A n \in 1..size : h[n] = step[n][h[n - 1]]
  <2> HIDE DEF step, size
  <2>1. Recursive(size, Seq(V), <<>>, step)
    BY <1>1, <1>3, RecursionExists
  <2> QED
    BY <2>1 DEF Recursive
<1>5. \A n \in 1..size : h[n - 1] \in Seq(V) /\ h[n] = Next(n, h[n - 1])
  <2> HIDE DEF Next, step, size
  <2> QED
    BY <1>1, <1>3, <1>4
<1>6. Is(h)
  <2> HIDE DEF step, size
  <2>1. h = [n \in 0..size |-> h[n]]
    BY <1>4
  <2>2. \A n \in 0..size : n = 0 \/ n \in 1..size
    BY <1>1
  <2>3. \A n \in 0..size : h[n] = IF n = 0 THEN <<>>
                             ELSE IF n \in at THEN Append(h[n - 1], list[n]) ELSE h[n - 1]
    BY <1>1, <1>4, <1>5, <2>2
  <2> QED
    BY <2>1, <2>3, Zenon
<1>7. Models!Picked(list, at) = (CHOOSE g : Is(g))[size]
  BY Zenon DEF Models!Picked
<1>8. PICK g : Is(g) /\ Models!Picked(list, at) = g[size]
  <2> HIDE DEF Is
  <2>1. Is(CHOOSE g : Is(g))
    BY <1>6
  <2> QED
    BY <1>7, <2>1
<1>9. g[0] = <<>> /\ \A n \in 1..size : g[n] = IF n \in at THEN Append(g[n - 1], list[n]) ELSE g[n - 1]
  <2> HIDE DEF size
  <2>1. 0 \in 0..size
    BY <1>1
  <2>2. g = [n \in 0..size |-> IF n = 0 THEN <<>>
                ELSE IF n \in at THEN Append(g[n - 1], list[n]) ELSE g[n - 1]]
    BY <1>8
  <2>3. \A n \in 0..size : g[n] = IF n = 0 THEN <<>>
                ELSE IF n \in at THEN Append(g[n - 1], list[n]) ELSE g[n - 1]
    BY <2>2
  <2> QED
    BY <1>1, <2>1, <2>3
<1> DEFINE Good == {n \in 0..size : g[n] \in Seq(V)}
<1>10. 0 \in Good
  <2>1. 0 \in 0..size /\ g[0] \in Seq(V)
    BY <1>1, <1>9
  <2> QED
    BY <2>1
<1>11. ASSUME NEW n \in 1..size, n - 1 \in Good
       PROVE  n \in Good
  <2>1. g[n - 1] \in Seq(V) /\ list[n] \in V /\ n \in 0..size
    BY <1>1, <1>11
  <2>2. g[n] = IF n \in at THEN Append(g[n - 1], list[n]) ELSE g[n - 1]
    BY <1>9
  <2>3. g[n] \in Seq(V)
    BY <2>1, <2>2
  <2> QED
    BY <2>1, <2>3
<1>12. size \in Good
  <2> HIDE DEF size, Good
  <2>1. \A k \in 0..size : k \in Good
    BY <1>1, <1>10, <1>11, AlongPositions
  <2> QED
    BY <1>1, <2>1
<1> QED
  BY <1>8, <1>12

LEMMA FlattenedIn ==
    ASSUME NEW V, NEW lists \in Seq(Seq(V))
    PROVE  Models!FlattenSeq(lists) \in Seq(V)
<1> DEFINE size == Len(lists)
           Is(f) == f = [i \in 1..size |-> IF i = 1 THEN lists[i] ELSE f[i - 1] \o lists[i]]
<1>1. CASE size = 0
  <2>1. lists = <<>>
    BY <1>1
  <2> QED
    BY <1>1, <2>1 DEF Models!FlattenSeq
<1>2. CASE size # 0
  <2> DEFINE last == size - 1
             step == [k \in 1..last |-> [s \in Seq(V) |-> s \o lists[k + 1]]]
  <2>1. size \in Nat /\ last \in Nat /\ lists[1] \in Seq(V) /\ last + 1 = size
    BY <1>2
  <2>2. \A k \in 1..last : k + 1 \in 1..size /\ lists[k + 1] \in Seq(V)
    OBVIOUS
  <2>3. step \in [1..last -> [Seq(V) -> Seq(V)]]
    <3>1. ASSUME NEW k \in 1..last, NEW s \in Seq(V)
          PROVE  s \o lists[k + 1] \in Seq(V)
      BY <2>2
    <3> QED
      BY <3>1
  <2>4. PICK h \in [0..last -> Seq(V)] : h[0] = lists[1] /\ \A k \in 1..last : h[k] = step[k][h[k - 1]]
    <3> HIDE DEF step, last, size
    <3>1. Recursive(last, Seq(V), lists[1], step)
      BY <2>1, <2>3, RecursionExists
    <3> QED
      BY <3>1 DEF Recursive
  <2> DEFINE f == [i \in 1..size |-> h[i - 1]]
  <2>5. \A i \in 1..size : i - 1 \in 0..last /\ (i # 1 => i - 1 \in 1..last /\ i - 1 \in 1..size)
    BY <2>1
  <2>6. \A i \in 1..size : f[i] = IF i = 1 THEN lists[i] ELSE f[i - 1] \o lists[i]
    <3>1. ASSUME NEW i \in 1..size, i # 1
          PROVE  f[i] = f[i - 1] \o lists[i]
      <4>1. i - 1 \in 1..last /\ i - 1 \in 1..size /\ (i - 1) + 1 = i
        BY <2>5, <3>1
      <4> DEFINE k == i - 1
      <4>2. k \in 1..last /\ k \in 1..size /\ k + 1 = i
        BY <4>1
      <4> HIDE DEF k
      <4>3. h[k - 1] \in Seq(V)
        <5>1. k - 1 \in 0..last
          BY <2>1, <4>2
        <5> QED
          BY <5>1
      <4>4. h[k] = h[k - 1] \o lists[k + 1]
        BY <2>4, <4>2, <4>3
      <4>5. f[k] = h[k - 1] /\ f[i] = h[k]
        BY <4>2 DEF k
      <4> QED
        BY <4>2, <4>4, <4>5 DEF k
    <3>2. 1 \in 1..size /\ f[1] = lists[1]
      BY <2>1, <2>4
    <3> QED
      BY <3>1, <3>2
  <2>7. Is(f)
    <3>1. f = [i \in 1..size |-> f[i]]
      OBVIOUS
    <3> HIDE DEF f, size
    <3> QED
      BY <2>6, <3>1, Zenon
  <2> HIDE DEF f, last, step
  <2>8. Models!FlattenSeq(lists) = (CHOOSE g : Is(g))[size]
    BY <1>2, Zenon DEF Models!FlattenSeq
  <2>9. PICK g : Is(g) /\ Models!FlattenSeq(lists) = g[size]
    <3> HIDE DEF Is
    <3>1. Is(CHOOSE g : Is(g))
      BY <2>7
    <3> QED
      BY <2>8, <3>1
  <2>10. \A i \in 1..size : g[i] = IF i = 1 THEN lists[i] ELSE g[i - 1] \o lists[i]
    <3> HIDE DEF size
    <3>1. g = [i \in 1..size |-> IF i = 1 THEN lists[i] ELSE g[i - 1] \o lists[i]]
      BY <2>9
    <3> QED
      BY <3>1
  <2> DEFINE Good == {n \in 0..last : g[n + 1] \in Seq(V)}
  <2>11. 0 \in Good
    <3>1. 0 \in 0..last /\ 1 \in 1..size /\ 0 + 1 = 1
      BY <2>1
    <3> QED
      BY <2>1, <2>10, <3>1
  <2>12. ASSUME NEW n \in 1..last, n - 1 \in Good
         PROVE  n \in Good
    <3>1. g[n] \in Seq(V) /\ lists[n + 1] \in Seq(V) /\ n \in 0..last
      <4>1. (n - 1) + 1 = n
        OBVIOUS
      <4> QED
        BY <2>2, <2>12, <4>1
    <3>2. n + 1 \in 1..size /\ n + 1 # 1 /\ (n + 1) - 1 = n
      BY <2>2
    <3>3. g[n + 1] = g[n] \o lists[n + 1]
      BY <2>10, <3>2
    <3>4. g[n + 1] \in Seq(V)
      BY <3>1, <3>3
    <3> QED
      BY <3>1, <3>4
  <2>13. last \in Good
    <3> HIDE DEF Good
    <3>1. \A k \in 0..last : k \in Good
      BY <2>1, <2>11, <2>12, AlongPositions
    <3> QED
      BY <2>1, <3>1
  <2> QED
    BY <2>1, <2>9, <2>13
<1> QED
  BY <1>1, <1>2

\* What a discovery window brings is a list of described models.
LEMMA DiscoveredIsKnown ==
    ASSUME DescriptionsAreLists, loaded \subseteq Capsules, NEW arrival \in Models!Arrivals
    PROVE  Models!Discovered(arrival) \in Seq(Models!Ids)
<1>1. PICK present \in SUBSET loaded : arrival \in Models!SetToSeqs(present)
  BY DEF Models!Arrivals
<1>2. arrival \in Seq(Capsules)
  <2>1. IsFiniteSet(present)
    BY FS_Subset DEF DescriptionsAreLists
  <2>2. Models!Cardinality(present) \in Nat
    <3>1. Cardinality(present) \in Nat
      BY <2>1, FS_CardinalityType
    <3> QED
      BY <3>1 DEF Cardinality, Models!Cardinality
  <2>3. arrival \in [1..Models!Cardinality(present) -> present]
    BY <1>1 DEF Models!SetToSeqs
  <2>4. present \subseteq Capsules
    OBVIOUS
  <2> QED
    BY <2>2, <2>3, <2>4
<1>3. ASSUME NEW c \in Capsules
      PROVE  Models!StampMessage(Emits[c]) \in Seq(Models!Ids)
  <2> DEFINE msg == Emits[c]
             entries == {msg[i] : i \in 1..Len(msg)}
             routable == Models!Picked(msg, {i \in DOMAIN msg : msg[i].route # Models!Nothing})
  <2>1. msg \in Seq(entries)
    <3>1. PICK Entries : msg \in Seq(Entries)
      BY DEF DescriptionsAreLists
    <3>2. Len(msg) \in Nat /\ msg \in [1..Len(msg) -> entries]
      BY <3>1
    <3> QED
      BY <3>2
  <2>2. routable \in Seq(entries)
    <3> HIDE DEF msg, entries
    <3> QED
      BY <2>1, PickedIn
  <2>3. \A e \in entries : e.route \o e.id \in Models!Ids
    BY DEF Models!Ids
  <2> HIDE DEF routable, entries
  <2>4. [i \in 1..Len(routable) |-> routable[i].route \o routable[i].id] \in Seq(Models!Ids)
    BY <2>2, <2>3
  <2> QED
    BY <2>4 DEF Models!StampMessage, routable
<1> DEFINE stamped == [i \in 1..Len(arrival) |-> Models!StampMessage(Emits[arrival[i]])]
           flat == Models!FlattenSeq(stamped)
<1>4. stamped \in Seq(Seq(Models!Ids))
  BY <1>2, <1>3
<1>5. flat \in Seq(Models!Ids)
  <2> HIDE DEF stamped
  <2> QED
    BY <1>4, FlattenedIn
<1>6. Models!Dedupe(flat) \in Seq(Models!Ids)
  <2> HIDE DEF flat
  <2> QED
    BY <1>5, PickedIn DEF Models!Dedupe
<1> QED
  BY <1>6 DEF Models!Discovered

LEMMA ProvidersAreKnown ==
    ASSUME DescriptionsAreLists, loaded \subseteq Capsules, NEW arrival \in Models!Arrivals,
           NEW when, NEW state, ModelsTyped(state)
    PROVE  ModelsTyped(Models!WithProviders(state, when, arrival))
<1>1. Models!Discovered(arrival) \in Seq(Models!Ids)
  BY DiscoveredIsKnown
<1>2. PICK found : found = Models!Discovered(arrival)
  OBVIOUS
<1>3. Models!WithProviders(state, when, arrival)
        = IF when /\ found # <<>> THEN [state EXCEPT !.providers = found] ELSE state
  BY <1>2 DEF Models!WithProviders
<1>4. ModelsTyped([state EXCEPT !.providers = found])
  BY <1>1, <1>2 DEF ModelsTyped, IsState
<1> QED
  BY <1>3, <1>4

LEMMA OnlyOne == ASSUME NEW i \in Nat PROVE Models!Min({i}) = i
<1>1. \A k \in {i} : k = i
  OBVIOUS
<1>2. i <= i
  OBVIOUS
<1> QED
  BY <1>1, <1>2 DEF Models!Min

\* An input that resolves, resolves to a model that some provider describes.
LEMMA ResolvedIsOffered ==
    ASSUME NEW V, NEW ids \in Seq(V), NEW input, Models!ResolveSelection(input, ids).ok
    PROVE  Models!ResolveSelection(input, ids).id \in V
<1> DEFINE bare == {i \in DOMAIN ids : Models!BareModelOf(ids[i]) = input}
           qualified == {i \in DOMAIN ids :
                            /\ Len(input) > 1
                            /\ Models!QualifierOf(ids[i]) = Models!QualifierOf(input)
                            /\ Models!BareModelOf(ids[i]) = Models!BareModelOf(input)}
           Verdict(matches) == IF \E i \in matches : matches = {i}
                               THEN [ok |-> TRUE, id |-> ids[Models!Min(matches)]]
                               ELSE [ok |-> FALSE, id |-> Models!Ambiguous]
<1>1. bare \subseteq DOMAIN ids /\ qualified \subseteq DOMAIN ids
  OBVIOUS
<1>2. ASSUME NEW matches, matches \subseteq DOMAIN ids, Verdict(matches).ok
      PROVE  Verdict(matches).id \in V
  <2>1. PICK i \in matches : matches = {i}
    BY <1>2
  <2>2. i \in 1..Len(ids) /\ ids[i] \in V /\ i \in Nat
    BY <1>2
  <2>3. Models!Min(matches) = i
    BY <2>1, <2>2, OnlyOne
  <2> QED
    BY <2>1, <2>2, <2>3
<1>3. CASE Models!Contains(ids, input)
  <2>1. Models!ResolveSelection(input, ids).id = input
    BY <1>3 DEF Models!ResolveSelection
  <2>2. PICK i \in 1..Len(ids) : ids[i] = input
    BY <1>3 DEF Models!Contains
  <2> QED
    BY <2>1, <2>2
<1>4. CASE ~Models!Contains(ids, input)
  <2>1. Models!ResolveSelection(input, ids)
          = IF bare # {} THEN Verdict(bare) ELSE IF qualified # {} THEN Verdict(qualified)
            ELSE [ok |-> FALSE, id |-> Models!Unknown]
    BY <1>4 DEF Models!ResolveSelection
  <2> HIDE DEF bare, qualified, Verdict
  <2> QED
    BY <1>1, <1>2, <2>1
<1> QED
  BY <1>3, <1>4

LEMMA RemappedIsKnown ==
    ASSUME NEW state, ModelsTyped(state)
    PROVE  Models!Remapped(state) \in KnownIds
<1> DEFINE same == {i \in DOMAIN state.providers :
                       Models!QualifierOf(state.providers[i]) = state.active}
<1>1. CASE same = {}
  BY <1>1 DEF Models!Remapped, KnownIds
<1>2. CASE same # {}
  <2>1. same \subseteq DOMAIN state.providers /\ DOMAIN state.providers \subseteq Nat
    BY DEF ModelsTyped
  <2>2. PICK first \in same : \A other \in same : first <= other
    <3> HIDE DEF same
    <3> QED
      BY <1>2, <2>1, FirstPosition
  <2>3. \A k \in same : (\A other \in same : k <= other) => k = first
    BY <2>1, <2>2
  <2>4. Models!Min(same) = first
    BY <2>2, <2>3 DEF Models!Min
  <2>5. Models!Remapped(state) = state.providers[first]
    BY <1>2, <2>4 DEF Models!Remapped
  <2>6. state.providers[first] \in Models!Ids
    BY <2>1 DEF ModelsTyped
  <2> QED
    BY <2>5, <2>6 DEF KnownIds
<1> QED
  BY <1>1, <1>2

LEMMA HealedIsTyped ==
    ASSUME NEW state, ModelsTyped(state)
    PROVE  /\ ModelsTyped(Models!Reconciled(state))
           /\ ModelsTyped(Models!AutoSelected(state))
<1>1. ModelsTyped([state EXCEPT !.active = Models!Remapped(state)])
  BY RemappedIsKnown DEF ModelsTyped, IsState
<1>2. ModelsTyped(Models!Reconciled(state))
  BY <1>1 DEF Models!Reconciled
<1>3. ASSUME state.providers # <<>>
      PROVE  ModelsTyped([state EXCEPT !.active = state.providers[1]])
  <2>1. state.providers[1] \in Models!Ids
    BY <1>3 DEF ModelsTyped
  <2> QED
    BY <2>1 DEF ModelsTyped, IsState, KnownIds
<1> QED
  BY <1>2, <1>3 DEF Models!AutoSelected

\* What is typed is kept by a save and its broadcast.
LEMMA SavedIsTyped ==
    ASSUME RegistryInv, NEW state, ModelsTyped(state), NEW announced,
           Models!Commit(state, announced), loaded' \subseteq Capsules
    PROVE  RegistryInv'
<1>1. /\ stored' = state \/ stored' = stored
      /\ heard' = state.active \/ heard' = heard
      /\ lost' \in BOOLEAN
  BY Committed DEF RegistryInv
<1>2. ModelsTyped(stored)'
  BY <1>1 DEF RegistryInv, ModelsTyped, IsState
<1>3. heard' \in KnownIds
  BY <1>1 DEF RegistryInv, ModelsTyped
<1> QED
  BY <1>1, <1>2, <1>3 DEF RegistryInv

LEMMA SetIsTyped ==
    ASSUME RegistryInv, NEW state, ModelsTyped(state), NEW input,
           Models!SetActive(state, input), UNCHANGED loaded
    PROVE  RegistryInv'
<1> DEFINE found == Models!ResolveSelection(input, state.providers)
           next == [state EXCEPT !.active = found.id]
<1>1. CASE found.ok
  <2>1. Models!Commit(next, TRUE)
    BY <1>1 DEF Models!SetActive
  <2>2. found.id \in Models!Ids
    <3>1. state.providers \in Seq(Models!Ids)
      BY DEF ModelsTyped
    <3> QED
      BY <1>1, <3>1, ResolvedIsOffered
  <2>3. ModelsTyped(next)
    <3> HIDE DEF found
    <3> QED
      BY <2>2 DEF ModelsTyped, IsState, KnownIds
  <2>4. loaded' \subseteq Capsules
    BY DEF RegistryInv
  <2> HIDE DEF next, found
  <2> QED
    BY <2>1, <2>3, <2>4, SavedIsTyped
<1>2. CASE ~found.ok
  <2>1. UNCHANGED <<stored, heard, lost, loaded>>
    BY <1>2 DEF Models!SetActive
  <2> QED
    BY <2>1 DEF RegistryInv, ModelsTyped, IsState
<1> QED
  BY <1>1, <1>2

LEMMA RegistryInvKept ==
    ASSUME DescriptionsAreLists, RegistryInv, [Models!Next]_Models!vars
    PROVE  RegistryInv'
<1>1. ModelsTyped(stored) /\ loaded \subseteq Capsules /\ heard \in KnownIds
  BY DEF RegistryInv
<1>2. CASE Models!Refresh
  <2>1. PICK a \in Models!Arrivals :
           Models!Commit(Models!WithProviders(stored, TRUE, a), FALSE)
    BY <1>2 DEF Models!Refresh
  <2>2. loaded' \subseteq Capsules
    BY <1>1, <1>2 DEF Models!Refresh
  <2>3. ModelsTyped(Models!WithProviders(stored, TRUE, a))
    BY <1>1, ProvidersAreKnown
  <2> QED
    BY <2>1, <2>2, <2>3, SavedIsTyped
<1>3. CASE Models!HandleGetActiveModel
  <2>1. PICK a \in Models!Arrivals :
           LET state == Models!AutoSelected(Models!Reconciled(
                           Models!WithProviders(stored, stored.providers = <<>>, a)))
           IN  Models!Commit(state, Models!Announced(state))
    BY <1>3 DEF Models!HandleGetActiveModel
  <2> DEFINE found == Models!WithProviders(stored, stored.providers = <<>>, a)
             state == Models!AutoSelected(Models!Reconciled(found))
  <2>2. ModelsTyped(state)
    BY <1>1, ProvidersAreKnown, HealedIsTyped
  <2>3. loaded' \subseteq Capsules
    BY <1>1, <1>3 DEF Models!HandleGetActiveModel
  <2>4. Models!Commit(state, Models!Announced(state))
    BY <2>1
  <2> HIDE DEF state
  <2> QED
    BY <2>2, <2>3, <2>4, SavedIsTyped
<1>4. CASE Models!SetActiveModelById
  <2>1. PICK a \in Models!Arrivals, input \in Inputs :
           Models!SetActive(Models!WithProviders(stored, stored.providers = <<>>, a), input)
    BY <1>4 DEF Models!SetActiveModelById
  <2>2. UNCHANGED loaded
    BY <1>4 DEF Models!SetActiveModelById
  <2>3. ModelsTyped(Models!WithProviders(stored, stored.providers = <<>>, a))
    BY <1>1, ProvidersAreKnown
  <2> QED
    BY <2>1, <2>2, <2>3, SetIsTyped
<1>5. CASE Models!DispatchCliRun
  <2>1. PICK a \in Models!Arrivals, run \in Models!Runs :
           Models!RunModels(run, Models!Reconciled(Models!WithProviders(stored,
                                    Models!NeedsDiscovery(run) /\ stored.providers = <<>>, a)))
    BY <1>5 DEF Models!DispatchCliRun
  <2>2. UNCHANGED loaded
    BY <1>5 DEF Models!DispatchCliRun
  <2> DEFINE found == Models!WithProviders(stored,
                         Models!NeedsDiscovery(run) /\ stored.providers = <<>>, a)
             state == Models!Reconciled(found)
             last == IF run.sub = "unset" THEN [state EXCEPT !.active = Models!Nothing] ELSE state
  <2>3. ModelsTyped(state)
    BY <1>1, ProvidersAreKnown, HealedIsTyped
  <2>4. Models!RunModels(run, state)
    BY <2>1
  <2> HIDE DEF state
  <2>5. ModelsTyped(last)
    BY <2>3 DEF ModelsTyped, IsState, KnownIds
  <2>6. \/ Models!SetActive(state, run.input)
        \/ Models!Commit(last, Models!Announced(last))
        \/ UNCHANGED <<stored, heard, lost>>
    BY <2>4 DEF Models!RunModels
  <2> HIDE DEF last
  <2>7. CASE Models!SetActive(state, run.input)
    BY <2>2, <2>3, <2>7, SetIsTyped
  <2>8. CASE Models!Commit(last, Models!Announced(last))
    <3>1. loaded' \subseteq Capsules
      BY <1>1, <2>2
    <3> QED
      BY <2>5, <2>8, <3>1, SavedIsTyped
  <2>9. CASE UNCHANGED <<stored, heard, lost>>
    BY <2>2, <2>9 DEF RegistryInv, ModelsTyped, IsState
  <2> QED
    BY <2>6, <2>7, <2>8, <2>9
<1>6. CASE Models!Reload
  BY <1>6 DEF Models!Reload, RegistryInv, ModelsTyped, IsState
<1>7. CASE Models!Rediscover
  <2>1. PICK a \in Models!Arrivals, starting \in BOOLEAN :
           LET found == Models!WithProviders(stored, TRUE, a)
               state == IF starting \/ Models!Discovered(a) # <<>>
                        THEN Models!AutoSelected(Models!Reconciled(found)) ELSE stored
           IN  Models!Commit(state, Models!Announced(state))
    BY <1>7 DEF Models!Rediscover
  <2> DEFINE found == Models!WithProviders(stored, TRUE, a)
             healed == Models!AutoSelected(Models!Reconciled(found))
             state == IF starting \/ Models!Discovered(a) # <<>> THEN healed ELSE stored
  <2>2. ModelsTyped(healed)
    BY <1>1, ProvidersAreKnown, HealedIsTyped
  <2>3. loaded' \subseteq Capsules
    BY <1>1, <1>7 DEF Models!Rediscover
  <2>4. Models!Commit(state, Models!Announced(state))
    BY <2>1
  <2> HIDE DEF healed
  <2>5. ModelsTyped(state)
    BY <1>1, <2>2
  <2> HIDE DEF state
  <2> QED
    BY <2>3, <2>4, <2>5, SavedIsTyped
<1>8. CASE UNCHANGED Models!vars
  BY <1>8 DEF Models!vars, RegistryInv, ModelsTyped, IsState
<1> QED
  BY <1>2, <1>3, <1>4, <1>5, <1>6, <1>7, <1>8
     DEF Models!Next, Models!HandleGetProviders, Models!HandleSetActiveModel,
         Models!DispatchCommand, Models!DispatchSelection

\* What the registry stores and broadcasts is a model that some provider describes,
\* or one that was stored before canonical ids (lib.rs:432-470).
THEOREM SelectionsAreTyped ==
    ASSUME DescriptionsAreLists
    PROVE  Models!Spec => []Models!TypeOK
<1>1. Models!Init => RegistryInv
  <2>1. Models!EmptyState.providers = <<>> /\ <<>> \in Seq(Models!Ids)
    BY DEF Models!EmptyState
  <2> QED
    BY <2>1 DEF Models!Init, RegistryInv, ModelsTyped, IsState, KnownIds, Models!EmptyState
<1>2. RegistryInv /\ [Models!Next]_Models!vars => RegistryInv'
  BY RegistryInvKept
<1>3. RegistryInv => Models!TypeOK
  BY DEF RegistryInv, ModelsTyped, KnownIds, Models!TypeOK
<1> QED
  BY <1>1, <1>2, <1>3, PTL DEF Models!Spec

-----------------------------------------------------------------------------
(* ToolHooks: vetoes *)

Replies == [skip : BOOLEAN, data : Values \cup {NoValue}]
Skips(pipe) == \E k \in DOMAIN pipe : pipe[k].skip

\* A dispatch that still collects has kept every reply, queued or received; one
\* that is done was decided by the ones it received.
Dispatched(x) ==
    /\ DOMAIN x = {"pc", "hook", "tool", "input", "due", "queue", "got", "veto", "denied", "cut",
                   "result"}
    /\ DOMAIN x.result = {"skip", "data"}
    /\ x.queue \in Seq(Replies) /\ x.got \in Seq(Replies)
    /\ x.veto \in BOOLEAN
    /\ x.pc = "collect" => /\ x.hook \in Hooks!Merging
                           /\ x.veto <=> Skips(x.queue) \/ Skips(x.got)
    /\ (x.pc = "done" /\ x.hook = "before_tool_call") =>
          /\ x.veto /\ ~x.cut => x.result.skip
          /\ x.result.skip => x.veto
    /\ (x.pc = "done" /\ x.hook = "gate tool") => (x.result.skip <=> x.denied)
HooksInv ==
    /\ policy \in Sources
    /\ DOMAIN dispatch = Dispatches
    /\ \A d \in Dispatches : Dispatched(dispatch[d])

\* The replies to an event, one more of them or all of them received.
LEMMA SkipsAppended ==
    ASSUME NEW pipe \in Seq(Replies), NEW r \in Replies
    PROVE  /\ Append(pipe, r) \in Seq(Replies)
           /\ Skips(Append(pipe, r)) <=> Skips(pipe) \/ r.skip
<1> DEFINE new == Append(pipe, r)
<1>1. /\ new \in Seq(Replies)
      /\ DOMAIN new = DOMAIN pipe \cup {Len(pipe) + 1}
      /\ \A k \in DOMAIN pipe : new[k] = pipe[k] /\ k # Len(pipe) + 1
      /\ new[Len(pipe) + 1] = r
  BY AppendElements
<1> HIDE DEF new
<1>2. Skips(new) <=> Skips(pipe) \/ r.skip
  BY <1>1 DEF Skips
<1> QED
  BY <1>1, <1>2 DEF new

LEMMA SkipsJoined ==
    ASSUME NEW s \in Seq(Replies), NEW t \in Seq(Replies)
    PROVE  /\ s \o t \in Seq(Replies)
           /\ Skips(s \o t) <=> Skips(s) \/ Skips(t)
<1> DEFINE both == s \o t
<1>1. both \in Seq(Replies) /\ DOMAIN both = 1..(Len(s) + Len(t))
  OBVIOUS
<1>2. /\ \A k \in DOMAIN s : k \in DOMAIN both /\ both[k] = s[k]
      /\ \A k \in DOMAIN t : k + Len(s) \in DOMAIN both /\ both[k + Len(s)] = t[k]
      /\ \A k \in DOMAIN both : \/ k \in DOMAIN s /\ both[k] = s[k]
                                \/ k - Len(s) \in DOMAIN t /\ both[k] = t[k - Len(s)]
  OBVIOUS
<1> HIDE DEF both
<1>3. Skips(both) <=> Skips(s) \/ Skips(t)
  BY <1>2 DEF Skips
<1> QED
  BY <1>1, <1>3 DEF both

\* First match wins: the decision is a denial when some rule denies and none
\* before it fires.
LEMMA FirstMatch ==
    ASSUME NEW rules \in Seq(Hooks!Rules), NEW tool, NEW input
    PROVE  Hooks!Evaluate(rules, tool, input) = "deny" <=> Hooks!FirstDeny(rules, tool, input)
<1> DEFINE firing == {i \in DOMAIN rules : Hooks!Fires(rules[i], tool, input)}
<1>1. CASE firing = {}
  BY <1>1 DEF Hooks!Evaluate, Hooks!FirstDeny
<1>2. CASE firing # {}
  <2>1. PICK first \in firing : \A other \in firing : first <= other
    <3>1. firing \subseteq Nat
      OBVIOUS
    <3> QED
      BY <1>2, <3>1, FirstPosition
  <2>2. \A k \in firing : (\A other \in firing : k <= other) => k = first
    BY <2>1
  <2>3. Hooks!Min(firing) = first
    BY <2>1, <2>2 DEF Hooks!Min
  <2>4. Hooks!Evaluate(rules, tool, input) = rules[first].effect
    BY <1>2, <2>3 DEF Hooks!Evaluate
  <2>5. Hooks!FirstDeny(rules, tool, input) <=> rules[first].effect = "deny"
    BY <2>1 DEF Hooks!FirstDeny
  <2> QED
    BY <2>4, <2>5
<1> QED
  BY <1>1, <1>2

LEMMA HooksFirst == ASSUME Hooks!Init PROVE HooksInv
<1>1. Dispatched(Hooks!Rest)
  <2>1. ~Skips(<<>>) /\ <<>> \in Seq(Replies)
    BY DEF Skips
  <2> QED
    BY <2>1 DEF Hooks!Rest, Hooks!NoResult, Dispatched
<1> QED
  BY <1>1 DEF Hooks!Init, HooksInv

\* A reply joins the queue, and counts as a veto if it is one.
LEMMA AnswerCounts ==
    ASSUME HooksInv, NEW d \in Dispatches, NEW who, NEW answer \in Replies,
           NEW denied, dispatch[d].pc = "collect", Hooks!Answer(d, who, answer, denied),
           policy' \in Sources
    PROVE  HooksInv'
<1> DEFINE x == dispatch[d]
           y == [x EXCEPT !.due = @ \ {who}, !.queue = Append(@, answer),
                          !.veto = @ \/ answer.skip, !.denied = denied]
<1>1. Dispatched(x) /\ x.pc = "collect"
  BY DEF HooksInv
<1>2. dispatch' = [dispatch EXCEPT ![d] = y]
  BY DEF Hooks!Answer
<1> HIDE DEF x
<1>3. /\ Append(x.queue, answer) \in Seq(Replies)
      /\ Skips(Append(x.queue, answer)) <=> Skips(x.queue) \/ answer.skip
  BY <1>1, SkipsAppended DEF Dispatched
<1>4. /\ DOMAIN y = DOMAIN x /\ y.pc = x.pc /\ y.hook = x.hook /\ y.got = x.got
      /\ y.result = x.result
      /\ y.queue = Append(x.queue, answer) /\ y.veto = (x.veto \/ answer.skip)
  BY <1>1 DEF Dispatched
<1>5. answer.skip \in BOOLEAN
  BY DEF Replies
<1> HIDE DEF y
<1>6. Dispatched(y)
  BY <1>1, <1>3, <1>4, <1>5 DEF Dispatched
<1> QED
  BY <1>2, <1>6 DEF HooksInv

LEMMA HooksInvKept ==
    ASSUME \A source \in Sources : source.rules \in Seq(Hooks!Rules),
           HooksInv, [Hooks!Next]_Hooks!vars
    PROVE  HooksInv'
<1>1. CASE Hooks!EditPolicy
  BY <1>1 DEF Hooks!EditPolicy, HooksInv
<1>2. ASSUME NEW d \in Dispatches, Hooks!DispatchHook(d)
      PROVE  HooksInv'
  <2>1. PICK h \in Hooks!Hooks, t \in ToolNames, i \in Arguments :
           dispatch' = [dispatch EXCEPT ![d] =
              IF h \in Hooks!Merging
              THEN [Hooks!Rest EXCEPT !.pc = "collect", !.hook = h, !.tool = t,
                                      !.input = i, !.due = Peers \cup {Hooks!Gate}]
              ELSE [Hooks!Rest EXCEPT !.pc = "done", !.hook = h]]
    BY <1>2 DEF Hooks!DispatchHook
  <2>2. ~Skips(<<>>) /\ <<>> \in Seq(Replies)
    BY DEF Skips
  <2>3. h \notin Hooks!Merging => h \notin {"before_tool_call", "gate tool"}
    BY <2>1 DEF Hooks!Hooks, Hooks!Merging
  <2>4. Dispatched(dispatch'[d])
    <3>1. CASE h \in Hooks!Merging
      <4> DEFINE x == [Hooks!Rest EXCEPT !.pc = "collect", !.hook = h, !.tool = t, !.input = i,
                                         !.due = Peers \cup {Hooks!Gate}]
      <4>1. dispatch'[d] = x
        BY <2>1, <3>1 DEF HooksInv
      <4>2. Dispatched(x)
        BY <2>2, <3>1 DEF Dispatched, Hooks!Rest, Hooks!NoResult
      <4> QED
        BY <4>1, <4>2
    <3>2. CASE h \notin Hooks!Merging
      <4> DEFINE x == [Hooks!Rest EXCEPT !.pc = "done", !.hook = h]
      <4>1. dispatch'[d] = x
        BY <2>1, <3>2 DEF HooksInv
      <4>2. Dispatched(x)
        BY <2>2, <2>3, <3>2 DEF Dispatched, Hooks!Rest, Hooks!NoResult
      <4> QED
        BY <4>1, <4>2
    <3> QED
      BY <3>1, <3>2
  <2>5. /\ DOMAIN dispatch' = Dispatches /\ policy' = policy
        /\ \A o \in Dispatches \ {d} : dispatch'[o] = dispatch[o]
    BY <1>2, <2>1 DEF HooksInv, Hooks!DispatchHook
  <2> QED
    BY <2>4, <2>5 DEF HooksInv
<1>3. ASSUME NEW d \in Dispatches, Hooks!GateReplies(d)
      PROVE  HooksInv'
  <2>1. PICK answer : /\ answer = [skip |-> Hooks!VerdictBody(Hooks!Decide(policy,
                                       Hooks!Payload("text", dispatch[d].tool, dispatch[d].input))).skip,
                                   data |-> NoValue]
                      /\ Hooks!Answer(d, Hooks!Gate, answer, Hooks!FirstDeny(
                            Hooks!LoadRules(policy), dispatch[d].tool, dispatch[d].input))
    BY <1>3 DEF Hooks!GateReplies
  <2>2. answer \in Replies
    BY <2>1 DEF Replies, Hooks!VerdictBody
  <2> QED
    BY <1>3, <2>1, <2>2, AnswerCounts DEF Hooks!GateReplies, HooksInv
<1>4. ASSUME NEW d \in Dispatches, NEW p \in Peers, Hooks!PeerReplies(d, p)
      PROVE  HooksInv'
  <2>1. PICK s \in BOOLEAN, v \in Values \cup {NoValue} :
           Hooks!Answer(d, p, [skip |-> s, data |-> v], dispatch[d].denied)
    BY <1>4 DEF Hooks!PeerReplies
  <2>2. [skip |-> s, data |-> v] \in Replies
    BY <2>1 DEF Replies
  <2> QED
    BY <1>4, <2>1, <2>2, AnswerCounts DEF Hooks!PeerReplies, HooksInv
<1>5. ASSUME NEW d \in Dispatches, NEW y, Dispatched(dispatch[d]) => Dispatched(y),
             dispatch' = [dispatch EXCEPT ![d] = y], UNCHANGED policy
      PROVE  HooksInv'
  BY <1>5 DEF HooksInv
<1>6. ASSUME NEW d \in Dispatches, Hooks!PreToolUseGateReply(d)
      PROVE  HooksInv'
  <2>1. PICK t \in ToolNames, i \in Arguments :
           LET answer == Hooks!GateReplyBody(Hooks!Decide(policy, Hooks!Payload("object", t, i)))
           IN  dispatch' = [dispatch EXCEPT ![d] =
                  [Hooks!Rest EXCEPT !.pc = "done", !.hook = "gate tool", !.tool = t, !.input = i,
                     !.denied = Hooks!FirstDeny(Hooks!LoadRules(policy), t, i),
                     !.result.skip = answer.permission = "deny" /\ ~answer.isError]]
    BY <1>6 DEF Hooks!PreToolUseGateReply
  <2> DEFINE rules == Hooks!LoadRules(policy)
             answer == Hooks!GateReplyBody(Hooks!Evaluate(rules, t, i))
             denied == Hooks!FirstDeny(rules, t, i)
             refused == answer.permission = "deny" /\ ~answer.isError
             y == [Hooks!Rest EXCEPT !.pc = "done", !.hook = "gate tool", !.tool = t, !.input = i,
                                     !.denied = denied, !.result.skip = refused]
  <2>2. dispatch' = [dispatch EXCEPT ![d] = y]
    BY <2>1 DEF Hooks!Decide, Hooks!Payload, Hooks!GateToolName, Hooks!GateToolInput
  <2>3. rules \in Seq(Hooks!Rules)
    BY DEF HooksInv, Hooks!LoadRules
  <2>4. refused <=> denied
    BY <2>3, FirstMatch DEF Hooks!GateReplyBody
  <2>5. denied \in BOOLEAN /\ refused \in BOOLEAN
    BY DEF Hooks!FirstDeny
  <2> HIDE DEF denied, refused
  <2>6. ~Skips(<<>>) /\ <<>> \in Seq(Replies)
    BY DEF Skips
  <2>7. Dispatched(y)
    BY <2>4, <2>5, <2>6 DEF Dispatched, Hooks!Rest, Hooks!NoResult
  <2> HIDE DEF y
  <2> QED
    BY <1>5, <1>6, <2>2, <2>7 DEF Hooks!PreToolUseGateReply
<1>7. ASSUME NEW d \in Dispatches, Hooks!Receive(d)
      PROVE  HooksInv'
  <2> DEFINE x == dispatch[d]
             y == [x EXCEPT !.got = @ \o x.queue, !.queue = <<>>]
  <2>1. dispatch' = [dispatch EXCEPT ![d] = y] /\ UNCHANGED policy /\ x.pc = "collect"
    BY <1>7 DEF Hooks!Receive
  <2> HIDE DEF x
  <2>2. ASSUME Dispatched(x)
        PROVE  Dispatched(y)
    <3>1. /\ x.got \o x.queue \in Seq(Replies)
          /\ Skips(x.got \o x.queue) <=> Skips(x.got) \/ Skips(x.queue)
      BY <2>2, SkipsJoined DEF Dispatched
    <3>2. ~Skips(<<>>) /\ <<>> \in Seq(Replies)
      BY DEF Skips
    <3>3. /\ DOMAIN y = DOMAIN x /\ y.pc = x.pc /\ y.hook = x.hook /\ y.veto = x.veto
          /\ y.result = x.result
          /\ y.got = x.got \o x.queue /\ y.queue = <<>>
      BY <2>2 DEF Dispatched
    <3> HIDE DEF y
    <3> QED
      BY <2>1, <2>2, <3>1, <3>2, <3>3 DEF Dispatched
  <2> HIDE DEF y
  <2> QED
    BY <1>5, <2>1, <2>2 DEF x
<1>8. ASSUME NEW d \in Dispatches, Hooks!Close(d)
      PROVE  HooksInv'
  <2> DEFINE x == dispatch[d]
  <2>1. PICK late \in BOOLEAN :
           /\ late \/ x.queue = <<>>
           /\ dispatch' = [dispatch EXCEPT ![d] =
                 [x EXCEPT !.pc = "done", !.cut = late, !.result = Hooks!ApplyMerge(x.hook, x.got)]]
    BY <1>8 DEF Hooks!Close
  <2> DEFINE merged == Hooks!ApplyMerge(x.hook, x.got)
             y == [x EXCEPT !.pc = "done", !.cut = late, !.result = merged]
  <2>2. x.pc = "collect" /\ UNCHANGED policy
    BY <1>8 DEF Hooks!Close
  <2> HIDE DEF x
  <2>3. ASSUME Dispatched(x)
        PROVE  Dispatched(y)
    <3>1. /\ DOMAIN merged = {"skip", "data"}
          /\ merged.skip <=> x.hook = "before_tool_call" /\ Skips(x.got)
      <4>1. DOMAIN x.got = 1..Len(x.got)
        <5>1. x.got \in Seq(Replies)
          BY <2>3 DEF Dispatched
        <5> QED
          BY <5>1
      <4> QED
        BY <4>1 DEF Hooks!ApplyMerge, Skips
    <3>2. x.queue = <<>> => ~Skips(x.queue)
      BY DEF Skips
    <3> HIDE DEF merged
    <3>3. /\ DOMAIN y = DOMAIN x /\ y.pc = "done" /\ y.hook = x.hook /\ y.veto = x.veto
          /\ y.queue = x.queue /\ y.got = x.got /\ y.cut = late /\ y.result = merged
      BY <2>3 DEF Dispatched
    <3> HIDE DEF y
    <3> QED
      BY <2>1, <2>2, <2>3, <3>1, <3>2, <3>3 DEF Dispatched, Hooks!Merging
  <2> HIDE DEF y
  <2> QED
    BY <1>5, <2>1, <2>2, <2>3 DEF x, y
<1>9. ASSUME NEW d \in Dispatches, Hooks!ReceiveFails(d)
      PROVE  HooksInv'
  <2> DEFINE x == dispatch[d]
             y == [x EXCEPT !.pc = "failed"]
  <2>1. dispatch' = [dispatch EXCEPT ![d] = y] /\ UNCHANGED policy
    BY <1>9 DEF Hooks!ReceiveFails
  <2> HIDE DEF x
  <2>2. Dispatched(x) => Dispatched(y)
    BY DEF Dispatched
  <2> HIDE DEF y
  <2> QED
    BY <1>5, <2>1, <2>2 DEF x
<1>10. CASE UNCHANGED Hooks!vars
  BY <1>10 DEF Hooks!vars, HooksInv
<1> QED
  BY <1>1, <1>2, <1>3, <1>4, <1>6, <1>7, <1>8, <1>9, <1>10 DEF Hooks!Next

\* Whatever the rules, the responders and the order of their answers, a veto that
\* was published before the window went quiet blocks the call, and only a veto
\* does; the gate tool denies exactly what the first rule that fires denies.
THEOREM VetoesAlwaysBind ==
    (\A source \in Sources : source.rules \in Seq(Hooks!Rules))
       => (Hooks!Spec => []Hooks!VetoesBind)
<1> SUFFICES ASSUME \A source \in Sources : source.rules \in Seq(Hooks!Rules)
             PROVE  Hooks!Spec => []Hooks!VetoesBind
  OBVIOUS
<1>1. HooksInv => Hooks!VetoesBind
  BY DEF HooksInv, Dispatched, Hooks!VetoesBind
<1> QED
  BY <1>1, HooksFirst, HooksInvKept, PTL DEF Hooks!Spec

-----------------------------------------------------------------------------
(* ToolHooks: types *)

\* A dispatch asks nobody but the peers and the gate, and its result is one of the
\* values that were offered.
ResultTyped(x) ==
    /\ x.pc \in {"idle", "collect", "done", "failed"}
    /\ x.due \subseteq Peers \cup {Hooks!Gate}
    /\ x.result.data \in Values \cup {NoValue}
ResultsTyped == \A d \in Dispatches : ResultTyped(dispatch[d])

LEMMA LastIsOffered ==
    ASSUME NEW got \in Seq(Replies)
    PROVE  Hooks!LastValue(got) \in Values \cup {NoValue}
<1> DEFINE offers == {i \in DOMAIN got : got[i].data # NoValue}
<1>1. CASE offers = {}
  BY <1>1 DEF Hooks!LastValue
<1>2. CASE offers # {}
  <2>1. PICK last \in offers : \A other \in offers : other <= last
    <3>1. offers \subseteq 1..Len(got) /\ Len(got) \in Nat
      OBVIOUS
    <3> HIDE DEF offers
    <3> QED
      BY <1>2, <3>1, LastPosition
  <2>2. \A k \in offers : (\A other \in offers : k >= other) => k = last
    BY <2>1
  <2>3. Hooks!Max(offers) = last
    BY <2>1, <2>2 DEF Hooks!Max
  <2>4. Hooks!LastValue(got) = got[last].data
    BY <1>2, <2>3 DEF Hooks!LastValue
  <2>5. got[last] \in Replies
    BY <2>1
  <2> QED
    BY <2>4, <2>5 DEF Replies
<1> QED
  BY <1>1, <1>2

LEMMA ResultsTypedKept ==
    ASSUME HooksInv, ResultsTyped, [Hooks!Next]_(Hooks!vars)
    PROVE  ResultsTyped'
<1>1. ASSUME NEW d \in Dispatches, NEW y, dispatch' = [dispatch EXCEPT ![d] = y],
             ResultTyped(y)
      PROVE  ResultsTyped'
  BY <1>1 DEF HooksInv, ResultsTyped
<1>2. ResultTyped(Hooks!Rest) /\ DOMAIN Hooks!Rest.result = {"skip", "data"}
  BY DEF ResultTyped, Hooks!Rest, Hooks!NoResult
<1>3. ASSUME NEW d \in Dispatches
      PROVE  /\ ResultTyped(dispatch[d]) /\ dispatch[d].got \in Seq(Replies)
             /\ DOMAIN dispatch[d] = {"pc", "hook", "tool", "input", "due", "queue", "got",
                                      "veto", "denied", "cut", "result"}
  BY DEF HooksInv, Dispatched, ResultsTyped
<1>4. CASE Hooks!EditPolicy \/ UNCHANGED Hooks!vars
  BY <1>4 DEF Hooks!EditPolicy, Hooks!vars, ResultsTyped
<1>5. ASSUME NEW d \in Dispatches, Hooks!DispatchHook(d)
      PROVE  ResultsTyped'
  <2>1. PICK h \in Hooks!Hooks, t \in ToolNames, i \in Arguments :
           dispatch' = [dispatch EXCEPT ![d] =
              IF h \in Hooks!Merging
              THEN [Hooks!Rest EXCEPT !.pc = "collect", !.hook = h, !.tool = t,
                                      !.input = i, !.due = Peers \cup {Hooks!Gate}]
              ELSE [Hooks!Rest EXCEPT !.pc = "done", !.hook = h]]
    BY <1>5 DEF Hooks!DispatchHook
  <2>2. ResultTyped([Hooks!Rest EXCEPT !.pc = "collect", !.hook = h, !.tool = t,
                                       !.input = i, !.due = Peers \cup {Hooks!Gate}])
    BY DEF ResultTyped, Hooks!Rest, Hooks!NoResult
  <2>3. ResultTyped([Hooks!Rest EXCEPT !.pc = "done", !.hook = h])
    BY DEF ResultTyped, Hooks!Rest, Hooks!NoResult
  <2> QED
    BY <1>1, <2>1, <2>2, <2>3
<1>6. ASSUME NEW d \in Dispatches, NEW who, NEW answer, NEW denied,
             Hooks!Answer(d, who, answer, denied)
      PROVE  ResultsTyped'
  <2> DEFINE x == dispatch[d]
             y == [x EXCEPT !.due = @ \ {who}, !.queue = Append(@, answer),
                            !.veto = @ \/ answer.skip, !.denied = denied]
  <2>1. dispatch' = [dispatch EXCEPT ![d] = y]
    BY <1>6 DEF Hooks!Answer
  <2>2. ResultTyped(x) /\ DOMAIN x = {"pc", "hook", "tool", "input", "due", "queue", "got",
                                      "veto", "denied", "cut", "result"}
    BY <1>3
  <2> HIDE DEF x
  <2>3. ResultTyped(y)
    BY <2>2 DEF ResultTyped
  <2> HIDE DEF y
  <2> QED
    BY <1>1, <2>1, <2>3
<1>7. ASSUME NEW d \in Dispatches, Hooks!GateReplies(d) \/ \E p \in Peers : Hooks!PeerReplies(d, p)
      PROVE  ResultsTyped'
  BY <1>6, <1>7 DEF Hooks!GateReplies, Hooks!PeerReplies
<1>8. ASSUME NEW d \in Dispatches, Hooks!PreToolUseGateReply(d)
      PROVE  ResultsTyped'
  <2>1. PICK t \in ToolNames, i \in Arguments :
           LET answer == Hooks!GateReplyBody(Hooks!Decide(policy, Hooks!Payload("object", t, i)))
           IN  dispatch' = [dispatch EXCEPT ![d] =
                  [Hooks!Rest EXCEPT !.pc = "done", !.hook = "gate tool", !.tool = t, !.input = i,
                     !.denied = Hooks!FirstDeny(Hooks!LoadRules(policy), t, i),
                     !.result.skip = answer.permission = "deny" /\ ~answer.isError]]
    BY <1>8 DEF Hooks!PreToolUseGateReply
  <2> DEFINE answer == Hooks!GateReplyBody(Hooks!Decide(policy, Hooks!Payload("object", t, i)))
             y == [Hooks!Rest EXCEPT !.pc = "done", !.hook = "gate tool", !.tool = t, !.input = i,
                     !.denied = Hooks!FirstDeny(Hooks!LoadRules(policy), t, i),
                     !.result.skip = answer.permission = "deny" /\ ~answer.isError]
  <2>2. ResultTyped(y)
    BY DEF ResultTyped, Hooks!Rest, Hooks!NoResult
  <2> HIDE DEF y
  <2> QED
    BY <1>1, <2>1, <2>2 DEF y
<1>9. ASSUME NEW d \in Dispatches, Hooks!Receive(d) \/ Hooks!ReceiveFails(d)
      PROVE  ResultsTyped'
  <2> DEFINE x == dispatch[d]
             y == [x EXCEPT !.got = @ \o x.queue, !.queue = <<>>]
             z == [x EXCEPT !.pc = "failed"]
  <2>1. \/ dispatch' = [dispatch EXCEPT ![d] = y]
        \/ dispatch' = [dispatch EXCEPT ![d] = z]
    BY <1>9 DEF Hooks!Receive, Hooks!ReceiveFails
  <2>2. ResultTyped(x) /\ DOMAIN x = {"pc", "hook", "tool", "input", "due", "queue", "got",
                                      "veto", "denied", "cut", "result"}
    BY <1>3
  <2> HIDE DEF x
  <2>3. ResultTyped(y) /\ ResultTyped(z)
    BY <2>2 DEF ResultTyped
  <2> HIDE DEF y, z
  <2> QED
    BY <1>1, <2>1, <2>3
<1>10. ASSUME NEW d \in Dispatches, Hooks!Close(d)
       PROVE  ResultsTyped'
  <2> DEFINE x == dispatch[d]
             merged == Hooks!ApplyMerge(x.hook, x.got)
  <2>1. PICK late \in BOOLEAN :
           dispatch' = [dispatch EXCEPT ![d] =
                 [x EXCEPT !.pc = "done", !.cut = late, !.result = merged]]
    BY <1>10 DEF Hooks!Close
  <2> DEFINE y == [x EXCEPT !.pc = "done", !.cut = late, !.result = merged]
  <2>2. merged.data \in Values \cup {NoValue}
    BY <1>3, LastIsOffered DEF Hooks!ApplyMerge
  <2>3. ResultTyped(x) /\ DOMAIN x = {"pc", "hook", "tool", "input", "due", "queue", "got",
                                      "veto", "denied", "cut", "result"}
    BY <1>3
  <2> HIDE DEF merged, x
  <2>4. ResultTyped(y)
    BY <2>2, <2>3 DEF ResultTyped
  <2> HIDE DEF y
  <2> QED
    BY <1>1, <2>1, <2>4 DEF y
<1> QED
  BY <1>4, <1>5, <1>7, <1>8, <1>9, <1>10 DEF Hooks!Next

\* apply_merge gives a value that some answer offered, or none.
THEOREM HooksAreTyped ==
    ASSUME \A source \in Sources : source.rules \in Seq(Hooks!Rules)
    PROVE  Hooks!Spec => []Hooks!TypeOK
<1>1. Hooks!Init => ResultsTyped
  BY DEF Hooks!Init, Hooks!Rest, Hooks!NoResult, ResultsTyped, ResultTyped
<1>2. HooksInv /\ ResultsTyped => Hooks!TypeOK
  BY DEF HooksInv, ResultsTyped, ResultTyped, Hooks!TypeOK
<1> QED
  BY <1>1, <1>2, HooksFirst, HooksInvKept, ResultsTypedKept, PTL DEF Hooks!Spec

-----------------------------------------------------------------------------

-----------------------------------------------------------------------------
(* PromptAssembly: who may change a prompt *)

\* What the check of the permissions leaves of an answer.
Filtered(part, answer, ever) ==
    /\ part.from = answer.from
    /\ part.parts \subseteq answer.parts
    /\ "context" \in answer.parts => "context" \in part.parts
    /\ part.parts \subseteq {"context"} \/ answer.from \in ever

Checked(x) ==
    /\ DOMAIN x.kept = DOMAIN x.got
    /\ \A i \in DOMAIN x.got : Filtered(x.kept[i], x.got[i], x.ever)

Offered == [name : STRING, from : Toolers]

Assembling(b, x) ==
    /\ DOMAIN x = {"pc", "got", "kept", "ever", "offers", "from", "out"}
    /\ x.got \in Seq(Prompts!Answers(b)) /\ x.offers \in Seq(Offered)
    /\ x.pc = "hooks" => allowed \subseteq x.ever
    /\ x.pc \in {"idle", "hooks", "tools"} => x.offers = <<>>
    /\ x.pc \in {"tools", "fanout", "publish", "done"} => Checked(x)
    /\ x.pc = "done" => x.out = Prompts!MergeHookResponses(x.kept)

OffersAreLoaded(x) ==
    x.pc = "fanout" => \A i \in DOMAIN x.offers : x.offers[i].from \in providing

PromptsInv ==
    /\ DOMAIN build = Builds
    /\ \A b \in Builds : Assembling(b, build[b])
    /\ absorbed => /\ \A n \in DOMAIN schemas : schemas[n] \in providing
                /\ \A b \in Builds : OffersAreLoaded(build[b])

LEMMA PromptsFirst == ASSUME Prompts!Init PROVE PromptsInv
<1>1. \A b \in Builds : Assembling(b, Prompts!Rest)
  BY DEF Prompts!Rest, Assembling
<1>2. DOMAIN Prompts!Nobody = {}
  BY DEF Prompts!Nobody
<1>3. ~OffersAreLoaded(Prompts!Rest) => FALSE
  BY DEF Prompts!Rest, OffersAreLoaded
<1> QED
  BY <1>1, <1>2, <1>3 DEF Prompts!Init, PromptsInv

\* One invocation moves on and nothing else does.
LEMMA PromptMoves ==
    ASSUME PromptsInv, NEW b \in Builds, NEW y, build' = [build EXCEPT ![b] = y],
           UNCHANGED <<providing, allowed, schemas, absorbed>>,
           Assembling(b, y), OffersAreLoaded(build[b]) => OffersAreLoaded(y)
    PROVE  PromptsInv'
<1>1. /\ DOMAIN build' = Builds /\ build'[b] = y
      /\ \A o \in Builds \ {b} : build'[o] = build[o]
  BY DEF PromptsInv
<1>2. \A o \in Builds : Assembling(o, build[o])'
  BY <1>1 DEF PromptsInv, Assembling
<1>3. ASSUME absorbed' PROVE \A o \in Builds : OffersAreLoaded(build[o])'
  BY <1>1, <1>3 DEF PromptsInv, OffersAreLoaded
<1> QED
  BY <1>1, <1>2, <1>3 DEF PromptsInv

\* The first of several offers of a name is one of them.
LEMMA FirstIsOffered ==
    ASSUME NEW offers \in Seq(Offered)
    PROVE  \A n \in DOMAIN Prompts!FirstByName(offers) :
              \E i \in DOMAIN offers : Prompts!FirstByName(offers)[n] = offers[i].from
<1> SUFFICES ASSUME NEW n, \E i \in DOMAIN offers : offers[i].name = n
             PROVE  \E i \in DOMAIN offers : Prompts!FirstByName(offers)[n] = offers[i].from
  BY DEF Prompts!FirstByName
<1> DEFINE K == {i \in DOMAIN offers : offers[i].name = n}
<1>1. K \subseteq Nat /\ K # {}
  OBVIOUS
<1>2. PICK k \in K : \A other \in K : k <= other
  BY <1>1, FirstPosition
<1>3. Prompts!Min(K) \in K
  BY <1>2 DEF Prompts!Min
<1>4. Prompts!FirstByName(offers)[n] = offers[Prompts!Min(K)].from
  BY DEF Prompts!FirstByName
<1> QED
  BY <1>3, <1>4

LEMMA PromptsInvKept ==
    ASSUME \A c \in Toolers : ToolsOf[c] \in Seq(STRING),
           PromptsInv, [Prompts!Next]_Prompts!vars
    PROVE  PromptsInv'
<1>1. ASSUME NEW b \in Builds, Prompts!HandleAssemble(b)
      PROVE  PromptsInv'
  <2> DEFINE y == [Prompts!Rest EXCEPT !.pc = "hooks", !.ever = allowed]
  <2>1. build' = [build EXCEPT ![b] = y] /\ UNCHANGED <<providing, allowed, schemas, absorbed>>
    BY <1>1 DEF Prompts!HandleAssemble, Prompts!Step, Prompts!World
  <2>2. Assembling(b, y) /\ OffersAreLoaded(y)
    BY DEF Prompts!Rest, Assembling, OffersAreLoaded
  <2> HIDE DEF y
  <2> QED
    BY <2>1, <2>2, PromptMoves
<1>2. ASSUME NEW b \in Builds, Prompts!PluginsReply(b)
      PROVE  PromptsInv'
  <2> DEFINE x == build[b]
  <2>1. PICK batch \in Prompts!SeqOf(Prompts!Answers(b), MaxBatch) :
           build' = [build EXCEPT ![b] = [x EXCEPT !.got = @ \o batch]]
    BY <1>2 DEF Prompts!PluginsReply, Prompts!Step
  <2> DEFINE y == [x EXCEPT !.got = @ \o batch]
  <2>2. /\ build' = [build EXCEPT ![b] = y] /\ UNCHANGED <<providing, allowed, schemas, absorbed>>
        /\ x.pc = "hooks"
    BY <1>2, <2>1 DEF Prompts!PluginsReply, Prompts!World
  <2>3. Assembling(b, x)
    BY DEF PromptsInv
  <2>4. batch \in Seq(Prompts!Answers(b))
    BY <2>1 DEF Prompts!SeqOf
  <2> HIDE DEF x
  <2>5. x.got \o batch \in Seq(Prompts!Answers(b))
    BY <2>3, <2>4 DEF Assembling
  <2>6. /\ DOMAIN y = DOMAIN x /\ y.pc = "hooks" /\ y.got = x.got \o batch
        /\ y.ever = x.ever /\ y.offers = x.offers
    BY <2>2, <2>3 DEF Assembling
  <2> HIDE DEF y
  <2>7. Assembling(b, y) /\ OffersAreLoaded(y)
    BY <2>2, <2>3, <2>5, <2>6 DEF Assembling, OffersAreLoaded
  <2> QED
    BY <2>2, <2>7, PromptMoves
<1>3. ASSUME NEW b \in Builds, Prompts!FireBeforePromptBuild(b)
      PROVE  PromptsInv'
  <2> DEFINE x == build[b]
  <2>1. PICK failed \in SUBSET {x.got[i].from : i \in DOMAIN x.got} :
           build' = [build EXCEPT ![b] = [x EXCEPT !.pc = "tools",
             !.kept = [i \in 1..Len(x.got) |->
                [from |-> x.got[i].from,
                 parts |-> IF x.got[i].from \in failed THEN x.got[i].parts \cap {"context"}
                           ELSE Prompts!Permitted(x.got[i])]]]]
    BY <1>3 DEF Prompts!FireBeforePromptBuild, Prompts!Step
  <2> DEFINE left(answer) == IF answer.from \in failed THEN answer.parts \cap {"context"}
                             ELSE Prompts!Permitted(answer)
             filtered == [i \in 1..Len(x.got) |->
                            [from |-> x.got[i].from, parts |-> left(x.got[i])]]
             y == [x EXCEPT !.pc = "tools", !.kept = filtered]
  <2>2. /\ build' = [build EXCEPT ![b] = y] /\ UNCHANGED <<providing, allowed, schemas, absorbed>>
        /\ x.pc = "hooks"
    BY <1>3, <2>1 DEF Prompts!FireBeforePromptBuild, Prompts!World
  <2>3. Assembling(b, x)
    BY DEF PromptsInv
  <2> HIDE DEF x
  <2>4. \A answer : Filtered([from |-> answer.from, parts |-> left(answer)], answer, x.ever)
    BY <2>2, <2>3 DEF Prompts!Permitted, Prompts!Parts, Assembling, Filtered
  <2>5. DOMAIN x.got = 1..Len(x.got)
    BY <2>3 DEF Assembling
  <2>6. /\ DOMAIN filtered = DOMAIN x.got
        /\ \A i \in DOMAIN x.got : Filtered(filtered[i], x.got[i], x.ever)
    BY <2>4, <2>5
  <2> HIDE DEF filtered
  <2>7. /\ DOMAIN y = DOMAIN x /\ y.pc = "tools" /\ y.got = x.got /\ y.kept = filtered
        /\ y.ever = x.ever /\ y.offers = x.offers
    BY <2>3 DEF Assembling
  <2> HIDE DEF y
  <2>8. Assembling(b, y) /\ OffersAreLoaded(y)
    BY <2>2, <2>3, <2>6, <2>7 DEF Assembling, Checked, OffersAreLoaded
  <2> QED
    BY <2>2, <2>8, PromptMoves
<1>4. ASSUME NEW b \in Builds, Prompts!ReadCache(b)
      PROVE  PromptsInv'
  <2> DEFINE x == build[b]
             y == [x EXCEPT !.pc = IF schemas # Prompts!Nobody THEN "publish" ELSE "fanout"]
  <2>1. /\ build' = [build EXCEPT ![b] = y] /\ UNCHANGED <<providing, allowed, schemas, absorbed>>
        /\ x.pc = "tools"
    BY <1>4 DEF Prompts!ReadCache, Prompts!Step, Prompts!World
  <2>2. Assembling(b, x)
    BY DEF PromptsInv
  <2> HIDE DEF x
  <2>3. /\ DOMAIN y = DOMAIN x /\ y.pc \in {"publish", "fanout"} /\ y.got = x.got
        /\ y.kept = x.kept /\ y.ever = x.ever /\ y.offers = <<>>
    BY <2>1, <2>2 DEF Assembling
  <2> HIDE DEF y
  <2>4. Assembling(b, y) /\ OffersAreLoaded(y)
    BY <2>1, <2>2, <2>3 DEF Assembling, Checked, OffersAreLoaded
  <2> QED
    BY <2>1, <2>4, PromptMoves
<1>5. ASSUME NEW b \in Builds, NEW c \in Toolers, Prompts!DescribeReply(b, c)
      PROVE  PromptsInv'
  <2> DEFINE x == build[b]
             more == [i \in 1..Len(ToolsOf[c]) |-> Prompts!Tool(c, i)]
             y == [x EXCEPT !.from = @ \cup {c}, !.offers = @ \o more]
  <2>1. /\ build' = [build EXCEPT ![b] = y] /\ UNCHANGED <<providing, allowed, schemas, absorbed>>
        /\ x.pc = "fanout" /\ c \in providing
    BY <1>5 DEF Prompts!DescribeReply, Prompts!Step, Prompts!World
  <2>2. Assembling(b, x)
    BY DEF PromptsInv
  <2> HIDE DEF x
  <2>3. more \in Seq(Offered) /\ \A i \in DOMAIN more : more[i].from = c
    BY DEF Prompts!Tool, Offered
  <2> HIDE DEF more
  <2>4. /\ x.offers \in Seq(Offered)
        /\ x.offers \o more \in Seq(Offered)
        /\ \A i \in DOMAIN (x.offers \o more) :
              \/ i \in DOMAIN x.offers /\ (x.offers \o more)[i] = x.offers[i]
              \/ i - Len(x.offers) \in DOMAIN more
                    /\ (x.offers \o more)[i] = more[i - Len(x.offers)]
    BY <2>2, <2>3 DEF Assembling
  <2> DEFINE both == x.offers \o more
  <2>5. /\ DOMAIN y = DOMAIN x /\ y.pc = x.pc /\ y.got = x.got /\ y.kept = x.kept
        /\ y.ever = x.ever /\ y.out = x.out /\ y.offers = both
    BY <2>2 DEF Assembling
  <2> HIDE DEF y, both
  <2>6. Assembling(b, y)
    BY <2>1, <2>2, <2>4, <2>5 DEF Assembling, Checked, both
  <2>7. OffersAreLoaded(x) => OffersAreLoaded(y)
    BY <2>1, <2>3, <2>4, <2>5 DEF OffersAreLoaded, both
  <2> QED
    BY <2>1, <2>6, <2>7, PromptMoves DEF x
<1>6. ASSUME NEW b \in Builds, Prompts!StoreTools(b)
      PROVE  PromptsInv'
  <2> DEFINE x == build[b]
             y == [x EXCEPT !.pc = "publish"]
  <2>1. /\ build' = [build EXCEPT ![b] = y] /\ UNCHANGED <<providing, allowed, absorbed>>
        /\ x.pc = "fanout" /\ schemas' \in {Prompts!FirstByName(x.offers), schemas}
    BY <1>6 DEF Prompts!StoreTools, Prompts!Step, Prompts!World
  <2>2. Assembling(b, x)
    BY DEF PromptsInv
  <2>3. absorbed => OffersAreLoaded(x)
    BY DEF PromptsInv
  <2> HIDE DEF x
  <2>4. /\ DOMAIN y = DOMAIN x /\ y.pc = "publish" /\ y.got = x.got /\ y.kept = x.kept
        /\ y.ever = x.ever /\ y.offers = x.offers
    BY <2>2 DEF Assembling
  <2> HIDE DEF y
  <2>5. Assembling(b, y) /\ OffersAreLoaded(y)
    BY <2>1, <2>2, <2>4 DEF Assembling, Checked, OffersAreLoaded
  <2>6. /\ DOMAIN build' = Builds /\ build'[b] = y
        /\ \A o \in Builds \ {b} : build'[o] = build[o]
    BY <2>1 DEF PromptsInv
  <2>7. \A o \in Builds : Assembling(o, build[o])'
    BY <2>1, <2>5, <2>6 DEF PromptsInv, Assembling
  <2>8. ASSUME absorbed'
        PROVE  /\ \A n \in DOMAIN schemas' : schemas'[n] \in providing'
               /\ \A o \in Builds : OffersAreLoaded(build[o])'
    <3>1. \A n \in DOMAIN Prompts!FirstByName(x.offers) :
             Prompts!FirstByName(x.offers)[n] \in providing
      BY <2>1, <2>2, <2>3, <2>8, FirstIsOffered DEF Assembling, OffersAreLoaded
    <3>2. \A n \in DOMAIN schemas' : schemas'[n] \in providing'
      BY <2>1, <2>8, <3>1 DEF PromptsInv
    <3>3. \A o \in Builds : OffersAreLoaded(build[o])'
      BY <2>1, <2>5, <2>6, <2>8 DEF PromptsInv, OffersAreLoaded
    <3> QED
      BY <3>2, <3>3
  <2> QED
    BY <2>6, <2>7, <2>8 DEF PromptsInv
<1>7. ASSUME NEW b \in Builds, Prompts!Publish(b)
      PROVE  PromptsInv'
  <2> DEFINE x == build[b]
             merged == Prompts!MergeHookResponses(x.kept)
             y == [x EXCEPT !.pc = "done", !.out = merged]
  <2>1. /\ build' = [build EXCEPT ![b] = y] /\ UNCHANGED <<providing, allowed, schemas, absorbed>>
        /\ x.pc = "publish"
    BY <1>7 DEF Prompts!Publish, Prompts!Step, Prompts!World
  <2>2. Assembling(b, x)
    BY DEF PromptsInv
  <2> HIDE DEF x, merged
  <2>3. /\ DOMAIN y = DOMAIN x /\ y.pc = "done" /\ y.got = x.got /\ y.kept = x.kept
        /\ y.ever = x.ever /\ y.offers = x.offers /\ y.out = merged
    BY <2>2 DEF Assembling
  <2> HIDE DEF y
  <2>4. Assembling(b, y) /\ OffersAreLoaded(y)
    BY <2>1, <2>2, <2>3 DEF Assembling, Checked, OffersAreLoaded, merged
  <2> QED
    BY <2>1, <2>4, PromptMoves
<1>8. CASE Prompts!CapsulesChange
  BY <1>8 DEF Prompts!CapsulesChange, PromptsInv, Assembling
<1>9. CASE Prompts!OnCapsulesLoaded
  <2>1. UNCHANGED <<providing, allowed, build>>
    BY <1>9 DEF Prompts!OnCapsulesLoaded
  <2>2. \A b \in Builds : Assembling(b, build[b])'
    BY <2>1 DEF PromptsInv, Assembling
  <2>3. ASSUME absorbed'
        PROVE  /\ \A n \in DOMAIN schemas' : schemas'[n] \in providing
               /\ \A b \in Builds : OffersAreLoaded(build[b])
    <3>1. CASE schemas' = Prompts!Nobody /\ absorbed' = (Prompts!Fanning = {})
      <4>1. Prompts!Fanning = {}
        BY <2>3, <3>1
      <4>2. DOMAIN Prompts!Nobody = {}
        BY DEF Prompts!Nobody
      <4> QED
        BY <3>1, <4>1, <4>2 DEF Prompts!Fanning, OffersAreLoaded
    <3>2. CASE UNCHANGED <<schemas, absorbed>>
      BY <2>3, <3>2 DEF PromptsInv
    <3> QED
      BY <1>9, <3>1, <3>2 DEF Prompts!OnCapsulesLoaded
  <2> QED
    BY <2>1, <2>2, <2>3 DEF PromptsInv, OffersAreLoaded
<1>10. CASE Prompts!SetPermission
  <2>1. UNCHANGED <<providing, schemas, absorbed>> /\ DOMAIN build' = Builds
    BY <1>10 DEF Prompts!SetPermission
  <2>2. ASSUME NEW b \in Builds
        PROVE  /\ Assembling(b, build[b])'
               /\ OffersAreLoaded(build[b]) => OffersAreLoaded(build[b])'
    <3> DEFINE x == build[b]
    <3>1. Assembling(b, x)
      BY DEF PromptsInv
    <3>2. PICK y : y = build'[b]
      OBVIOUS
    <3>3. /\ DOMAIN y = DOMAIN x /\ y.pc = x.pc /\ y.got = x.got /\ y.kept = x.kept
          /\ y.offers = x.offers /\ y.out = x.out
          /\ y.ever = IF x.pc = "hooks" THEN x.ever \cup allowed' ELSE x.ever
      BY <1>10, <3>1, <3>2 DEF Prompts!SetPermission, Assembling
    <3> HIDE DEF x
    <3>4. Assembling(b, y)'
      BY <3>1, <3>3 DEF Assembling, Checked
    <3>5. OffersAreLoaded(x) => OffersAreLoaded(y)'
      BY <2>1, <3>3 DEF OffersAreLoaded
    <3> QED
      BY <3>2, <3>4, <3>5 DEF x
  <2> QED
    BY <2>1, <2>2 DEF PromptsInv
<1>11. CASE UNCHANGED Prompts!vars
  BY <1>11 DEF Prompts!vars, PromptsInv, Assembling, OffersAreLoaded
<1> QED
  BY <1>1, <1>2, <1>3, <1>4, <1>5, <1>6, <1>7, <1>8, <1>9, <1>10, <1>11 DEF Prompts!Next

\* What a merged prompt holds, of capsules that may change it and of no other.
LEMMA MergedIsPermitted ==
    ASSUME PromptsInv, NEW b \in Builds, build[b].pc = "done"
    PROVE  LET out == build[b].out
               answers == Prompts!ToSet(build[b].got)
               given(part) == {a.from : a \in {a \in answers : part \in a.parts}}
           IN  /\ Prompts!Range(out.prepended) \cup Prompts!Range(out.appended)
                     \cup ({out.base} \ {Original}) \subseteq build[b].ever
               /\ given("context") \subseteq Prompts!Range(out.prefix)
               /\ given("override") \cap build[b].ever = {} => out.base = Original
<1> DEFINE x == build[b]
           with(part) == {i \in DOMAIN x.kept : part \in x.kept[i].parts}
           who(part) == [i \in with(part) |-> x.kept[i].from]
           base == IF with("override") = {} THEN Original
                   ELSE x.kept[Prompts!Max(with("override"))].from
<1>1. /\ Assembling(b, x) /\ Checked(x) /\ x.out = Prompts!MergeHookResponses(x.kept)
      /\ DOMAIN x.got = 1..Len(x.got) /\ Len(x.got) \in Nat
  BY DEF PromptsInv, Assembling
<1>2. /\ x.out.prepended = who("prepend") /\ x.out.appended = who("append")
      /\ x.out.prefix = who("context") /\ x.out.base = base
  BY <1>1 DEF Prompts!MergeHookResponses
<1> HIDE DEF x
<1>3. \A part \in {"prepend", "append", "override"} : \A i \in with(part) :
         /\ x.kept[i].from \in x.ever /\ x.kept[i].from = x.got[i].from
         /\ x.got[i] \in Prompts!ToSet(x.got) /\ part \in x.got[i].parts
  BY <1>1 DEF Checked, Filtered, Prompts!ToSet
<1>4. \A a \in Prompts!ToSet(x.got) : "context" \in a.parts =>
         \E i \in with("context") : x.kept[i].from = a.from
  BY <1>1 DEF Checked, Filtered, Prompts!ToSet
<1>5. ASSUME with("override") # {}
      PROVE  Prompts!Max(with("override")) \in with("override")
  <2>1. with("override") \subseteq 1..Len(x.got)
    BY <1>1 DEF Checked
  <2> DEFINE K == with("override")
  <2> HIDE DEF K
  <2>2. PICK k \in K : \A other \in K : other <= k
    BY <1>1, <1>5, <2>1, LastPosition DEF K
  <2> QED
    BY <2>2 DEF Prompts!Max, K
<1> HIDE DEF with
<1>6. Prompts!Range(who("prepend")) \subseteq x.ever /\ Prompts!Range(who("append")) \subseteq x.ever
  BY <1>3 DEF Prompts!Range
<1>7. {base} \ {Original} \subseteq x.ever
  BY <1>3, <1>5
<1> DEFINE given(part) == {a.from : a \in {a \in Prompts!ToSet(x.got) : part \in a.parts}}
<1>8. given("context") \subseteq Prompts!Range(who("context"))
  BY <1>4 DEF Prompts!Range
<1>9. given("override") \cap x.ever = {} => base = Original
  BY <1>3
<1> QED
  BY <1>2, <1>6, <1>7, <1>8, <1>9 DEF x

\* Whatever a plugin answers and whenever its permission is granted or revoked, a
\* prompt holds its system text only if it was permitted while the hook was out.
THEOREM PromptsArePermitted ==
    (\A c \in Toolers : ToolsOf[c] \in Seq(STRING))
       => (Prompts!Spec => []Prompts!InjectionIsPermitted)
<1> SUFFICES ASSUME \A c \in Toolers : ToolsOf[c] \in Seq(STRING)
             PROVE  Prompts!Spec => []Prompts!InjectionIsPermitted
  OBVIOUS
<1>1. ASSUME PromptsInv
      PROVE  Prompts!InjectionIsPermitted
  <2> SUFFICES ASSUME NEW b \in Builds, build[b].pc = "done"
               PROVE  LET out == build[b].out
                          answers == Prompts!ToSet(build[b].got)
                          given(part) == {a.from : a \in {a \in answers : part \in a.parts}}
                      IN  /\ Prompts!Range(out.prepended) \cup Prompts!Range(out.appended)
                                \cup ({out.base} \ {Original}) \subseteq build[b].ever
                          /\ given("context") \subseteq Prompts!Range(out.prefix)
                          /\ given("override") \cap build[b].ever = {} => out.base = Original
    BY Zenon DEF Prompts!InjectionIsPermitted
  <2> QED
    BY <1>1, MergedIsPermitted
<1> QED
  BY <1>1, PromptsFirst, PromptsInvKept, PTL DEF Prompts!Spec

\* Once a change was absorbed with no fan-out out, the cached list names tools of
\* loaded capsules only, until the next change.
THEOREM CacheFollowsTheCapsules ==
    (\A c \in Toolers : ToolsOf[c] \in Seq(STRING))
       => (Prompts!Spec => []Prompts!CachedToolsAreLoaded)
<1> SUFFICES ASSUME \A c \in Toolers : ToolsOf[c] \in Seq(STRING)
             PROVE  Prompts!Spec => []Prompts!CachedToolsAreLoaded
  OBVIOUS
<1>1. PromptsInv => Prompts!CachedToolsAreLoaded
  BY DEF PromptsInv, Prompts!CachedToolsAreLoaded, Prompts!Range
<1> QED
  BY <1>1, PromptsFirst, PromptsInvKept, PTL DEF Prompts!Spec

-----------------------------------------------------------------------------
(* PromptAssembly: types *)

\* The rest of the types: who may be loaded, permitted and listed, and how far past
\* the cap the answers go.
AssemblyTyped ==
    /\ providing \subseteq Toolers /\ allowed \subseteq Plugins
    /\ \A n \in DOMAIN schemas : schemas[n] \in Toolers
    /\ \A b \in Builds : Len(build[b].got) < MaxReplies + MaxBatch

LEMMA AssemblyTypedKept ==
    ASSUME MaxReplies \in Nat, MaxBatch \in Nat \ {0}, PromptsInv, AssemblyTyped, [Prompts!Next]_Prompts!vars
    PROVE  AssemblyTyped'
\* One invocation moves on, with no more answers than one batch past the cap.
<1>1. ASSUME NEW b \in Builds, NEW y, build' = [build EXCEPT ![b] = y],
             Len(y.got) < MaxReplies + MaxBatch, UNCHANGED <<providing, allowed>>,
             schemas' = schemas \/ \A n \in DOMAIN schemas' : schemas'[n] \in Toolers
      PROVE  AssemblyTyped'
  <2>1. build'[b] = y /\ \A o \in Builds \ {b} : build'[o] = build[o]
    BY <1>1 DEF PromptsInv
  <2> QED
    BY <1>1, <2>1 DEF AssemblyTyped
<1>2. \A b \in Builds : Assembling(b, build[b]) /\ Len(build[b].got) < MaxReplies + MaxBatch
  BY DEF PromptsInv, AssemblyTyped
<1>3. ASSUME NEW b \in Builds, Prompts!HandleAssemble(b)
      PROVE  AssemblyTyped'
  <2> DEFINE y == [Prompts!Rest EXCEPT !.pc = "hooks", !.ever = allowed]
  <2>1. build' = [build EXCEPT ![b] = y] /\ UNCHANGED <<providing, allowed, schemas>>
    BY <1>3 DEF Prompts!HandleAssemble, Prompts!Step, Prompts!World
  <2>2. y.got = <<>> /\ Len(<<>>) = 0
    BY DEF Prompts!Rest
  <2> HIDE DEF y
  <2>3. Len(y.got) < MaxReplies + MaxBatch
    BY <2>2
  <2> QED
    BY <1>1, <2>1, <2>3
<1>4. ASSUME NEW b \in Builds, Prompts!PluginsReply(b)
      PROVE  AssemblyTyped'
  <2>1. PICK batch \in Prompts!SeqOf(Prompts!Answers(b), MaxBatch) :
           build' = [build EXCEPT ![b] = [build[b] EXCEPT !.got = @ \o batch]]
    BY <1>4 DEF Prompts!PluginsReply, Prompts!Step
  <2> DEFINE y == [build[b] EXCEPT !.got = @ \o batch]
  <2>2. /\ build' = [build EXCEPT ![b] = y] /\ UNCHANGED <<providing, allowed, schemas>>
        /\ Len(build[b].got) < MaxReplies
    BY <1>4, <2>1 DEF Prompts!PluginsReply, Prompts!World
  <2>3. build[b].got \in Seq(Prompts!Answers(b)) /\ y.got = build[b].got \o batch
    BY <1>2 DEF Assembling
  <2> HIDE DEF y
  <2>4. batch \in Seq(Prompts!Answers(b)) /\ Len(batch) <= MaxBatch
    BY <2>1 DEF Prompts!SeqOf
  <2>5. Len(y.got) = Len(build[b].got) + Len(batch) /\ Len(build[b].got) \in Nat
    BY <2>3, <2>4
  <2>6. Len(y.got) < MaxReplies + MaxBatch
    BY <2>2, <2>4, <2>5
  <2> QED
    BY <1>1, <2>2, <2>6
<1>5. ASSUME NEW b \in Builds, NEW y, build' = [build EXCEPT ![b] = y], y.got = build[b].got,
             UNCHANGED <<providing, allowed, schemas>>
      PROVE  AssemblyTyped'
  BY <1>1, <1>2, <1>5
<1>6. ASSUME NEW b \in Builds, Prompts!FireBeforePromptBuild(b)
      PROVE  AssemblyTyped'
  <2> DEFINE x == build[b]
  <2>1. PICK failed \in SUBSET {x.got[i].from : i \in DOMAIN x.got} :
           build' = [build EXCEPT ![b] = [x EXCEPT !.pc = "tools",
             !.kept = [i \in 1..Len(x.got) |->
                [from |-> x.got[i].from,
                 parts |-> IF x.got[i].from \in failed THEN x.got[i].parts \cap {"context"}
                           ELSE Prompts!Permitted(x.got[i])]]]]
    BY <1>6 DEF Prompts!FireBeforePromptBuild, Prompts!Step
  <2> DEFINE kept == [i \in 1..Len(x.got) |->
                [from |-> x.got[i].from,
                 parts |-> IF x.got[i].from \in failed THEN x.got[i].parts \cap {"context"}
                           ELSE Prompts!Permitted(x.got[i])]]
             y == [x EXCEPT !.pc = "tools", !.kept = kept]
  <2>2. build' = [build EXCEPT ![b] = y]
    BY <2>1
  <2> HIDE DEF kept
  <2>4. y.got = build[b].got
    BY <1>2 DEF Assembling
  <2> HIDE DEF y, x
  <2>3. UNCHANGED <<providing, allowed, schemas>>
    BY <1>6 DEF Prompts!FireBeforePromptBuild, Prompts!World
  <2> QED
    BY <1>5, <2>2, <2>3, <2>4
<1>7. ASSUME NEW b \in Builds, Prompts!ReadCache(b)
      PROVE  AssemblyTyped'
  <2> DEFINE y == [build[b] EXCEPT !.pc = IF schemas # Prompts!Nobody THEN "publish" ELSE "fanout"]
  <2>1. build' = [build EXCEPT ![b] = y] /\ UNCHANGED <<providing, allowed, schemas>>
    BY <1>7 DEF Prompts!ReadCache, Prompts!Step, Prompts!World
  <2>2. y.got = build[b].got
    BY <1>2 DEF Assembling
  <2> HIDE DEF y
  <2> QED
    BY <1>5, <2>1, <2>2
<1>8. ASSUME NEW b \in Builds, NEW c \in Toolers, Prompts!DescribeReply(b, c)
      PROVE  AssemblyTyped'
  <2> DEFINE y == [build[b] EXCEPT !.from = @ \cup {c},
                     !.offers = @ \o [i \in 1..Len(ToolsOf[c]) |-> Prompts!Tool(c, i)]]
  <2>1. build' = [build EXCEPT ![b] = y] /\ UNCHANGED <<providing, allowed, schemas>>
    BY <1>8 DEF Prompts!DescribeReply, Prompts!Step, Prompts!World
  <2>2. y.got = build[b].got
    BY <1>2 DEF Assembling
  <2> HIDE DEF y
  <2> QED
    BY <1>5, <2>1, <2>2
<1>9. ASSUME NEW b \in Builds, Prompts!StoreTools(b)
      PROVE  AssemblyTyped'
  <2> DEFINE y == [build[b] EXCEPT !.pc = "publish"]
             offers == build[b].offers
  <2>1. /\ build' = [build EXCEPT ![b] = y] /\ UNCHANGED <<providing, allowed>>
        /\ schemas' \in {Prompts!FirstByName(offers), schemas}
    BY <1>9 DEF Prompts!StoreTools, Prompts!Step, Prompts!World
  <2>2. y.got = build[b].got
    BY <1>2 DEF Assembling
  <2>3. offers \in Seq(Offered)
    BY <1>2 DEF Assembling
  <2> HIDE DEF y, offers
  <2>4. \A n \in DOMAIN Prompts!FirstByName(offers) : Prompts!FirstByName(offers)[n] \in Toolers
    <3>1. ASSUME NEW i \in DOMAIN offers
          PROVE  offers[i].from \in Toolers
      <4>1. offers[i] \in Offered
        BY <2>3
      <4> QED
        BY <4>1 DEF Offered
    <3> QED
      BY <2>3, <3>1, FirstIsOffered
  <2> QED
    BY <1>1, <1>2, <2>1, <2>2, <2>4
<1>10. ASSUME NEW b \in Builds, Prompts!Publish(b)
       PROVE  AssemblyTyped'
  <2> DEFINE y == [build[b] EXCEPT !.pc = "done",
                                   !.out = Prompts!MergeHookResponses(build[b].kept)]
  <2>1. build' = [build EXCEPT ![b] = y] /\ UNCHANGED <<providing, allowed, schemas>>
    BY <1>10 DEF Prompts!Publish, Prompts!Step, Prompts!World
  <2>2. y.got = build[b].got
    BY <1>2 DEF Assembling
  <2> HIDE DEF y
  <2> QED
    BY <1>5, <2>1, <2>2
<1>11. CASE Prompts!CapsulesChange
  BY <1>11 DEF Prompts!CapsulesChange, AssemblyTyped
<1>12. CASE Prompts!OnCapsulesLoaded
  <2>1. DOMAIN Prompts!Nobody = {}
    BY DEF Prompts!Nobody
  <2> QED
    BY <1>12, <2>1 DEF Prompts!OnCapsulesLoaded, AssemblyTyped
<1>13. CASE Prompts!SetPermission
  <2>1. UNCHANGED <<providing, schemas>> /\ allowed' \subseteq Plugins
    BY <1>13 DEF Prompts!SetPermission
  <2>2. ASSUME NEW b \in Builds
        PROVE  build'[b].got = build[b].got
    <3>1. build'[b] = [build[b] EXCEPT !.ever = IF build[b].pc = "hooks" THEN @ \cup allowed' ELSE @]
      BY <1>13 DEF Prompts!SetPermission
    <3>2. DOMAIN build[b] = {"pc", "got", "kept", "ever", "offers", "from", "out"}
      BY <1>2 DEF Assembling
    <3> QED
      BY <3>1, <3>2
  <2> QED
    BY <2>1, <2>2 DEF AssemblyTyped
<1>14. CASE UNCHANGED Prompts!vars
  BY <1>14 DEF Prompts!vars, AssemblyTyped
<1> QED
  BY <1>3, <1>4, <1>6, <1>7, <1>8, <1>9, <1>10, <1>11, <1>12, <1>13, <1>14 DEF Prompts!Next

\* An invocation collects answers that plugins gave, and goes past MAX_HOOK_RESPONSES
\* by less than a batch: the cap is looked at between two recvs, and a batch is
\* taken whole.  The cached tool list names capsules that answer describe requests
\* (capsule-prompt-builder lib.rs:375-412).
THEOREM PromptsAreTyped ==
    ASSUME \A c \in Toolers : ToolsOf[c] \in Seq(STRING),
           MaxReplies \in Nat, MaxBatch \in Nat \ {0}
    PROVE  Prompts!Spec => []Prompts!TypeOK
<1>1. Prompts!Init => PromptsInv /\ AssemblyTyped
  <2>1. DOMAIN Prompts!Nobody = {} /\ Prompts!Rest.got = <<>> /\ Len(<<>>) = 0
    BY DEF Prompts!Nobody, Prompts!Rest
  <2>2. ASSUME Prompts!Init
        PROVE  AssemblyTyped
    <3>1. \A b \in Builds : build[b] = Prompts!Rest
      BY <2>2 DEF Prompts!Init
    <3>2. \A b \in Builds : Len(build[b].got) < MaxReplies + MaxBatch
      BY <2>1, <2>2, <3>1
    <3> QED
      BY <2>1, <2>2, <3>2 DEF Prompts!Init, AssemblyTyped
  <2> QED
    BY <2>2, PromptsFirst
<1>2. PromptsInv /\ AssemblyTyped /\ [Prompts!Next]_Prompts!vars => (PromptsInv /\ AssemblyTyped)'
  BY PromptsInvKept, AssemblyTypedKept
<1>3. PromptsInv /\ AssemblyTyped => Prompts!TypeOK
  <2> SUFFICES ASSUME PromptsInv, AssemblyTyped
               PROVE  Prompts!TypeOK
    OBVIOUS
  <2>1. \A b \in Builds : Prompts!ToSet(build[b].got) \subseteq Prompts!Answers(b)
    BY DEF PromptsInv, Assembling, Prompts!ToSet
  <2>2. Prompts!Range(schemas) \subseteq Toolers
    BY DEF AssemblyTyped, Prompts!Range
  <2> QED
    BY <2>1, <2>2 DEF AssemblyTyped, Prompts!TypeOK
<1> QED
  BY <1>1, <1>2, <1>3, PTL DEF Prompts!Spec

-----------------------------------------------------------------------------
(* ToolCatalog: whose tools are listed *)

\* What the theorem supposes: finitely many capsules, each with a list of tools,
\* and fan-outs that are not the two other writers.
Catalogued ==
    /\ IsFiniteSet(Capsules)
    /\ ToolOffers \in [Capsules -> Seq([name : STRING, valid : BOOLEAN])]
    /\ Descriptors!Loader \notin Fanouts

\* Descriptors have places in a finite order: by answer, then by entry.
Placed(acc) ==
    /\ \E n \in Nat : \A p \in DOMAIN acc : p[1] \in 1..n
    /\ \A p \in DOMAIN acc : /\ acc[p].from \in Capsules
                             /\ p[2] \in 1..Len(ToolOffers[acc[p].from])
    /\ \A p, q \in DOMAIN acc : p[1] = q[1] => acc[p].from = acc[q].from

\* Every descriptor, or answer, is one of the capsules cs.
Among(acc, cs) == \A p \in DOMAIN acc : acc[p].from \in cs
Owned(x) == Among(x.acc, serving) /\ \A k \in DOMAIN x.from : x.from[k] \in serving

Working(x) ==
    /\ DOMAIN x = {"pc", "acc", "from", "read", "tries"}
    /\ Placed(x.acc) /\ x.from \in Seq(Capsules)
    /\ x.pc = "idle" => DOMAIN x.acc = {} /\ x.from = <<>>

CatalogInv ==
    /\ DOMAIN task = Descriptors!Tasks
    /\ \A t \in Descriptors!Tasks : Working(task[t])
    /\ serving \subseteq Capsules
    /\ signal = <<>> \/ signal = <<serving>>
    /\ signal = <<>> => Among(task[Descriptors!Loader].acc, serving)
    /\ clean => /\ signal = <<>>
                /\ \A n \in DOMAIN cache.tools : cache.tools[n] \in serving
                /\ \A t \in Descriptors!Tasks : Owned(task[t])

\* What capsules answer is in order and theirs.
LEMMA ListingIsPlaced ==
    ASSUME Catalogued, NEW n \in Nat, NEW cs, DOMAIN cs = 1..n,
           \A k \in 1..n : cs[k] \in Capsules,
           NEW read, \A c \in Capsules : read[c] \subseteq DOMAIN ToolOffers[c],
           NEW owners, \A k \in 1..n : cs[k] \in owners
    PROVE  Placed(Descriptors!Listing(cs, read)) /\ Among(Descriptors!Listing(cs, read), owners)
<1> DEFINE acc == Descriptors!Listing(cs, read)
<1>1. \A p \in DOMAIN acc : /\ p[1] \in 1..n /\ p[2] \in read[cs[p[1]]]
                            /\ acc[p].from = cs[p[1]]
  BY DEF Descriptors!Listing
<1>2. \A c \in Capsules : DOMAIN ToolOffers[c] = 1..Len(ToolOffers[c])
  BY DEF Catalogued
<1> HIDE DEF acc
<1>3. Placed(acc) /\ Among(acc, owners)
  BY <1>1, <1>2 DEF Placed, Among
<1> QED
  BY <1>3 DEF acc

LEMMA AnswersArePlaced ==
    ASSUME Catalogued, NEW cs \in Seq(Capsules), NEW owners,
           \A k \in DOMAIN cs : cs[k] \in owners
    PROVE  Placed(Descriptors!ParseDescribe(cs)) /\ Among(Descriptors!ParseDescribe(cs), owners)
<1> DEFINE read == [c \in Capsules |->
                      {i \in DOMAIN ToolOffers[c] : i <= PerReply /\ ToolOffers[c][i].valid}]
<1>1. \A c \in Capsules : read[c] \subseteq DOMAIN ToolOffers[c]
  OBVIOUS
<1>2. Descriptors!ParseDescribe(cs) = Descriptors!Listing(cs, read)
  BY DEF Descriptors!ParseDescribe
<1> HIDE DEF read
<1>3. Len(cs) \in Nat /\ DOMAIN cs = 1..Len(cs) /\ \A k \in DOMAIN cs : cs[k] \in Capsules
  OBVIOUS
<1> QED
  BY <1>1, <1>2, <1>3, ListingIsPlaced

\* Every name has a last descriptor: the last entry of the last answer with it.
LEMMA NamesHaveALast ==
    ASSUME Catalogued, NEW acc, Placed(acc), NEW n \in Descriptors!Names(acc)
    PROVE  Descriptors!LastOf(acc, n) \in DOMAIN acc
<1> DEFINE P == {p \in DOMAIN acc : acc[p].name = n}
           K == {p[1] : p \in P}
<1>1. P # {}
  BY DEF Descriptors!Names
<1>2. PICK k \in K : \A other \in K : other <= k
  <2>1. PICK m \in Nat : \A p \in DOMAIN acc : p[1] \in 1..m
    BY DEF Placed
  <2>2. K \subseteq 1..m /\ K # {}
    BY <1>1, <2>1
  <2> HIDE DEF K
  <2> QED
    BY <2>1, <2>2, LastPosition
<1>3. PICK first \in P : first[1] = k
  OBVIOUS
<1> DEFINE J == {p[2] : p \in {p \in P : p[1] = k}}
<1>4. PICK j \in J : \A other \in J : other <= j
  <2>1. J \subseteq 1..Len(ToolOffers[acc[first].from]) /\ J # {}
    BY <1>3 DEF Placed
  <2>2. Len(ToolOffers[acc[first].from]) \in Nat
    BY <1>3 DEF Placed, Catalogued
  <2> HIDE DEF J
  <2> QED
    BY <2>1, <2>2, LastPosition
<1>5. PICK last \in P : last[1] = k /\ last[2] = j
  OBVIOUS
<1>6. ASSUME NEW q \in P, Descriptors!Before(last, q)
      PROVE  FALSE
  <2>1. q[1] \in K /\ q[1] <= k
    BY <1>2
  <2>2. k \in Nat /\ q[1] \in Nat
    BY <1>3 DEF Placed
  <2>3. q[1] = k /\ j < q[2]
    BY <1>5, <1>6, <2>1, <2>2 DEF Descriptors!Before
  <2>4. q[2] <= j
    BY <1>4, <2>3
  <2>5. q[2] \in Nat /\ j \in Nat
    BY <1>5, <2>3 DEF Placed
  <2> QED
    BY <2>3, <2>4, <2>5
<1>7. \E p \in DOMAIN acc : /\ acc[p].name = n
                            /\ \A q \in DOMAIN acc : acc[q].name = n => ~Descriptors!Before(p, q)
  BY <1>5, <1>6
<1> QED
  BY <1>7 DEF Descriptors!LastOf

\* The part of a list that is left keeps its order and owners.
LEMMA PartIsPlaced ==
    ASSUME NEW acc, Placed(acc), NEW S \in SUBSET DOMAIN acc, NEW owners, Among(acc, owners)
    PROVE  Placed(Descriptors!Restrict(acc, S)) /\ Among(Descriptors!Restrict(acc, S), owners)
<1> DEFINE part == Descriptors!Restrict(acc, S)
<1>1. DOMAIN part = S /\ \A p \in S : part[p] = acc[p]
  BY DEF Descriptors!Restrict
<1> HIDE DEF part
<1>2. Placed(part) /\ Among(part, owners)
  BY <1>1 DEF Placed, Among
<1> QED
  BY <1>2 DEF part

LEMMA DedupedIsPlaced ==
    ASSUME Catalogued, NEW acc, Placed(acc), NEW owners, Among(acc, owners)
    PROVE  Placed(Descriptors!DedupeLast(acc)) /\ Among(Descriptors!DedupeLast(acc), owners)
<1> DEFINE S == {Descriptors!LastOf(acc, n) : n \in Descriptors!Names(acc)}
<1>1. S \in SUBSET DOMAIN acc
  BY NamesHaveALast
<1> QED
  BY <1>1, PartIsPlaced DEF Descriptors!DedupeLast

\* What is written is of the capsules whose descriptors it is made from.
LEMMA NamedAreOwned ==
    ASSUME Catalogued, NEW acc, Placed(acc), NEW owners, Among(acc, owners),
           NEW n \in Descriptors!Names(acc)
    PROVE  Descriptors!ByName(acc)[n] \in owners
  BY NamesHaveALast DEF Among, Descriptors!ByName

LEMMA FilledIsOwned ==
    ASSUME Catalogued, NEW acc, Placed(acc), NEW owners, Among(acc, owners)
    PROVE  \A n \in DOMAIN Descriptors!Fill(acc) : Descriptors!Fill(acc)[n] \in owners
<1> DEFINE S == {p \in DOMAIN acc : Descriptors!Cardinality(Descriptors!Ahead(acc, p)) < Cap}
           part == Descriptors!Restrict(acc, S)
<1>1. Placed(part) /\ Among(part, owners)
  BY PartIsPlaced
<1>2. Descriptors!Fill(acc) = Descriptors!ByName(part)
  BY DEF Descriptors!Fill
<1> HIDE DEF part
<1>3. DOMAIN Descriptors!ByName(part) = Descriptors!Names(part)
  BY DEF Descriptors!ByName
<1> QED
  BY <1>1, <1>2, <1>3, NamedAreOwned

LEMMA MergedIsOwned ==
    ASSUME Catalogued, NEW acc, Placed(acc), NEW owners, Among(acc, owners),
           NEW tools, \A n \in DOMAIN tools : tools[n] \in owners
    PROVE  \A n \in DOMAIN Descriptors!Merge(tools, acc) : Descriptors!Merge(tools, acc)[n] \in owners
<1> SUFFICES ASSUME NEW n \in Descriptors!Kept(tools, acc)
             PROVE  Descriptors!Merge(tools, acc)[n] \in owners
  BY DEF Descriptors!Merge
<1>1. Descriptors!Merge(tools, acc)[n] = IF n \in Descriptors!Names(acc) THEN Descriptors!ByName(acc)[n]
                                     ELSE tools[n]
  BY DEF Descriptors!Merge
<1>2. n \notin Descriptors!Names(acc) => n \in DOMAIN tools
  BY DEF Descriptors!Kept, Descriptors!Names
<1> QED
  BY <1>1, <1>2, NamedAreOwned

LEMMA RestIsIdle == Working(Descriptors!Rest) /\ Owned(Descriptors!Rest) /\ Descriptors!Rest.pc = "idle"
  BY DEF Descriptors!Rest, Working, Owned, Placed, Among

LEMMA CatalogFirst == ASSUME Descriptors!Init PROVE CatalogInv
<1>1. DOMAIN Descriptors!Empty.tools = {}
  BY DEF Descriptors!Empty
<1>2. Descriptors!Loader \in Descriptors!Tasks
  BY DEF Descriptors!Tasks
<1> QED
  BY <1>1, <1>2, RestIsIdle DEF Descriptors!Init, CatalogInv, Owned

LEMMA WorkingLater ==
    ASSUME NEW o, Working(task'[o])
    PROVE  Working(task[o])'
  BY DEF Working, Placed

\* One writer moves on, and the cache changes at most to what is owned.
LEMMA WriterMoves ==
    ASSUME CatalogInv, NEW t \in Descriptors!Tasks, NEW y,
           DOMAIN task' = Descriptors!Tasks, task'[t] = y,
           \A o \in Descriptors!Tasks \ {t} : task'[o] = task[o],
           UNCHANGED <<serving, signal>>,
           Working(y), clean => Owned(y),
           t = Descriptors!Loader /\ signal = <<>> => Among(y.acc, serving),
           clean => /\ clean'
                    /\ \A n \in DOMAIN cache'.tools : cache'.tools[n] \in serving,
           clean' => clean
    PROVE  CatalogInv'
<1>1. \A o \in Descriptors!Tasks : Working(task[o])'
  <2>1. \A o \in Descriptors!Tasks : Working(task'[o])
    BY DEF CatalogInv
  <2> QED
    BY <2>1, WorkingLater
<1>2. (signal = <<>> => Among(task[Descriptors!Loader].acc, serving))'
  <2>1. Descriptors!Loader \in Descriptors!Tasks
    BY DEF Descriptors!Tasks
  <2> QED
    BY <2>1 DEF CatalogInv, Among
<1>3. ASSUME clean' PROVE \A o \in Descriptors!Tasks : Owned(task[o])'
  BY <1>3 DEF CatalogInv, Owned, Among
<1> QED
  BY <1>1, <1>2, <1>3 DEF CatalogInv

LEMMA CatalogInvKept ==
    ASSUME Catalogued, CatalogInv, [Descriptors!Next]_Descriptors!vars
    PROVE  CatalogInv'
<1>1. ASSUME NEW t \in Descriptors!Tasks, NEW y, task' = [task EXCEPT ![t] = y],
             UNCHANGED <<serving, signal, cache, clean>>, Working(y), clean => Owned(y),
             t = Descriptors!Loader /\ signal = <<>> => Among(y.acc, serving)
      PROVE  CatalogInv'
  <2>1. /\ DOMAIN task' = Descriptors!Tasks /\ task'[t] = y
        /\ \A o \in Descriptors!Tasks \ {t} : task'[o] = task[o]
    BY <1>1 DEF CatalogInv
  <2> QED
    BY <1>1, <2>1, WriterMoves DEF CatalogInv
\* A step of a writer that changes neither what it holds nor the cache.
<1>2. ASSUME NEW t \in Descriptors!Tasks, NEW y, task' = [task EXCEPT ![t] = y],
             UNCHANGED <<serving, signal, cache, clean>>,
             DOMAIN y = DOMAIN task[t], y.acc = task[t].acc, y.from = task[t].from,
             y.pc # "idle"
      PROVE  CatalogInv'
  <2>1. Working(y) /\ (clean => Owned(y))
    BY <1>2 DEF CatalogInv, Working, Owned
  <2>2. t = Descriptors!Loader /\ signal = <<>> => Among(y.acc, serving)
    BY <1>2 DEF CatalogInv
  <2> QED
    BY <1>1, <1>2, <2>1, <2>2
<1>3. ASSUME NEW t \in Descriptors!Tasks, task' = [task EXCEPT ![t] = Descriptors!Rest],
             UNCHANGED <<serving, signal, cache, clean>>
      PROVE  CatalogInv'
  BY <1>1, <1>3, RestIsIdle DEF Owned
<1>4. \A f \in Fanouts : f \in Descriptors!Tasks /\ f # Descriptors!Loader
  BY DEF Catalogued, Descriptors!Tasks
<1>5. ASSUME NEW f \in Fanouts, Descriptors!CollectSnapshot(f)
      PROVE  CatalogInv'
  <2> DEFINE y == [task[f] EXCEPT !.pc = "drain"]
  <2>1. task' = [task EXCEPT ![f] = y] /\ UNCHANGED <<serving, signal, cache, clean>>
    BY <1>5 DEF Descriptors!CollectSnapshot, Descriptors!Goto
  <2>2. /\ DOMAIN y = DOMAIN task[f] /\ y.acc = task[f].acc /\ y.from = task[f].from
        /\ y.pc = "drain"
    BY <1>4 DEF CatalogInv, Working
  <2> HIDE DEF y
  <2> QED
    BY <1>2, <1>4, <2>1, <2>2
<1>6. ASSUME NEW f \in Fanouts, Descriptors!DrainReply(f)
      PROVE  CatalogInv'
  <2> DEFINE x == task[f]
  <2>1. PICK c \in serving : task' = [task EXCEPT ![f].from = Append(@, c)]
    BY <1>6 DEF Descriptors!DrainReply
  <2> DEFINE y == [x EXCEPT !.from = Append(@, c)]
  <2>2. task' = [task EXCEPT ![f] = y]
    BY <2>1
  <2>3. x.pc = "drain" /\ UNCHANGED <<serving, signal, cache, clean>>
    BY <1>6 DEF Descriptors!DrainReply
  <2>4. Working(x) /\ (clean => Owned(x))
    BY <1>4 DEF CatalogInv
  <2> HIDE DEF x
  <2>5. /\ Append(x.from, c) \in Seq(Capsules)
        /\ \A k \in DOMAIN Append(x.from, c) :
              Append(x.from, c)[k] = c \/ (k \in DOMAIN x.from /\ Append(x.from, c)[k] = x.from[k])
    BY <2>4, AppendElements DEF CatalogInv, Working
  <2>6. /\ DOMAIN y = DOMAIN x /\ y.pc = "drain" /\ y.acc = x.acc
        /\ y.from = Append(x.from, c)
    BY <2>3, <2>4 DEF Working
  <2> HIDE DEF y
  <2>7. Working(y) /\ (clean => Owned(y))
    BY <2>4, <2>5, <2>6 DEF Working, Owned
  <2> QED
    BY <1>1, <1>4, <2>2, <2>3, <2>7
<1>7. ASSUME NEW f \in Fanouts, Descriptors!CloseWindow(f)
      PROVE  CatalogInv'
  <2> DEFINE x == task[f]
             acc == Descriptors!ParseDescribe(x.from)
             y == [x EXCEPT !.pc = "replace", !.from = <<>>, !.acc = Descriptors!DedupeLast(acc)]
  <2>1. \/ task' = [task EXCEPT ![f] = Descriptors!Rest]
        \/ task' = [task EXCEPT ![f].pc = "replace", ![f].from = <<>>,
                                ![f].acc = Descriptors!DedupeLast(acc)]
    BY <1>7 DEF Descriptors!CloseWindow, Descriptors!Finish
  <2>2. UNCHANGED <<serving, signal, cache, clean>>
    BY <1>7 DEF Descriptors!CloseWindow
  <2>3. CASE task' = [task EXCEPT ![f].pc = "replace", ![f].from = <<>>,
                                  ![f].acc = Descriptors!DedupeLast(acc)]
    <3>1. task' = [task EXCEPT ![f] = y]
      BY <1>4, <2>3 DEF CatalogInv
    <3>2. Working(x) /\ (clean => Owned(x))
      BY <1>4 DEF CatalogInv
    <3> HIDE DEF x
    <3>3. Placed(acc) /\ (clean => Among(acc, serving))
      <4>1. x.from \in Seq(Capsules) /\ \A k \in DOMAIN x.from : x.from[k] \in Capsules
        BY <3>2 DEF Working
      <4>2. Placed(acc)
        BY <4>1, AnswersArePlaced
      <4>3. clean => Among(acc, serving)
        BY <3>2, <4>1, AnswersArePlaced DEF Owned
      <4> QED
        BY <4>2, <4>3
    <3> HIDE DEF acc
    <3>4. Placed(Descriptors!DedupeLast(acc)) /\ (clean => Among(Descriptors!DedupeLast(acc), serving))
      <4>1. Among(acc, {acc[p].from : p \in DOMAIN acc})
        BY DEF Among
      <4> QED
        BY <3>3, <4>1, DedupedIsPlaced
    <3>5. /\ DOMAIN y = DOMAIN x /\ y.pc = "replace" /\ y.from = <<>>
          /\ y.acc = Descriptors!DedupeLast(acc)
      BY <3>2 DEF Working
    <3> HIDE DEF y
    <3>6. Working(y) /\ (clean => Owned(y))
      BY <3>2, <3>4, <3>5 DEF Working, Owned
    <3> QED
      BY <1>1, <1>4, <2>2, <3>1, <3>6
  <2> QED
    BY <1>3, <1>4, <2>1, <2>2, <2>3
<1>8. CASE Descriptors!CollectToolDescriptors
  <2> DEFINE w == Descriptors!Collector
             x == task[w]
  <2>1. PICK c \in serving : task' = [task EXCEPT ![w].acc = Descriptors!ParseDescribe(<<c>>),
                                                 ![w].pc = "merge"]
    BY <1>8 DEF Descriptors!CollectToolDescriptors
  <2> DEFINE acc == Descriptors!ParseDescribe(<<c>>)
             y == [x EXCEPT !.acc = acc, !.pc = "merge"]
  <2>2. w \in Descriptors!Tasks /\ w # Descriptors!Loader
    BY DEF Descriptors!Tasks, Descriptors!Collector, Descriptors!Loader
  <2>3. task' = [task EXCEPT ![w] = y] /\ UNCHANGED <<serving, signal, cache, clean>>
    BY <1>8, <2>1, <2>2 DEF Descriptors!CollectToolDescriptors, CatalogInv
  <2>4. Working(x) /\ (clean => Owned(x))
    BY <2>2 DEF CatalogInv
  <2>5. Placed(acc) /\ Among(acc, serving)
    <3>1. <<c>> \in Seq(Capsules) /\ \A k \in DOMAIN <<c>> : <<c>>[k] \in serving
      BY DEF CatalogInv
    <3> QED
      BY <3>1, AnswersArePlaced
  <2> HIDE DEF x, acc
  <2>6. DOMAIN y = DOMAIN x /\ y.pc = "merge" /\ y.from = x.from /\ y.acc = acc
    BY <2>4 DEF Working
  <2> HIDE DEF y
  <2>7. Working(y) /\ (clean => Owned(y))
    BY <2>4, <2>5, <2>6 DEF Working, Owned
  <2> QED
    BY <1>1, <2>2, <2>3, <2>7
<1>9. ASSUME NEW t \in Descriptors!Tasks, Descriptors!ReplaceRead(t) \/ Descriptors!MergeRead(t)
      PROVE  CatalogInv'
  <2> DEFINE x == task[t]
  <2>1. PICK pc \in {"replaceCas", "mergeCas"} :
           task' = [task EXCEPT ![t].pc = pc, ![t].read = cache]
    BY <1>9 DEF Descriptors!ReplaceRead, Descriptors!MergeRead
  <2> DEFINE y == [x EXCEPT !.pc = pc, !.read = cache]
  <2>2. task' = [task EXCEPT ![t] = y] /\ UNCHANGED <<serving, signal, cache, clean>>
    BY <1>9, <2>1 DEF Descriptors!ReplaceRead, Descriptors!MergeRead, CatalogInv
  <2>3. DOMAIN y = DOMAIN x /\ y.acc = x.acc /\ y.from = x.from /\ y.pc # "idle"
    BY <2>1 DEF CatalogInv, Working
  <2> HIDE DEF y
  <2> QED
    BY <1>2, <2>2, <2>3
<1>10. ASSUME NEW t \in Descriptors!Tasks, Descriptors!ReplaceCas(t)
       PROVE  CatalogInv'
  <2> DEFINE x == task[t]
  <2>1. Working(x) /\ (clean => Owned(x)) /\ UNCHANGED <<serving, signal>>
    BY <1>10 DEF CatalogInv, Descriptors!ReplaceCas
  <2>2. CASE cache = x.read
    <3>1. /\ cache' = [tools |-> Descriptors!Fill(x.acc), at |-> now]
          /\ task' = [task EXCEPT ![t] = Descriptors!Rest]
          /\ clean' = (clean \/ (t = Descriptors!Loader /\ Descriptors!IdleBut(t) /\ signal = <<>>))
      BY <1>10, <2>2 DEF Descriptors!ReplaceCas, Descriptors!Finish
    <3>2. /\ DOMAIN task' = Descriptors!Tasks /\ task'[t] = Descriptors!Rest
          /\ \A o \in Descriptors!Tasks \ {t} : task'[o] = task[o]
      BY <3>1 DEF CatalogInv
    <3>3. \A o \in Descriptors!Tasks : Working(task[o])'
      <4>1. \A o \in Descriptors!Tasks : Working(task'[o])
        BY <3>2, RestIsIdle DEF CatalogInv
      <4> QED
        BY <4>1, WorkingLater
    <3>4. signal = <<>> => Among(task'[Descriptors!Loader].acc, serving)
      <4>1. Descriptors!Loader \in Descriptors!Tasks
        BY DEF Descriptors!Tasks
      <4> QED
        BY <3>2, <4>1, RestIsIdle DEF CatalogInv, Owned
    <3>5. ASSUME clean'
          PROVE  /\ signal = <<>> /\ Among(x.acc, serving)
                 /\ \A o \in Descriptors!Tasks \ {t} : Owned(task[o])
      <4>1. CASE clean
        BY <4>1 DEF CatalogInv, Owned
      <4>2. CASE t = Descriptors!Loader /\ Descriptors!IdleBut(t) /\ signal = <<>>
        <5>1. ASSUME NEW o \in Descriptors!Tasks \ {t}
              PROVE  Owned(task[o])
          <6>1. task[o].pc = "idle" /\ Working(task[o])
            BY <4>2, <5>1 DEF Descriptors!IdleBut, CatalogInv
          <6> QED
            BY <6>1 DEF Working, Owned, Among
        <5> QED
          BY <4>2, <5>1 DEF CatalogInv
      <4> QED
        BY <3>1, <3>5, <4>1, <4>2
    <3>6. ASSUME clean'
          PROVE  /\ \A n \in DOMAIN cache'.tools : cache'.tools[n] \in serving
                 /\ \A o \in Descriptors!Tasks : Owned(task'[o])
      <4>1. \A n \in DOMAIN Descriptors!Fill(x.acc) : Descriptors!Fill(x.acc)[n] \in serving
        BY <2>1, <3>5, <3>6, FilledIsOwned DEF Working
      <4>2. \A o \in Descriptors!Tasks : Owned(task'[o])
        BY <3>2, <3>5, <3>6, RestIsIdle
      <4> QED
        BY <3>1, <4>1, <4>2
    <3>7. (\A o \in Descriptors!Tasks : Owned(task'[o])) => \A o \in Descriptors!Tasks : Owned(task[o])'
      BY <2>1 DEF Owned, Among
    <3> QED
      BY <2>1, <3>2, <3>3, <3>4, <3>5, <3>6, <3>7 DEF CatalogInv, Among
  <2>3. CASE cache # x.read
    <3> DEFINE y == [x EXCEPT !.pc = "merge", !.read = Descriptors!Empty]
    <3>1. task' = [task EXCEPT ![t] = y] /\ UNCHANGED <<serving, signal, cache, clean>>
      BY <1>10, <2>3 DEF Descriptors!ReplaceCas, CatalogInv
    <3>2. DOMAIN y = DOMAIN x /\ y.acc = x.acc /\ y.from = x.from /\ y.pc # "idle"
      BY <2>1 DEF Working
    <3> HIDE DEF y
    <3> QED
      BY <1>2, <3>1, <3>2
  <2> QED
    BY <2>2, <2>3
<1>11. ASSUME NEW t \in Descriptors!Tasks, Descriptors!MergeCas(t)
       PROVE  CatalogInv'
  <2> DEFINE x == task[t]
  <2>1. Working(x) /\ (clean => Owned(x)) /\ UNCHANGED <<serving, signal, clean>>
    BY <1>11 DEF CatalogInv, Descriptors!MergeCas
  <2>2. CASE cache = x.read
    <3>1. /\ cache' = [tools |-> Descriptors!Merge(cache.tools, x.acc), at |-> now]
          /\ task' = [task EXCEPT ![t] = Descriptors!Rest]
      BY <1>11, <2>2 DEF Descriptors!MergeCas, Descriptors!Finish
    <3>2. /\ DOMAIN task' = Descriptors!Tasks /\ task'[t] = Descriptors!Rest
          /\ \A o \in Descriptors!Tasks \ {t} : task'[o] = task[o]
      BY <3>1 DEF CatalogInv
    <3> DEFINE merged == Descriptors!Merge(cache.tools, x.acc)
    <3>3. ASSUME clean
          PROVE  \A n \in DOMAIN merged : merged[n] \in serving
      <4>1. Placed(x.acc) /\ Among(x.acc, serving)
        BY <2>1, <3>3 DEF Working, Owned
      <4>2. \A n \in DOMAIN cache.tools : cache.tools[n] \in serving
        BY <3>3 DEF CatalogInv
      <4> QED
        BY <4>1, <4>2, MergedIsOwned
    <3>4. cache'.tools = merged
      BY <3>1
    <3> HIDE DEF merged
    <3> QED
      BY <2>1, <3>2, <3>3, <3>4, RestIsIdle, WriterMoves DEF Owned
  <2>3. CASE cache # x.read
    <3> DEFINE y == [x EXCEPT !.pc = "merge", !.read = Descriptors!Empty, !.tries = @ + 1]
    <3>1. \/ task' = [task EXCEPT ![t] = Descriptors!Rest]
          \/ task' = [task EXCEPT ![t] = y]
      BY <1>11, <2>3 DEF Descriptors!MergeCas, Descriptors!Finish, CatalogInv
    <3>2. UNCHANGED cache
      BY <1>11, <2>3 DEF Descriptors!MergeCas
    <3>3. DOMAIN y = DOMAIN x /\ y.acc = x.acc /\ y.from = x.from /\ y.pc # "idle"
      BY <2>1 DEF Working
    <3> HIDE DEF y
    <3> QED
      BY <1>2, <1>3, <2>1, <3>1, <3>2, <3>3
  <2> QED
    BY <2>2, <2>3
<1>12. ASSUME NEW t \in Descriptors!Tasks, Descriptors!CasFails(t)
       PROVE  CatalogInv'
  BY <1>3, <1>12 DEF Descriptors!CasFails, Descriptors!Finish
<1>13. CASE Descriptors!CapsulesChange
  BY <1>13 DEF Descriptors!CapsulesChange, CatalogInv, Working, Placed
<1>14. CASE Descriptors!OnCapsulesLoaded
  <2> DEFINE w == Descriptors!Loader
             x == task[w]
  <2>1. /\ signal # <<>> /\ signal = <<serving>> /\ ~clean
        /\ x.pc = "idle" /\ Working(x) /\ signal' = <<>> /\ UNCHANGED serving
        /\ w \in Descriptors!Tasks
    BY <1>14 DEF Descriptors!OnCapsulesLoaded, CatalogInv, Descriptors!Tasks
  <2>2. Head(signal) = serving
    BY <2>1
  <2>3. CASE Head(signal) \subseteq Baked
    <3>1. PICK order \in Descriptors!SetToSeqs(serving) :
             task' = [task EXCEPT ![w].pc = "replace", ![w].acc = Descriptors!StaticTools(order)]
      BY <1>14, <2>2, <2>3 DEF Descriptors!OnCapsulesLoaded
    <3> DEFINE acc == Descriptors!StaticTools(order)
               y == [x EXCEPT !.pc = "replace", !.acc = acc]
               read == [c \in Capsules |-> DOMAIN ToolOffers[c]]
    <3>2. task' = [task EXCEPT ![w] = y] /\ UNCHANGED <<cache, clean>>
      BY <1>14, <2>3, <3>1 DEF Descriptors!OnCapsulesLoaded, CatalogInv
    <3>3. Placed(acc) /\ Among(acc, serving)
      <4>1. Descriptors!Cardinality(serving) \in Nat
        <5>1. IsFiniteSet(serving)
          BY FS_Subset DEF CatalogInv, Catalogued
        <5>2. Cardinality(serving) \in Nat
          BY <5>1, FS_CardinalityType
        <5> QED
          BY <5>2 DEF Cardinality, Descriptors!Cardinality
      <4>2. DOMAIN order = 1..Descriptors!Cardinality(serving) /\ \A k \in DOMAIN order : order[k] \in serving
        BY DEF Descriptors!SetToSeqs
      <4>3. \A c \in Capsules : read[c] \subseteq DOMAIN ToolOffers[c]
        OBVIOUS
      <4>4. acc = Descriptors!Listing(order, read)
        BY DEF Descriptors!StaticTools
      <4> HIDE DEF acc, read
      <4> QED
        BY <4>1, <4>2, <4>3, <4>4, ListingIsPlaced DEF CatalogInv
    <3> HIDE DEF acc
    <3>4. DOMAIN y = DOMAIN x /\ y.pc = "replace" /\ y.from = x.from /\ y.acc = acc
      BY <2>1 DEF Working
    <3> HIDE DEF y
    <3>5. Working(y)
      BY <2>1, <3>3, <3>4 DEF Working
    <3>6. /\ DOMAIN task' = Descriptors!Tasks /\ task'[w] = y
          /\ \A o \in Descriptors!Tasks \ {w} : task'[o] = task[o]
      BY <2>1, <3>2 DEF CatalogInv
    <3>7. \A o \in Descriptors!Tasks : Working(task[o])'
      <4>1. \A o \in Descriptors!Tasks : Working(task'[o])
        BY <3>5, <3>6 DEF CatalogInv
      <4> QED
        BY <4>1, WorkingLater
    <3> QED
      BY <2>1, <3>2, <3>3, <3>4, <3>6, <3>7 DEF CatalogInv, Among
  <2>4. CASE ~(Head(signal) \subseteq Baked)
    <3>1. UNCHANGED task /\ \/ cache' = Descriptors!Empty /\ clean' = Descriptors!IdleBut(w)
                            \/ UNCHANGED <<cache, clean>>
      BY <1>14, <2>4 DEF Descriptors!OnCapsulesLoaded
    <3>2. Among(x.acc, serving)
      BY <2>1 DEF Working, Among
    <3>3. ASSUME clean'
          PROVE  /\ \A n \in DOMAIN cache'.tools : cache'.tools[n] \in serving
                 /\ \A o \in Descriptors!Tasks : Owned(task[o])
      <4>1. cache' = Descriptors!Empty /\ Descriptors!IdleBut(w)
        BY <2>1, <3>1, <3>3
      <4>2. DOMAIN cache'.tools = {}
        BY <4>1 DEF Descriptors!Empty
      <4>3. ASSUME NEW o \in Descriptors!Tasks
            PROVE  Owned(task[o])
        <5>1. task[o].pc = "idle" /\ Working(task[o])
          BY <2>1, <4>1, <4>3 DEF Descriptors!IdleBut, CatalogInv
        <5> QED
          BY <5>1 DEF Working, Owned, Among
      <4> QED
        BY <4>2, <4>3
    <3>4. \A o \in Descriptors!Tasks : Working(task[o])'
      <4>1. \A o \in Descriptors!Tasks : Working(task'[o])
        BY <3>1 DEF CatalogInv
      <4> QED
        BY <4>1, WorkingLater
    <3> QED
      BY <2>1, <3>1, <3>2, <3>3, <3>4 DEF CatalogInv, Among, Owned
  <2> QED
    BY <2>3, <2>4
<1>15. CASE Descriptors!Tick
  BY <1>15 DEF Descriptors!Tick, CatalogInv, Working, Placed, Among, Owned
<1>16. CASE UNCHANGED Descriptors!vars
  BY <1>16 DEF Descriptors!vars, CatalogInv, Working, Placed, Among, Owned
<1> QED
  BY <1>5, <1>6, <1>7, <1>8, <1>9, <1>10, <1>11, <1>12, <1>13, <1>14, <1>15, <1>16
     DEF Descriptors!Next

\* Once a change of the capsule set was absorbed with no writer in flight, no
\* fan-out, merge or race lists a tool of a departed capsule.
THEOREM CatalogFollowsTheCapsules ==
    Catalogued => (Descriptors!Spec => []Descriptors!DepartedToolsStayGone)
<1> SUFFICES ASSUME Catalogued
             PROVE  Descriptors!Spec => []Descriptors!DepartedToolsStayGone
  OBVIOUS
<1>1. CatalogInv => Descriptors!DepartedToolsStayGone
  BY DEF CatalogInv, Descriptors!DepartedToolsStayGone, Descriptors!Range
<1> QED
  BY <1>1, CatalogFirst, CatalogInvKept, PTL DEF Descriptors!Spec

-----------------------------------------------------------------------------
(* ToolCatalog: types and limits *)

\* Finite sets of names: what the cap of the cache counts.
LEMMA ImageIsFinite ==
    ASSUME NEW S, IsFiniteSet(S), NEW f
    PROVE  IsFiniteSet({f[x] : x \in S})
<1> DEFINE T == {f[x] : x \in S}
           g == [x \in S |-> f[x]]
<1>1. g \in Surjection(S, T)
  <2>1. g \in [S -> T] /\ \A t \in T : \E x \in S : g[x] = t
    OBVIOUS
  <2> HIDE DEF T, g
  <2> QED
    BY <2>1 DEF Surjection
<1> HIDE DEF T, g
<1>2. IsFiniteSet(T)
  BY <1>1, FS_Surjection
<1> QED
  BY <1>2 DEF T

LEMMA CountsAsUsual == \A S : Descriptors!Cardinality(S) = Cardinality(S)
  BY DEF Cardinality, Descriptors!Cardinality

CountedPlaces(acc) == IsFiniteSet(DOMAIN acc) /\ DOMAIN acc \subseteq Nat \X Nat
Capped(tools) == /\ IsFiniteSet(DOMAIN tools)
                 /\ Descriptors!Cardinality(DOMAIN tools) <= Cap
                 /\ \A n \in DOMAIN tools : tools[n] \in Capsules

CacheInv ==
    /\ now \in Nat /\ cache.at \in 0..now
    /\ Capped(cache.tools)
    /\ \A t \in Descriptors!Tasks : /\ CountedPlaces(task[t].acc)
                                    /\ task[t].tries \in 0..(Retries - 1)

\* What the theorem supposes of the two limits.
Limited == Cap \in Nat /\ Retries \in Nat \ {0}

LEMMA ListingIsCounted ==
    ASSUME Catalogued, NEW n \in Nat, NEW cs, DOMAIN cs = 1..n,
           \A k \in 1..n : cs[k] \in Capsules,
           NEW read, \A c \in Capsules : read[c] \subseteq DOMAIN ToolOffers[c]
    PROVE  CountedPlaces(Descriptors!Listing(cs, read))
<1> DEFINE block == [k \in 1..n |-> {k} \X read[cs[k]]]
           acc == Descriptors!Listing(cs, read)
<1>1. ASSUME NEW k \in 1..n
      PROVE  IsFiniteSet(block[k]) /\ block[k] \subseteq Nat \X Nat
  <2> DEFINE len == Len(ToolOffers[cs[k]])
  <2>1. cs[k] \in Capsules /\ len \in Nat /\ DOMAIN ToolOffers[cs[k]] = 1..len
    BY DEF Catalogued
  <2>2. read[cs[k]] \subseteq 1..len
    BY <2>1
  <2> HIDE DEF len
  <2>3. IsFiniteSet(1..len)
    BY <2>1, FS_Interval
  <2>4. IsFiniteSet(read[cs[k]])
    BY <2>2, <2>3, FS_Subset
  <2>5. IsFiniteSet({k} \X read[cs[k]])
    BY <2>4, FS_Singleton, FS_Product
  <2>6. {k} \X read[cs[k]] \subseteq Nat \X Nat
    BY <2>1, <2>2
  <2> QED
    BY <2>5, <2>6
<1>2. DOMAIN acc = UNION {block[k] : k \in 1..n}
  BY DEF Descriptors!Listing
<1> HIDE DEF acc, block
<1>3. IsFiniteSet({block[k] : k \in 1..n})
  <2> DEFINE S == 1..n
  <2>1. IsFiniteSet(S)
    BY FS_Interval
  <2> HIDE DEF S
  <2>2. IsFiniteSet({block[k] : k \in S})
    BY <2>1, ImageIsFinite
  <2> QED
    BY <2>2 DEF S
<1>4. IsFiniteSet(UNION {block[k] : k \in 1..n})
  <2> DEFINE blocks == {block[k] : k \in 1..n}
  <2>1. \A T \in blocks : IsFiniteSet(T)
    BY <1>1
  <2> HIDE DEF blocks
  <2>2. IsFiniteSet(blocks)
    BY <1>3 DEF blocks
  <2>3. IsFiniteSet(UNION blocks)
    BY <2>1, <2>2, FS_UNION
  <2> QED
    BY <2>3 DEF blocks
<1>5. DOMAIN acc \subseteq Nat \X Nat
  BY <1>1, <1>2
<1> QED
  BY <1>2, <1>4, <1>5 DEF CountedPlaces, acc

\* Of some places, one is the last.
LEMMA PlacesHaveALast ==
    ASSUME Catalogued, NEW acc, Placed(acc), NEW P, P \subseteq DOMAIN acc, P # {}
    PROVE  \E last \in P : \A q \in P : ~Descriptors!Before(last, q)
<1> DEFINE K == {p[1] : p \in P}
<1>2. PICK k \in K : \A other \in K : other <= k
  <2>1. PICK m \in Nat : \A p \in DOMAIN acc : p[1] \in 1..m
    BY DEF Placed
  <2>2. K \subseteq 1..m /\ K # {}
    BY <2>1
  <2> HIDE DEF K
  <2> QED
    BY <2>1, <2>2, LastPosition
<1>3. PICK first \in P : first[1] = k
  OBVIOUS
<1> DEFINE J == {p[2] : p \in {p \in P : p[1] = k}}
<1>4. PICK j \in J : \A other \in J : other <= j
  <2>1. J \subseteq 1..Len(ToolOffers[acc[first].from]) /\ J # {}
    BY <1>3 DEF Placed
  <2>2. Len(ToolOffers[acc[first].from]) \in Nat
    BY <1>3 DEF Placed, Catalogued
  <2> HIDE DEF J
  <2> QED
    BY <2>1, <2>2, LastPosition
<1>5. PICK last \in P : last[1] = k /\ last[2] = j
  OBVIOUS
<1>6. ASSUME NEW q \in P, Descriptors!Before(last, q)
      PROVE  FALSE
  <2>1. q[1] \in K /\ q[1] <= k
    BY <1>2
  <2>2. k \in Nat /\ q[1] \in Nat
    BY <1>3 DEF Placed
  <2>3. q[1] = k /\ j < q[2]
    BY <1>5, <1>6, <2>1, <2>2 DEF Descriptors!Before
  <2>4. q[2] <= j
    BY <1>4, <2>3
  <2>5. q[2] \in Nat /\ j \in Nat
    BY <1>5, <2>3 DEF Placed
  <2> QED
    BY <2>3, <2>4, <2>5
<1> QED
  BY <1>6

\* The names that come while there is room fit under the cap.
LEMMA NamesFit ==
    ASSUME Catalogued, Limited, NEW acc, Placed(acc), CountedPlaces(acc),
           NEW there, IsFiniteSet(there), Descriptors!Cardinality(there) <= Cap
    PROVE  LET in == {p \in DOMAIN acc :
                        Descriptors!Cardinality(there \cup Descriptors!Ahead(acc, p)) < Cap}
               kept == there \cup {acc[p].name : p \in in}
           IN  IsFiniteSet(kept) /\ Descriptors!Cardinality(kept) <= Cap
<1> DEFINE in == {p \in DOMAIN acc :
                    Descriptors!Cardinality(there \cup Descriptors!Ahead(acc, p)) < Cap}
           name == [p \in DOMAIN acc |-> acc[p].name]
           kept == there \cup {acc[p].name : p \in in}
<1>1. CASE in = {}
  <2>1. kept = there
    BY <1>1
  <2> QED
    BY <2>1
<1>2. CASE in # {}
  <2>1. PICK last \in in : \A q \in in : ~Descriptors!Before(last, q)
    <3>1. in \subseteq DOMAIN acc
      OBVIOUS
    <3> HIDE DEF in
    <3> QED
      BY <1>2, <3>1, PlacesHaveALast
  <2> DEFINE ahead == there \cup Descriptors!Ahead(acc, last)
  <2>2. IsFiniteSet(ahead)
    <3> DEFINE before == {q \in DOMAIN acc : Descriptors!Before(q, last)}
    <3>1. IsFiniteSet(before)
      BY FS_Subset DEF CountedPlaces
    <3>2. Descriptors!Ahead(acc, last) = {name[q] : q \in before}
      BY DEF Descriptors!Ahead
    <3> HIDE DEF before, name
    <3>3. IsFiniteSet({name[q] : q \in before})
      BY <3>1, ImageIsFinite
    <3> QED
      BY <3>2, <3>3, FS_Union
  <2>3. Cardinality(ahead) < Cap /\ Cardinality(ahead) \in Nat
    <3>1. Descriptors!Cardinality(ahead) < Cap
      BY <2>1
    <3> HIDE DEF ahead
    <3> QED
      BY <2>2, <3>1, CountsAsUsual, FS_CardinalityType
  <2>4. ASSUME NEW q \in in
        PROVE  acc[q].name \in ahead \cup {acc[last].name}
    <3>1. q \in Nat \X Nat /\ last \in Nat \X Nat
      BY DEF CountedPlaces
    <3>2. CASE q = last
      BY <3>2
    <3>3. CASE q # last
      <4>1. q[1] # last[1] \/ q[2] # last[2]
        BY <3>1, <3>3
      <4>2. Descriptors!Before(q, last)
        BY <2>1, <3>1, <4>1 DEF Descriptors!Before
      <4> QED
        BY <4>2 DEF Descriptors!Ahead
    <3> QED
      BY <3>2, <3>3
  <2> DEFINE most == ahead \cup {acc[last].name}
  <2>5. kept \subseteq most
    BY <2>4
  <2> HIDE DEF ahead, kept
  <2>6. IsFiniteSet(most) /\ Cardinality(most) <= Cardinality(ahead) + 1 /\ Cardinality(most) \in Nat
    <3>1. IsFiniteSet(most) /\ Cardinality(most) = IF acc[last].name \in ahead
                                                   THEN Cardinality(ahead) ELSE Cardinality(ahead) + 1
      BY <2>2, FS_AddElement
    <3> HIDE DEF most
    <3> QED
      BY <2>3, <3>1
  <2> HIDE DEF most
  <2>7. IsFiniteSet(kept) /\ Cardinality(kept) <= Cardinality(most) /\ Cardinality(kept) \in Nat
    BY <2>5, <2>6, FS_Subset, FS_CardinalityType
  <2>8. Cardinality(kept) <= Cap
    BY <2>3, <2>6, <2>7 DEF Limited
  <2>9. IsFiniteSet(kept) /\ Descriptors!Cardinality(kept) <= Cap
    BY <2>7, <2>8, CountsAsUsual
  <2> QED
    BY <2>9 DEF kept
<1> QED
  BY <1>1, <1>2

LEMMA FilledIsCapped ==
    ASSUME Catalogued, Limited, NEW acc, Placed(acc), CountedPlaces(acc)
    PROVE  Capped(Descriptors!Fill(acc))
<1> DEFINE S == {p \in DOMAIN acc : Descriptors!Cardinality(Descriptors!Ahead(acc, p)) < Cap}
           part == Descriptors!Restrict(acc, S)
           names == {acc[p].name : p \in S}
<1>1. IsFiniteSet(names) /\ Descriptors!Cardinality(names) <= Cap
  <2>1. IsFiniteSet({}) /\ Descriptors!Cardinality({}) <= Cap
    BY FS_EmptySet, CountsAsUsual DEF Limited
  <2>2. \A p \in DOMAIN acc : {} \cup Descriptors!Ahead(acc, p) = Descriptors!Ahead(acc, p)
    OBVIOUS
  <2>3. S = {p \in DOMAIN acc : Descriptors!Cardinality({} \cup Descriptors!Ahead(acc, p)) < Cap}
    BY <2>2
  <2>4. names = {} \cup {acc[p].name : p \in {p \in DOMAIN acc :
                    Descriptors!Cardinality({} \cup Descriptors!Ahead(acc, p)) < Cap}}
    <3> HIDE DEF S
    <3> QED
      BY <2>3
  <2> HIDE DEF names
  <2> QED
    BY <2>1, <2>4, NamesFit
<1>2. DOMAIN Descriptors!Fill(acc) = names
  BY DEF Descriptors!Fill, Descriptors!ByName, Descriptors!Names, Descriptors!Restrict
<1>3. Among(acc, Capsules)
  BY DEF Among, Placed
<1> HIDE DEF names
<1> QED
  BY <1>1, <1>2, <1>3, FilledIsOwned DEF Capped

LEMMA MergedIsCapped ==
    ASSUME Catalogued, Limited, NEW acc, Placed(acc), CountedPlaces(acc), NEW tools, Capped(tools)
    PROVE  Capped(Descriptors!Merge(tools, acc))
<1>1. /\ IsFiniteSet(Descriptors!Kept(tools, acc))
      /\ Descriptors!Cardinality(Descriptors!Kept(tools, acc)) <= Cap
  BY NamesFit DEF Capped, Descriptors!Kept
<1>2. DOMAIN Descriptors!Merge(tools, acc) = Descriptors!Kept(tools, acc)
  BY DEF Descriptors!Merge
<1>3. Among(acc, Capsules)
  BY DEF Among, Placed
<1>4. \A n \in DOMAIN Descriptors!Merge(tools, acc) : Descriptors!Merge(tools, acc)[n] \in Capsules
  BY <1>3, MergedIsOwned DEF Capped
<1> QED
  BY <1>1, <1>2, <1>4 DEF Capped

LEMMA CountedLater ==
    ASSUME NEW o, CountedPlaces(task'[o].acc), task'[o].tries \in 0..(Retries - 1)
    PROVE  (CountedPlaces(task[o].acc) /\ task[o].tries \in 0..(Retries - 1))'
  BY DEF CountedPlaces

LEMMA RestIsCounted ==
    ASSUME Limited
    PROVE  CountedPlaces(Descriptors!Rest.acc) /\ Descriptors!Rest.tries \in 0..(Retries - 1)
<1>1. Descriptors!Rest.acc = <<>> /\ DOMAIN <<>> = {} /\ Descriptors!Rest.tries = 0
  BY DEF Descriptors!Rest
<1> QED
  BY <1>1, FS_EmptySet DEF Limited, CountedPlaces

LEMMA CacheInvKept ==
    ASSUME Catalogued, Limited, CatalogInv, CacheInv, [Descriptors!Next]_Descriptors!vars
    PROVE  CacheInv'
\* A handler moves on, with a list that is finite.
<1>1. ASSUME NEW t \in Descriptors!Tasks, NEW y, task' = [task EXCEPT ![t] = y],
             CountedPlaces(y.acc), y.tries \in 0..(Retries - 1), UNCHANGED now,
             cache' = cache \/ (Capped(cache'.tools) /\ cache'.at = now)
      PROVE  CacheInv'
  <2>1. /\ task'[t] = y
        /\ \A o \in Descriptors!Tasks \ {t} : task'[o] = task[o]
    BY <1>1 DEF CatalogInv
  <2>2. \A o \in Descriptors!Tasks : CountedPlaces(task'[o].acc) /\ task'[o].tries \in 0..(Retries - 1)
    BY <1>1, <2>1 DEF CacheInv
  <2>3. \A o \in Descriptors!Tasks : (CountedPlaces(task[o].acc) /\ task[o].tries \in 0..(Retries - 1))'
    BY <2>2, CountedLater
  <2>4. Capped(cache'.tools) /\ cache'.at \in 0..now
    BY <1>1 DEF CacheInv
  <2>5. Capped(cache.tools)'
    BY <2>4 DEF Capped
  <2> QED
    BY <1>1, <2>3, <2>4, <2>5 DEF CacheInv
<1>2. ASSUME NEW t \in Descriptors!Tasks
      PROVE  /\ Working(task[t]) /\ CountedPlaces(task[t].acc)
             /\ task[t].tries \in 0..(Retries - 1)
  BY DEF CatalogInv, CacheInv
<1>3. ASSUME NEW t \in Descriptors!Tasks, Descriptors!Finish(t), UNCHANGED now,
             cache' = cache \/ (Capped(cache'.tools) /\ cache'.at = now)
      PROVE  CacheInv'
  BY <1>1, <1>3, RestIsCounted DEF Descriptors!Finish
\* A handler moves on with the list it has.
<1>4. ASSUME NEW t \in Descriptors!Tasks, NEW y, task' = [task EXCEPT ![t] = y],
             y.acc = task[t].acc, y.tries = task[t].tries, UNCHANGED <<now, cache>>
      PROVE  CacheInv'
  BY <1>1, <1>2, <1>4
<1>5. \A f \in Fanouts : f \in Descriptors!Tasks
  BY DEF Descriptors!Tasks
<1>6. ASSUME NEW f \in Fanouts, Descriptors!CollectSnapshot(f)
      PROVE  CacheInv'
  <2> DEFINE y == [task[f] EXCEPT !.pc = "drain"]
  <2>1. task' = [task EXCEPT ![f] = y] /\ UNCHANGED <<now, cache>>
    BY <1>6 DEF Descriptors!CollectSnapshot, Descriptors!Goto
  <2>2. y.acc = task[f].acc /\ y.tries = task[f].tries
    BY <1>2, <1>5 DEF Working
  <2> HIDE DEF y
  <2> QED
    BY <1>4, <1>5, <2>1, <2>2
<1>7. ASSUME NEW f \in Fanouts, Descriptors!DrainReply(f)
      PROVE  CacheInv'
  <2>1. PICK c \in serving : task' = [task EXCEPT ![f].from = Append(@, c)]
    BY <1>7 DEF Descriptors!DrainReply
  <2> DEFINE y == [task[f] EXCEPT !.from = Append(@, c)]
  <2>2. task' = [task EXCEPT ![f] = y] /\ UNCHANGED <<now, cache>>
    BY <1>7, <2>1 DEF Descriptors!DrainReply
  <2>3. y.acc = task[f].acc /\ y.tries = task[f].tries
    BY <1>2, <1>5 DEF Working
  <2> HIDE DEF y
  <2> QED
    BY <1>4, <1>5, <2>2, <2>3
<1>8. ASSUME NEW f \in Fanouts, Descriptors!CloseWindow(f)
      PROVE  CacheInv'
  <2> DEFINE x == task[f]
             acc == Descriptors!ParseDescribe(x.from)
             y == [x EXCEPT !.pc = "replace", !.from = <<>>, !.acc = Descriptors!DedupeLast(acc)]
  <2>1. UNCHANGED <<now, cache>>
    BY <1>8 DEF Descriptors!CloseWindow
  <2>2. CASE DOMAIN acc = {}
    BY <1>3, <1>5, <1>8, <2>1, <2>2 DEF Descriptors!CloseWindow
  <2>3. CASE DOMAIN acc # {}
    <3>1. task' = [task EXCEPT ![f] = y]
      BY <1>5, <1>8, <2>3 DEF Descriptors!CloseWindow, CatalogInv
    <3>2. Working(x) /\ x.tries \in 0..(Retries - 1)
      BY <1>2, <1>5
    <3> HIDE DEF x
    <3>3. CountedPlaces(acc) /\ Placed(acc)
      <4> DEFINE read == [c \in Capsules |->
                            {i \in DOMAIN ToolOffers[c] : i <= PerReply /\ ToolOffers[c][i].valid}]
      <4>1. \A c \in Capsules : read[c] \subseteq DOMAIN ToolOffers[c]
        OBVIOUS
      <4>2. acc = Descriptors!Listing(x.from, read)
        BY DEF Descriptors!ParseDescribe
      <4>3. /\ Len(x.from) \in Nat /\ DOMAIN x.from = 1..Len(x.from)
            /\ \A k \in 1..Len(x.from) : x.from[k] \in Capsules
        BY <3>2 DEF Working
      <4> HIDE DEF acc, read
      <4> QED
        BY <4>1, <4>2, <4>3, ListingIsCounted, ListingIsPlaced
    <3> HIDE DEF acc
    <3>4. CountedPlaces(Descriptors!DedupeLast(acc))
      <4> DEFINE S == {Descriptors!LastOf(acc, n) : n \in Descriptors!Names(acc)}
      <4>1. S \subseteq DOMAIN acc
        BY <3>3, NamesHaveALast
      <4>2. DOMAIN Descriptors!DedupeLast(acc) = S
        BY DEF Descriptors!DedupeLast, Descriptors!Restrict
      <4> HIDE DEF S
      <4> QED
        BY <3>3, <4>1, <4>2, FS_Subset DEF CountedPlaces
    <3>5. y.acc = Descriptors!DedupeLast(acc) /\ y.tries = x.tries
      BY <3>2 DEF Working
    <3> HIDE DEF y
    <3> QED
      BY <1>1, <1>5, <2>1, <3>1, <3>2, <3>4, <3>5
  <2> QED
    BY <2>2, <2>3
<1>9. CASE Descriptors!CollectToolDescriptors
  <2> DEFINE w == Descriptors!Collector
             x == task[w]
  <2>1. PICK c \in serving : task' = [task EXCEPT ![w].acc = Descriptors!ParseDescribe(<<c>>),
                                                 ![w].pc = "merge"]
    BY <1>9 DEF Descriptors!CollectToolDescriptors
  <2> DEFINE acc == Descriptors!ParseDescribe(<<c>>)
             y == [x EXCEPT !.acc = acc, !.pc = "merge"]
  <2>2. w \in Descriptors!Tasks
    BY DEF Descriptors!Tasks
  <2>3. task' = [task EXCEPT ![w] = y] /\ UNCHANGED <<now, cache>>
    BY <1>9, <2>1, <2>2 DEF Descriptors!CollectToolDescriptors, CatalogInv
  <2>4. Working(x) /\ x.tries \in 0..(Retries - 1)
    BY <1>2, <2>2
  <2>5. CountedPlaces(acc)
    <3> DEFINE read == [e \in Capsules |->
                          {i \in DOMAIN ToolOffers[e] : i <= PerReply /\ ToolOffers[e][i].valid}]
               cs == <<c>>
    <3>1. \A e \in Capsules : read[e] \subseteq DOMAIN ToolOffers[e]
      OBVIOUS
    <3>2. acc = Descriptors!Listing(cs, read)
      BY DEF Descriptors!ParseDescribe
    <3>3. DOMAIN cs = 1..1 /\ \A k \in 1..1 : cs[k] \in Capsules
      BY DEF CatalogInv
    <3> HIDE DEF acc, read, cs
    <3> QED
      BY <3>1, <3>2, <3>3, ListingIsCounted
  <2> HIDE DEF x, acc
  <2>6. y.acc = acc /\ y.tries = x.tries
    BY <2>4 DEF Working
  <2> HIDE DEF y
  <2> QED
    BY <1>1, <2>2, <2>3, <2>4, <2>5, <2>6
<1>10. ASSUME NEW t \in Descriptors!Tasks, Descriptors!ReplaceRead(t) \/ Descriptors!MergeRead(t)
       PROVE  CacheInv'
  <2>1. PICK pc \in {"replaceCas", "mergeCas"} :
           task' = [task EXCEPT ![t].pc = pc, ![t].read = cache]
    BY <1>10 DEF Descriptors!ReplaceRead, Descriptors!MergeRead
  <2> DEFINE y == [task[t] EXCEPT !.pc = pc, !.read = cache]
  <2>2. task' = [task EXCEPT ![t] = y] /\ UNCHANGED <<now, cache>>
    BY <1>10, <2>1 DEF Descriptors!ReplaceRead, Descriptors!MergeRead, CatalogInv
  <2>3. y.acc = task[t].acc /\ y.tries = task[t].tries
    BY <1>2 DEF Working
  <2> HIDE DEF y
  <2> QED
    BY <1>4, <2>2, <2>3
<1>11. ASSUME NEW t \in Descriptors!Tasks, Descriptors!ReplaceCas(t)
       PROVE  CacheInv'
  <2>1. Working(task[t]) /\ CountedPlaces(task[t].acc) /\ UNCHANGED now
    BY <1>2, <1>11 DEF Descriptors!ReplaceCas
  <2>2. CASE cache = task[t].read
    <3>1. cache' = [tools |-> Descriptors!Fill(task[t].acc), at |-> now] /\ Descriptors!Finish(t)
      BY <1>11, <2>2 DEF Descriptors!ReplaceCas
    <3>2. Capped(Descriptors!Fill(task[t].acc))
      BY <2>1, FilledIsCapped DEF Working
    <3>3. Capped(cache'.tools) /\ cache'.at = now
      BY <3>1, <3>2
    <3> QED
      BY <1>3, <2>1, <3>1, <3>3
  <2>3. CASE cache # task[t].read
    <3> DEFINE y == [task[t] EXCEPT !.pc = "merge", !.read = Descriptors!Empty]
    <3>1. task' = [task EXCEPT ![t] = y] /\ UNCHANGED <<now, cache>>
      BY <1>11, <2>3 DEF Descriptors!ReplaceCas, CatalogInv
    <3>2. y.acc = task[t].acc /\ y.tries = task[t].tries
      BY <1>2 DEF Working
    <3> HIDE DEF y
    <3> QED
      BY <1>4, <3>1, <3>2
  <2> QED
    BY <2>2, <2>3
<1>12. ASSUME NEW t \in Descriptors!Tasks, Descriptors!MergeCas(t)
       PROVE  CacheInv'
  <2>1. /\ Working(task[t]) /\ CountedPlaces(task[t].acc) /\ UNCHANGED now
        /\ task[t].tries \in 0..(Retries - 1)
    BY <1>2, <1>12 DEF Descriptors!MergeCas
  <2>2. CASE cache = task[t].read
    <3>1. /\ cache' = [tools |-> Descriptors!Merge(cache.tools, task[t].acc), at |-> now]
          /\ Descriptors!Finish(t)
      BY <1>12, <2>2 DEF Descriptors!MergeCas
    <3>2. Capped(Descriptors!Merge(cache.tools, task[t].acc))
      BY <2>1, MergedIsCapped DEF Working, CacheInv
    <3>3. Capped(cache'.tools) /\ cache'.at = now
      BY <3>1, <3>2
    <3> QED
      BY <1>3, <2>1, <3>1, <3>3
  <2>3. CASE cache # task[t].read
    <3> DEFINE y == [task[t] EXCEPT !.pc = "merge", !.read = Descriptors!Empty, !.tries = @ + 1]
    <3>1. UNCHANGED <<now, cache>>
      BY <1>12, <2>3 DEF Descriptors!MergeCas
    <3>2. \/ Descriptors!Finish(t)
          \/ task[t].tries + 1 < Retries /\ task' = [task EXCEPT ![t] = y]
      BY <1>12, <2>3 DEF Descriptors!MergeCas, CatalogInv
    <3>3. CASE task[t].tries + 1 < Retries /\ task' = [task EXCEPT ![t] = y]
      <4>1. y.acc = task[t].acc /\ y.tries = task[t].tries + 1
        BY <2>1 DEF Working
      <4> HIDE DEF y
      <4>2. y.tries \in 0..(Retries - 1)
        BY <2>1, <3>3, <4>1 DEF Limited
      <4> QED
        BY <1>1, <2>1, <3>1, <3>3, <4>1, <4>2
    <3> QED
      BY <1>3, <3>1, <3>2, <3>3
  <2> QED
    BY <2>2, <2>3
<1>13. ASSUME NEW t \in Descriptors!Tasks, Descriptors!CasFails(t)
       PROVE  CacheInv'
  BY <1>3, <1>13 DEF Descriptors!CasFails
<1>14. CASE Descriptors!OnCapsulesLoaded
  <2> DEFINE w == Descriptors!Loader
             x == task[w]
  <2>1. signal = <<serving>> /\ w \in Descriptors!Tasks /\ UNCHANGED now /\ Head(signal) = serving
    BY <1>14 DEF Descriptors!OnCapsulesLoaded, CatalogInv, Descriptors!Tasks
  <2>2. CASE Head(signal) \subseteq Baked
    <3>1. PICK order \in Descriptors!SetToSeqs(serving) :
             task' = [task EXCEPT ![w].pc = "replace", ![w].acc = Descriptors!StaticTools(order)]
      BY <1>14, <2>1, <2>2 DEF Descriptors!OnCapsulesLoaded
    <3> DEFINE acc == Descriptors!StaticTools(order)
               y == [x EXCEPT !.pc = "replace", !.acc = acc]
               read == [c \in Capsules |-> DOMAIN ToolOffers[c]]
    <3>2. task' = [task EXCEPT ![w] = y] /\ UNCHANGED cache
      BY <1>14, <2>2, <3>1 DEF Descriptors!OnCapsulesLoaded, CatalogInv
    <3>3. CountedPlaces(acc)
      <4>1. Descriptors!Cardinality(serving) \in Nat
        BY CountsAsUsual, FS_Subset, FS_CardinalityType DEF CatalogInv, Catalogued
      <4>2. DOMAIN order = 1..Descriptors!Cardinality(serving) /\ \A k \in DOMAIN order : order[k] \in serving
        BY DEF Descriptors!SetToSeqs
      <4>3. \A c \in Capsules : read[c] \subseteq DOMAIN ToolOffers[c]
        OBVIOUS
      <4>4. acc = Descriptors!Listing(order, read)
        BY DEF Descriptors!StaticTools
      <4> HIDE DEF acc, read
      <4> QED
        BY <4>1, <4>2, <4>3, <4>4, ListingIsCounted DEF CatalogInv
    <3> HIDE DEF acc
    <3>4. y.acc = acc /\ y.tries = x.tries
      BY <1>2, <2>1 DEF Working
    <3>5. x.tries \in 0..(Retries - 1)
      BY <1>2, <2>1
    <3> HIDE DEF y, x
    <3> QED
      BY <1>1, <2>1, <3>2, <3>3, <3>4, <3>5
  <2>3. CASE ~(Head(signal) \subseteq Baked)
    <3>1. UNCHANGED task /\ (cache' = Descriptors!Empty \/ UNCHANGED cache)
      BY <1>14, <2>3 DEF Descriptors!OnCapsulesLoaded
    <3>2. Capped(Descriptors!Empty.tools) /\ Descriptors!Empty.at = 0
      <4>1. Descriptors!Empty.tools = <<>> /\ DOMAIN <<>> = {} /\ Descriptors!Empty.at = 0
        BY DEF Descriptors!Empty
      <4> QED
        BY <4>1, FS_EmptySet, CountsAsUsual DEF Capped, Limited
    <3>3. Capped(cache'.tools) /\ cache'.at \in 0..now
      BY <3>1, <3>2 DEF CacheInv
    <3> QED
      BY <2>1, <3>1, <3>3 DEF CacheInv, Capped, CountedPlaces
  <2> QED
    BY <2>2, <2>3
<1>15. CASE Descriptors!CapsulesChange
  BY <1>15 DEF Descriptors!CapsulesChange, CacheInv, Capped, CountedPlaces
<1>16. CASE Descriptors!Tick
  <2>1. now \in Nat /\ now' = now + 1 /\ UNCHANGED <<cache, task>>
    BY <1>16 DEF Descriptors!Tick, CacheInv
  <2>2. cache.at \in 0..(now + 1)
    BY <2>1 DEF CacheInv
  <2> QED
    BY <2>1, <2>2 DEF CacheInv, Capped, CountedPlaces
<1>17. CASE UNCHANGED Descriptors!vars
  BY <1>17 DEF Descriptors!vars, CacheInv, Capped, CountedPlaces
<1> QED
  BY <1>6, <1>7, <1>8, <1>9, <1>10, <1>11, <1>12, <1>13, <1>14, <1>15, <1>16, <1>17
     DEF Descriptors!Next

\* The descriptor cache never holds more tools than its cap, is never stamped ahead
\* of the clock, and no writer tries a CAS more often than it may (cache.rs:70-201).
THEOREM CacheIsTyped ==
    ASSUME Catalogued, Limited
    PROVE  Descriptors!Spec => []Descriptors!TypeOK
<1>1. Descriptors!Init => CatalogInv /\ CacheInv
  <2>1. /\ Descriptors!Empty.tools = <<>> /\ DOMAIN <<>> = {} /\ Descriptors!Empty.at = 0
    BY DEF Descriptors!Empty
  <2>2. Capped(Descriptors!Empty.tools)
    BY <2>1, FS_EmptySet, CountsAsUsual DEF Capped, Limited
  <2> QED
    BY <2>1, <2>2, CatalogFirst, RestIsCounted DEF Descriptors!Init, CacheInv
<1>2. CatalogInv /\ CacheInv /\ [Descriptors!Next]_Descriptors!vars => (CatalogInv /\ CacheInv)'
  BY CatalogInvKept, CacheInvKept
<1>3. CatalogInv /\ CacheInv => Descriptors!TypeOK
  <2> SUFFICES ASSUME CatalogInv, CacheInv
               PROVE  Descriptors!TypeOK
    OBVIOUS
  <2>1. Len(signal) <= 1
    BY DEF CatalogInv
  <2>2. Descriptors!Range(cache.tools) \subseteq Capsules
    BY DEF CacheInv, Capped, Descriptors!Range
  <2>3. \A t \in Descriptors!Tasks : task[t].tries < Retries
    BY DEF CacheInv, Limited
  <2> QED
    BY <2>1, <2>2, <2>3 DEF Descriptors!TypeOK, CatalogInv, CacheInv, Capped
<1> QED
  BY <1>1, <1>2, <1>3, PTL DEF Descriptors!Spec

-----------------------------------------------------------------------------
(* PolicyGlob: two pointers find what a pattern means *)

Letters == Chars \cup {Run, AnyOne}
Takes(x, y, i, j) == x[i] = AnyOne \/ x[i] = y[j]

\* The pattern from its i-th character on can stand for the text from its j-th on.
Suffix(x, y, i, j) ==
    \E at \in [i..(Len(x) + 1) -> 1..(Len(y) + 1)] :
       /\ at[i] = j /\ at[Len(x) + 1] = Len(y) + 1
       /\ \A k \in i..Len(x) : Glob!StandsFor(x, y, at, k)

LEMMA SuffixOfAll ==
    ASSUME NEW x, NEW y
    PROVE  Glob!Means(x, y) <=> Suffix(x, y, 1, 1)
  BY DEF Glob!Means, Suffix

LEMMA SuffixAtEnd ==
    ASSUME NEW x \in Seq(Letters), NEW y \in Seq(Letters), NEW j \in 1..(Len(y) + 1)
    PROVE  Suffix(x, y, Len(x) + 1, j) <=> j = Len(y) + 1
<1> DEFINE n == Len(x)
<1>1. n \in Nat
  OBVIOUS
<1>2. Suffix(x, y, n + 1, j) => j = Len(y) + 1
  BY DEF Suffix
<1>3. ASSUME j = Len(y) + 1
      PROVE  Suffix(x, y, n + 1, j)
  <2> DEFINE at == [k \in (n + 1)..(n + 1) |-> j]
  <2>1. at \in [(n + 1)..(n + 1) -> 1..(Len(y) + 1)] /\ at[n + 1] = j
    BY <1>1
  <2>2. (n + 1)..n = {}
    BY <1>1
  <2> HIDE DEF at
  <2> QED
    BY <1>3, <2>1, <2>2 DEF Suffix
<1> QED
  BY <1>2, <1>3

\* One character of the pattern.
LEMMA SuffixStep ==
    ASSUME NEW x \in Seq(Letters), NEW y \in Seq(Letters),
           NEW i \in 1..Len(x), NEW j \in 1..(Len(y) + 1)
    PROVE  Suffix(x, y, i, j)
              <=> \E k \in 1..(Len(y) + 1) :
                     /\ IF x[i] = Run THEN j <= k ELSE k = j + 1 /\ Takes(x, y, i, j)
                     /\ Suffix(x, y, i + 1, k)
<1> DEFINE n == Len(x)
           T == 1..(Len(y) + 1)
           One(k) == IF x[i] = Run THEN j <= k ELSE k = j + 1 /\ Takes(x, y, i, j)
<1>1. n \in Nat /\ i + 1 \in 1..(n + 1)
  OBVIOUS
<1>2. ASSUME Suffix(x, y, i, j)
      PROVE  \E k \in T : One(k) /\ Suffix(x, y, i + 1, k)
  <2>1. PICK at \in [i..(n + 1) -> T] :
            /\ at[i] = j /\ at[n + 1] = Len(y) + 1
            /\ \A k \in i..n : Glob!StandsFor(x, y, at, k)
    BY <1>2 DEF Suffix
  <2> DEFINE rest == [k \in (i + 1)..(n + 1) |-> at[k]]
  <2>2. /\ rest \in [(i + 1)..(n + 1) -> T]
        /\ rest[i + 1] = at[i + 1] /\ rest[n + 1] = at[n + 1]
        /\ at[i + 1] \in T
        /\ \A k \in (i + 1)..n : rest[k] = at[k] /\ rest[k + 1] = at[k + 1]
    BY <1>1
  <2>3. \A k \in (i + 1)..n : k \in i..n
    BY <1>1
  <2>4. \A k \in (i + 1)..n : Glob!StandsFor(x, y, rest, k)
    <3> HIDE DEF rest
    <3> QED
      BY <2>1, <2>2, <2>3 DEF Glob!StandsFor
  <2>5. Suffix(x, y, i + 1, at[i + 1])
    <3> HIDE DEF rest
    <3> QED
      BY <2>1, <2>2, <2>4 DEF Suffix
  <2>6. One(at[i + 1])
    BY <2>1 DEF Glob!StandsFor, Takes
  <2> QED
    BY <2>2, <2>5, <2>6
<1>3. ASSUME NEW k \in T, One(k), Suffix(x, y, i + 1, k)
      PROVE  Suffix(x, y, i, j)
  <2>1. PICK rest \in [(i + 1)..(n + 1) -> T] :
            /\ rest[i + 1] = k /\ rest[n + 1] = Len(y) + 1
            /\ \A m \in (i + 1)..n : Glob!StandsFor(x, y, rest, m)
    BY <1>3 DEF Suffix
  <2> DEFINE at == [m \in i..(n + 1) |-> IF m = i THEN j ELSE rest[m]]
  <2>2. /\ at \in [i..(n + 1) -> T]
        /\ at[i] = j /\ at[i + 1] = k /\ at[n + 1] = rest[n + 1]
        /\ \A m \in (i + 1)..n : at[m] = rest[m] /\ at[m + 1] = rest[m + 1]
    BY <1>1, <2>1
  <2> HIDE DEF at
  <2>3. \A m \in (i + 1)..n : Glob!StandsFor(x, y, at, m)
    BY <2>1, <2>2 DEF Glob!StandsFor
  <2>4. Glob!StandsFor(x, y, at, i)
    BY <1>3, <2>2 DEF Glob!StandsFor, Takes
  <2>5. \A m \in i..n : m = i \/ m \in (i + 1)..n
    BY <1>1
  <2>6. \A m \in i..n : Glob!StandsFor(x, y, at, m)
    BY <2>3, <2>4, <2>5
  <2> QED
    BY <2>1, <2>2, <2>6 DEF Suffix
<1> QED
  BY <1>2, <1>3

LEMMA SuffixOfRun ==
    ASSUME NEW x \in Seq(Letters), NEW y \in Seq(Letters),
           NEW i \in 1..Len(x), NEW j \in 1..(Len(y) + 1), x[i] = Run
    PROVE  Suffix(x, y, i, j) <=> \E k \in j..(Len(y) + 1) : Suffix(x, y, i + 1, k)
  BY SuffixStep

LEMMA SuffixOfChar ==
    ASSUME NEW x \in Seq(Letters), NEW y \in Seq(Letters),
           NEW i \in 1..Len(x), NEW j \in 1..(Len(y) + 1), x[i] # Run
    PROVE  Suffix(x, y, i, j)
              <=> j <= Len(y) /\ Takes(x, y, i, j) /\ Suffix(x, y, i + 1, j + 1)
  BY SuffixStep

\* Between two runs a pattern moves through the text in step.
LEMMA BlockForward ==
    ASSUME NEW x \in Seq(Letters), NEW y \in Seq(Letters),
           NEW s \in 1..(Len(x) + 1), NEW q \in s..(Len(x) + 1),
           NEW k \in 1..(Len(y) + 1),
           \A m \in s..(q - 1) : x[m] # Run,
           Suffix(x, y, s, k)
    PROVE  k + (q - s) \in 1..(Len(y) + 1) /\ Suffix(x, y, q, k + (q - s))
<1> DEFINE Good(m) == k + (m - s) \in 1..(Len(y) + 1) /\ Suffix(x, y, m, k + (m - s))
           K == {m \in s..q : ~Good(m)}
<1>0. Len(x) \in Nat /\ Len(y) \in Nat
  OBVIOUS
<1>1. CASE K = {}
  <2>1. q \in s..q
    BY <1>0
  <2> QED
    BY <1>1, <2>1
<1>2. CASE K # {}
  <2>1. K \subseteq Nat
    BY <1>0
  <2>2. PICK m \in K : \A other \in K : m <= other
    <3> HIDE DEF K
    <3> QED
      BY <1>2, <2>1, FirstPosition
  <2>3. m \in s..q /\ ~Good(m)
    OBVIOUS
  <2>4. m # s
    <3>1. k + (s - s) = k
      BY <1>0
    <3> QED
      BY <2>3, <3>1
  <2>5. /\ m - 1 \in s..(q - 1) /\ m - 1 \in 1..Len(x) /\ (m - 1) + 1 = m
        /\ m - 1 \in s..q /\ ~(m <= m - 1)
    BY <1>0, <2>3, <2>4
  <2>6. Good(m - 1)
    BY <2>2, <2>5
  <2>7. k + (m - s) = (k + ((m - 1) - s)) + 1
    BY <1>0, <2>3
  <2>8. /\ k + ((m - 1) - s) <= Len(y)
        /\ Suffix(x, y, m, k + (m - s))
    <3>1. x[m - 1] # Run
      BY <2>5
    <3>2. k + ((m - 1) - s) \in 1..(Len(y) + 1) /\ Suffix(x, y, m - 1, k + ((m - 1) - s))
      BY <2>6
    <3> HIDE DEF K, Good
    <3> QED
      BY <2>5, <2>7, <3>1, <3>2, SuffixOfChar
  <2>9. k + (m - s) \in 1..(Len(y) + 1)
    BY <1>0, <2>3, <2>6, <2>7, <2>8
  <2> QED
    BY <2>3, <2>8, <2>9
<1> QED
  BY <1>1, <1>2

\* And back: a block that fits the text takes its place in front of what follows.
LEMMA BlockBack ==
    ASSUME NEW x \in Seq(Letters), NEW y \in Seq(Letters),
           NEW s \in 1..(Len(x) + 1), NEW q \in s..(Len(x) + 1),
           NEW r \in 1..(Len(y) + 1), r + (q - s) <= Len(y) + 1,
           \A m \in s..(q - 1) : x[m] # Run /\ Takes(x, y, m, r + (m - s)),
           Suffix(x, y, q, r + (q - s))
    PROVE  Suffix(x, y, s, r)
<1> DEFINE Good(m) == Suffix(x, y, m, r + (m - s))
           K == {m \in s..q : ~Good(m)}
<1>0. Len(x) \in Nat /\ Len(y) \in Nat
  OBVIOUS
<1>1. CASE K = {}
  <2>1. s \in s..q /\ r + (s - s) = r
    BY <1>0
  <2> QED
    BY <1>1, <2>1
<1>2. CASE K # {}
  <2>1. K \subseteq 1..q /\ q \in Nat
    BY <1>0
  <2>2. PICK m \in K : \A other \in K : other <= m
    <3> HIDE DEF K
    <3> QED
      BY <1>2, <2>1, LastPosition
  <2>3. m \in s..q /\ ~Good(m)
    OBVIOUS
  <2>4. m # q
    BY <2>3
  <2>5. /\ m \in s..(q - 1) /\ m \in 1..Len(x) /\ m + 1 \in s..q
        /\ r + (m - s) \in 1..Len(y) /\ r + ((m + 1) - s) = (r + (m - s)) + 1
    BY <1>0, <2>3, <2>4
  <2>6. Good(m + 1)
    BY <2>2, <2>5
  <2>7. Suffix(x, y, m + 1, (r + (m - s)) + 1)
    BY <2>5, <2>6
  <2>8. x[m] # Run /\ Takes(x, y, m, r + (m - s))
    BY <2>5
  <2>9. r + (m - s) \in 1..(Len(y) + 1) /\ r + (m - s) <= Len(y)
    BY <1>0, <2>5
  <2>10. Good(m)
    <3> HIDE DEF K
    <3> QED
      BY <2>5, <2>7, <2>8, <2>9, SuffixOfChar
  <2> QED
    BY <2>3, <2>10
<1> QED
  BY <1>1, <1>2

\* What is left when the text is used up has to be runs.
LEMMA SuffixOfRuns ==
    ASSUME NEW x \in Seq(Letters), NEW y \in Seq(Letters), NEW q \in 1..(Len(x) + 1)
    PROVE  Suffix(x, y, q, Len(y) + 1) <=> \A m \in q..Len(x) : x[m] = Run
<1> DEFINE e == Len(y) + 1
           n == Len(x)
           K == {m \in q..(n + 1) : ~Suffix(x, y, m, e)}
<1>0. n \in Nat /\ Len(y) \in Nat /\ e \in 1..e /\ ~(e <= Len(y))
  OBVIOUS
<1>1. Suffix(x, y, n + 1, e)
  BY <1>0, SuffixAtEnd
<1>2. ASSUME NEW m \in q..n, x[m] = Run
      PROVE  Suffix(x, y, m, e) <=> Suffix(x, y, m + 1, e)
  <2>1. m \in 1..n /\ e..e = {e}
    BY <1>0
  <2> QED
    BY <1>0, <1>2, <2>1, SuffixOfRun
<1>3. ASSUME \A m \in q..n : x[m] = Run, ~Suffix(x, y, q, e)
      PROVE  FALSE
  <2>1. K \subseteq 1..(n + 1) /\ n + 1 \in Nat /\ q \in K
    BY <1>0, <1>3
  <2>2. PICK m \in K : \A other \in K : other <= m
    <3> HIDE DEF K
    <3> QED
      BY <2>1, LastPosition
  <2>3. m \in q..n /\ m + 1 \in q..(n + 1) /\ ~(m + 1 <= m)
    BY <1>0, <1>1
  <2>4. Suffix(x, y, m + 1, e)
    BY <2>2, <2>3
  <2> QED
    BY <1>2, <1>3, <2>3, <2>4
<1>4. ASSUME Suffix(x, y, q, e), NEW i \in q..n, x[i] # Run
      PROVE  FALSE
  <2>1. ~Suffix(x, y, i, e)
    <3>1. i \in 1..n /\ e \in 1..(Len(y) + 1)
      BY <1>0
    <3> QED
      BY <1>0, <1>4, <3>1, SuffixOfChar
  <2>2. K \subseteq Nat /\ i \in K
    BY <1>0, <2>1
  <2>3. PICK m \in K : \A other \in K : m <= other
    <3> HIDE DEF K
    <3> QED
      BY <2>2, FirstPosition
  <2>4. m \in q..(n + 1) /\ m <= i /\ ~Suffix(x, y, m, e) /\ m # q
    BY <1>4, <2>2, <2>3
  <2>5. m - 1 \in q..n /\ m - 1 \in 1..n /\ (m - 1) + 1 = m /\ ~(m <= m - 1)
    BY <1>0, <2>4
  <2>6. Suffix(x, y, m - 1, e)
    BY <2>3, <2>5
  <2>7. x[m - 1] = Run
    <3>1. e \in 1..(Len(y) + 1)
      BY <1>0
    <3> HIDE DEF K
    <3> QED
      BY <1>0, <2>5, <2>6, <3>1, SuffixOfChar
  <2> QED
    BY <1>2, <2>4, <2>5, <2>6, <2>7
<1> QED
  BY <1>3, <1>4

\* How the two pointers and the place to go back to stand to each other, and what
\* is known of the pattern there; positions are counted from 0, as in the loop.
Standing(x, y, i, j, s, r) ==
    /\ x \in Seq(Letters) /\ y \in Seq(Letters)
    /\ i \in 0..Len(x) /\ j \in 0..Len(y) /\ s \in 0..i /\ r \in 0..j
    /\ i - s = j - r
Known(x, y, i, j, s, r) ==
    IF s = 0
    THEN r = 0 /\ (Glob!Means(x, y) <=> Suffix(x, y, i + 1, j + 1))
    ELSE /\ \A m \in (s + 1)..i : x[m] # Run /\ Takes(x, y, m, r + (m - s))
         /\ Glob!Means(x, y) <=> \E k \in (r + 1)..(Len(y) + 1) : Suffix(x, y, s + 1, k)
Unruly(y) == \A m \in 1..Len(y) : y[m] # Run

\* What the block says: the place gone back to matches if the pointers' does, and
\* a later place only as far behind the pointers.
LEMMA KnownBlock ==
    ASSUME NEW x, NEW y, NEW i, NEW j, NEW s, NEW r,
           Standing(x, y, i, j, s, r), Known(x, y, i, j, s, r), s # 0
    PROVE  /\ Suffix(x, y, i + 1, j + 1) => Suffix(x, y, s + 1, r + 1)
           /\ \A k \in (r + 1)..(Len(y) + 1) : Suffix(x, y, s + 1, k) =>
                 k + (i - s) \in (j + 1)..(Len(y) + 1) /\ Suffix(x, y, i + 1, k + (i - s))
<1>1. /\ x \in Seq(Letters) /\ y \in Seq(Letters) /\ Len(x) \in Nat /\ Len(y) \in Nat
      /\ i \in 0..Len(x) /\ j \in 0..Len(y) /\ s \in 1..i /\ r \in 0..j /\ i - s = j - r
  BY DEF Standing
<1>2. \A m \in (s + 1)..i : x[m] # Run /\ Takes(x, y, m, r + (m - s))
  BY DEF Known
<1>3. /\ s + 1 \in 1..(Len(x) + 1) /\ i + 1 \in (s + 1)..(Len(x) + 1)
      /\ r + 1 \in 1..(Len(y) + 1) /\ (r + 1) + ((i + 1) - (s + 1)) = j + 1
      /\ j + 1 <= Len(y) + 1 /\ (i + 1) - 1 = i /\ (i + 1) - (s + 1) = i - s
  BY <1>1
<1>4. ASSUME Suffix(x, y, i + 1, j + 1)
      PROVE  Suffix(x, y, s + 1, r + 1)
  <2>1. \A m \in (s + 1)..i : x[m] # Run /\ Takes(x, y, m, (r + 1) + (m - (s + 1)))
    <3>1. \A m \in (s + 1)..i : (r + 1) + (m - (s + 1)) = r + (m - s)
      BY <1>1
    <3> QED
      BY <1>2, <3>1
  <2> QED
    BY <1>1, <1>3, <1>4, <2>1, BlockBack
<1>5. ASSUME NEW k \in (r + 1)..(Len(y) + 1), Suffix(x, y, s + 1, k)
      PROVE  k + (i - s) \in (j + 1)..(Len(y) + 1) /\ Suffix(x, y, i + 1, k + (i - s))
  <2>1. k \in 1..(Len(y) + 1)
    BY <1>1
  <2>2. k + (i - s) \in 1..(Len(y) + 1) /\ Suffix(x, y, i + 1, k + (i - s))
    BY <1>1, <1>2, <1>3, <1>5, <2>1, BlockForward
  <2> QED
    BY <1>1, <2>2
<1> QED
  BY <1>4, <1>5

LEMMA KnownAdvance ==
    ASSUME NEW x, NEW y, NEW i, NEW j, NEW s, NEW r, Run # AnyOne, Unruly(y),
           Standing(x, y, i, j, s, r), Known(x, y, i, j, s, r),
           i < Len(x), j < Len(y), Takes(x, y, i + 1, j + 1)
    PROVE  Known(x, y, i + 1, j + 1, s, r)
<1>1. /\ x \in Seq(Letters) /\ y \in Seq(Letters) /\ Len(x) \in Nat /\ Len(y) \in Nat
      /\ i \in 0..Len(x) /\ j \in 0..Len(y) /\ s \in 0..i /\ r \in 0..j /\ i - s = j - r
  BY DEF Standing
<1>2. i + 1 \in 1..Len(x) /\ j + 1 \in 1..Len(y) /\ j + 1 \in 1..(Len(y) + 1) /\ j + 1 <= Len(y)
  BY <1>1
<1>3. x[i + 1] # Run
  BY <1>2 DEF Takes, Unruly
<1>4. CASE s = 0
  BY <1>1, <1>2, <1>3, <1>4, SuffixOfChar DEF Known
<1>5. CASE s # 0
  <2>1. \A m \in (s + 1)..(i + 1) : m = i + 1 \/ m \in (s + 1)..i
    BY <1>1
  <2>2. r + ((i + 1) - s) = j + 1
    BY <1>1
  <2> QED
    BY <1>3, <1>5, <2>1, <2>2 DEF Known
<1> QED
  BY <1>4, <1>5

\* A further run makes every earlier place to go back to superfluous.
LEMMA KnownTakeRun ==
    ASSUME NEW x, NEW y, NEW i, NEW j, NEW s, NEW r,
           Standing(x, y, i, j, s, r), Known(x, y, i, j, s, r),
           i < Len(x), x[i + 1] = Run
    PROVE  Known(x, y, i + 1, j, i + 1, j)
<1> DEFINE e == Len(y) + 1
<1>1. /\ x \in Seq(Letters) /\ y \in Seq(Letters) /\ Len(x) \in Nat /\ Len(y) \in Nat
      /\ i \in 0..Len(x) /\ j \in 0..Len(y) /\ s \in 0..i /\ r \in 0..j /\ i - s = j - r
  BY DEF Standing
<1>2. i + 1 \in 1..Len(x) /\ j + 1 \in 1..e /\ i + 1 # 0 /\ ((i + 1) + 1)..(i + 1) = {}
  BY <1>1
<1>3. ASSUME NEW k \in 1..e
      PROVE  Suffix(x, y, i + 1, k) <=> \E m \in k..e : Suffix(x, y, (i + 1) + 1, m)
  BY <1>1, <1>2, SuffixOfRun
<1>4. Glob!Means(x, y) <=> \E k \in (j + 1)..e : Suffix(x, y, (i + 1) + 1, k)
  <2>1. CASE s = 0
    BY <1>2, <1>3, <2>1 DEF Known
  <2>2. CASE s # 0
    <3>1. Glob!Means(x, y) <=> \E k \in (r + 1)..e : Suffix(x, y, s + 1, k)
      BY <2>2 DEF Known
    <3>2. ASSUME NEW k \in (r + 1)..e, Suffix(x, y, s + 1, k)
          PROVE  \E m \in (j + 1)..e : Suffix(x, y, (i + 1) + 1, m)
      <4>1. k + (i - s) \in (j + 1)..e /\ Suffix(x, y, i + 1, k + (i - s))
        BY <2>2, <3>2, KnownBlock
      <4>2. PICK m \in (k + (i - s))..e : Suffix(x, y, (i + 1) + 1, m)
        BY <1>1, <1>3, <4>1
      <4>3. m \in (j + 1)..e
        BY <1>1, <4>1
      <4> QED
        BY <4>2, <4>3
    <3>3. ASSUME NEW m \in (j + 1)..e, Suffix(x, y, (i + 1) + 1, m)
          PROVE  \E k \in (r + 1)..e : Suffix(x, y, s + 1, k)
      <4>1. Suffix(x, y, i + 1, j + 1)
        BY <1>2, <1>3, <3>3
      <4>2. Suffix(x, y, s + 1, r + 1) /\ r + 1 \in (r + 1)..e
        BY <1>1, <2>2, <4>1, KnownBlock
      <4> QED
        BY <4>2
    <3> QED
      BY <3>1, <3>2, <3>3
  <2> QED
    BY <2>1, <2>2
<1> QED
  BY <1>2, <1>4 DEF Known

\* The pointers' own place does not match.
LEMMA Mismatch ==
    ASSUME NEW x, NEW y, NEW i, NEW j, NEW s, NEW r, Standing(x, y, i, j, s, r), j < Len(y),
           ~(i < Len(x) /\ Takes(x, y, i + 1, j + 1)), ~(i < Len(x) /\ x[i + 1] = Run)
    PROVE  ~Suffix(x, y, i + 1, j + 1)
<1>1. /\ x \in Seq(Letters) /\ y \in Seq(Letters) /\ Len(x) \in Nat /\ Len(y) \in Nat
      /\ i \in 0..Len(x) /\ j \in 0..Len(y)
  BY DEF Standing
<1>2. j + 1 \in 1..(Len(y) + 1) /\ j + 1 # Len(y) + 1
  BY <1>1
<1>3. CASE i < Len(x)
  <2>1. i + 1 \in 1..Len(x) /\ x[i + 1] # Run /\ ~Takes(x, y, i + 1, j + 1)
    BY <1>1, <1>3
  <2> QED
    BY <1>1, <1>2, <2>1, SuffixOfChar
<1>4. CASE ~(i < Len(x))
  <2>1. i + 1 = Len(x) + 1
    BY <1>1, <1>4
  <2> QED
    BY <1>1, <1>2, <2>1, SuffixAtEnd
<1> QED
  BY <1>3, <1>4

LEMMA KnownGoBack ==
    ASSUME NEW x, NEW y, NEW i, NEW j, NEW s, NEW r,
           Standing(x, y, i, j, s, r), Known(x, y, i, j, s, r), s # 0, j < Len(y),
           ~Suffix(x, y, i + 1, j + 1)
    PROVE  Known(x, y, s, r + 1, s, r + 1)
<1> DEFINE e == Len(y) + 1
<1>1. /\ x \in Seq(Letters) /\ y \in Seq(Letters) /\ Len(x) \in Nat /\ Len(y) \in Nat
      /\ i \in 0..Len(x) /\ j \in 0..Len(y) /\ s \in 0..i /\ r \in 0..j /\ i - s = j - r
  BY DEF Standing
<1>2. ASSUME Suffix(x, y, s + 1, r + 1)
      PROVE  FALSE
  <2>1. r + 1 \in (r + 1)..e /\ (r + 1) + (i - s) = j + 1
    BY <1>1
  <2> QED
    BY <1>2, <2>1, KnownBlock
<1>3. \A k : k \in (r + 1)..e <=> k = r + 1 \/ k \in ((r + 1) + 1)..e
  BY <1>1
<1>4. Glob!Means(x, y) <=> \E k \in (r + 1)..e : Suffix(x, y, s + 1, k)
  BY DEF Known
<1>5. Glob!Means(x, y) <=> \E k \in ((r + 1) + 1)..e : Suffix(x, y, s + 1, k)
  BY <1>2, <1>3, <1>4
<1>6. (s + 1)..s = {}
  BY <1>1
<1> QED
  BY <1>5, <1>6 DEF Known

LEMMA KnownFail ==
    ASSUME NEW x, NEW y, NEW i, NEW j, NEW r,
           Known(x, y, i, j, 0, r), ~Suffix(x, y, i + 1, j + 1)
    PROVE  ~Glob!Means(x, y)
  BY DEF Known

LEMMA KnownFinish ==
    ASSUME NEW x, NEW y, NEW i, NEW j, NEW s, NEW r,
           Standing(x, y, i, j, s, r), Known(x, y, i, j, s, r), j = Len(y)
    PROVE  Glob!Means(x, y) <=> \A m \in (i + 1)..Len(x) : x[m] = Run
<1>1. /\ x \in Seq(Letters) /\ y \in Seq(Letters) /\ Len(x) \in Nat /\ Len(y) \in Nat
      /\ i \in 0..Len(x) /\ s \in 0..i /\ r \in 0..j /\ i - s = j - r
      /\ i + 1 \in 1..(Len(x) + 1)
  BY DEF Standing
<1>2. Suffix(x, y, i + 1, j + 1) <=> \A m \in (i + 1)..Len(x) : x[m] = Run
  BY <1>1, SuffixOfRuns
<1>3. Glob!Means(x, y) <=> Suffix(x, y, i + 1, j + 1)
  <2>1. CASE s = 0
    BY <2>1 DEF Known
  <2>2. CASE s # 0
    <3>1. Glob!Means(x, y) <=> \E k \in (r + 1)..(Len(y) + 1) : Suffix(x, y, s + 1, k)
      BY <2>2 DEF Known
    <3>2. ASSUME NEW k \in (r + 1)..(Len(y) + 1), Suffix(x, y, s + 1, k)
          PROVE  Suffix(x, y, i + 1, j + 1)
      <4>1. k + (i - s) \in (j + 1)..(Len(y) + 1) /\ Suffix(x, y, i + 1, k + (i - s))
        BY <2>2, <3>2, KnownBlock
      <4>2. k + (i - s) = j + 1
        BY <1>1, <4>1
      <4> QED
        BY <4>1, <4>2
    <3>3. r + 1 \in (r + 1)..(Len(y) + 1)
      BY <1>1
    <3> QED
      BY <2>2, <3>1, <3>2, <3>3, KnownBlock
  <2> QED
    BY <2>1, <2>2
<1> QED
  BY <1>2, <1>3

\* The loop: the turns taken, and what is known while it runs and at its end.
GlobTurns ==
    /\ Standing(pat, txt, patAt, txtAt, star, resume)
    /\ verdict \in {"none", "yes", "no"}
    /\ turns \in Nat /\ turns <= resume * (Len(pat) + 1) + patAt
GlobKnows ==
    Glob!Plain =>
       IF verdict = "none" THEN Known(pat, txt, patAt, txtAt, star, resume)
       ELSE (verdict = "yes") <=> Glob!Means(pat, txt)

LEMMA TimesGrows ==
    ASSUME NEW a \in Nat, NEW b \in Nat, NEW c \in Nat, a <= b
    PROVE  a * c <= b * c /\ a * c \in Nat /\ b * c \in Nat /\ (a + 1) * c = a * c + c
  OBVIOUS

LEMMA GlobTurnsKept ==
    ASSUME GlobTurns, [Glob!Next]_Glob!vars
    PROVE  GlobTurns'
<1>1. PICK x : x = pat
  OBVIOUS
<1>2. PICK y : y = txt
  OBVIOUS
<1>3. /\ x \in Seq(Letters) /\ y \in Seq(Letters) /\ Len(x) \in Nat /\ Len(y) \in Nat
      /\ patAt \in 0..Len(x) /\ txtAt \in 0..Len(y) /\ star \in 0..patAt
      /\ resume \in 0..txtAt /\ patAt - star = txtAt - resume
      /\ verdict \in {"none", "yes", "no"}
      /\ turns \in Nat /\ turns <= resume * (Len(x) + 1) + patAt
  BY <1>1, <1>2 DEF GlobTurns, Standing
<1>4. SUFFICES /\ pat' = x /\ txt' = y
               /\ patAt' \in 0..Len(x) /\ txtAt' \in 0..Len(y) /\ star' \in 0..patAt'
               /\ resume' \in 0..txtAt' /\ patAt' - star' = txtAt' - resume'
               /\ verdict' \in {"none", "yes", "no"}
               /\ turns' \in Nat /\ turns' <= resume' * (Len(x) + 1) + patAt'
  BY <1>3 DEF GlobTurns, Standing
<1> DEFINE n == Len(x) + 1
<1>5. resume \in Nat /\ txtAt \in Nat /\ n \in Nat
  BY <1>3
<1>6. resume * n \in Nat /\ resume * n <= txtAt * n /\ txtAt * n \in Nat
      /\ (resume + 1) * n = resume * n + n
  BY <1>3, <1>5, TimesGrows
<1>7. CASE Glob!Advance
  BY <1>1, <1>2, <1>3, <1>6, <1>7 DEF Glob!Advance, Glob!Looping, Glob!SameOrAny,
     Glob!InPattern
<1>8. CASE Glob!TakeRun
  BY <1>1, <1>2, <1>3, <1>6, <1>8 DEF Glob!TakeRun, Glob!Looping, Glob!AtRun,
     Glob!InPattern
<1>9. CASE Glob!GoBack
  <2>1. /\ pat' = x /\ txt' = y /\ patAt' = star /\ star' = star /\ resume' = resume + 1
        /\ txtAt' = resume + 1 /\ turns' = turns + 1 /\ verdict' = verdict /\ txtAt < Len(y)
    BY <1>1, <1>2, <1>9 DEF Glob!GoBack, Glob!Looping
  <2>2. turns + 1 <= (resume * n + n) + star
    BY <1>3, <1>6
  <2> QED
    BY <1>3, <1>6, <2>1, <2>2
<1>10. CASE Glob!Fail \/ Glob!Finish \/ UNCHANGED Glob!vars
  BY <1>1, <1>2, <1>3, <1>10 DEF Glob!Fail, Glob!Finish, Glob!vars
<1> QED
  BY <1>7, <1>8, <1>9, <1>10 DEF Glob!Next

LEMMA GlobKnowsKept ==
    ASSUME Run # AnyOne, GlobTurns, GlobKnows, [Glob!Next]_Glob!vars
    PROVE  GlobKnows'
<1>1. PICK x : x = pat
  OBVIOUS
<1>2. PICK y : y = txt
  OBVIOUS
<1>3. PICK i : i = patAt
  OBVIOUS
<1>4. PICK j : j = txtAt
  OBVIOUS
<1>5. PICK s : s = star
  OBVIOUS
<1>6. PICK r : r = resume
  OBVIOUS
<1> USE <1>1, <1>2, <1>3, <1>4, <1>5, <1>6
<1>7. pat' = x /\ txt' = y
  BY DEF Glob!Next, Glob!Advance, Glob!TakeRun, Glob!GoBack, Glob!Fail, Glob!Finish,
     Glob!vars
<1>8. SUFFICES ASSUME Unruly(y)
               PROVE  IF verdict' = "none" THEN Known(x, y, patAt', txtAt', star', resume')
                      ELSE (verdict' = "yes") <=> Glob!Means(x, y)
  <2>1. Glob!Plain' => Unruly(y)
    BY <1>7 DEF Glob!Plain, Unruly
  <2>2. (IF verdict' = "none" THEN Known(x, y, patAt', txtAt', star', resume')
         ELSE (verdict' = "yes") <=> Glob!Means(x, y))
        => GlobKnows'
    BY <1>7 DEF GlobKnows
  <2> QED
    BY <2>1, <2>2 DEF GlobKnows
<1>9. /\ Standing(x, y, i, j, s, r)
      /\ verdict = "none" => Known(x, y, i, j, s, r)
      /\ verdict # "none" => ((verdict = "yes") <=> Glob!Means(x, y))
  <2>1. Standing(x, y, i, j, s, r)
    BY DEF GlobTurns
  <2>2. Glob!Plain
    BY <1>8 DEF Glob!Plain, Unruly
  <2>3. /\ verdict = "none" => Known(x, y, i, j, s, r)
        /\ verdict # "none" => ((verdict = "yes") <=> Glob!Means(x, y))
    BY <2>2 DEF GlobKnows
  <2> QED
    BY <2>1, <2>3
<1>10. CASE Glob!Advance
  <2>1. /\ i < Len(x) /\ j < Len(y) /\ Takes(x, y, i + 1, j + 1) /\ verdict = "none"
        /\ patAt' = i + 1 /\ txtAt' = j + 1 /\ star' = s /\ resume' = r /\ verdict' = verdict
    BY <1>10 DEF Glob!Advance, Glob!Looping, Glob!SameOrAny, Glob!InPattern, Takes
  <2> QED
    BY <1>8, <1>9, <2>1, KnownAdvance
<1>11. CASE Glob!TakeRun
  <2>1. /\ i < Len(x) /\ x[i + 1] = Run /\ verdict = "none"
        /\ patAt' = i + 1 /\ txtAt' = j /\ star' = i + 1 /\ resume' = j /\ verdict' = verdict
    BY <1>11 DEF Glob!TakeRun, Glob!Looping, Glob!AtRun, Glob!InPattern
  <2> QED
    BY <1>9, <2>1, KnownTakeRun
<1>12. ASSUME Glob!GoBack \/ Glob!Fail
       PROVE  ~Suffix(x, y, i + 1, j + 1) /\ Known(x, y, i, j, s, r)
  <2>1. /\ ~(i < Len(x) /\ Takes(x, y, i + 1, j + 1)) /\ ~(i < Len(x) /\ x[i + 1] = Run)
        /\ j < Len(y) /\ verdict = "none"
    BY <1>12 DEF Glob!GoBack, Glob!Fail, Glob!Looping, Glob!SameOrAny, Glob!AtRun,
       Glob!InPattern, Takes
  <2> QED
    BY <1>9, <2>1, Mismatch
<1>13. CASE Glob!GoBack
  <2>1. /\ s # 0 /\ j < Len(y) /\ verdict = "none"
        /\ patAt' = s /\ txtAt' = r + 1 /\ star' = s /\ resume' = r + 1 /\ verdict' = verdict
    BY <1>13 DEF Glob!GoBack, Glob!Looping
  <2> QED
    BY <1>9, <1>12, <1>13, <2>1, KnownGoBack
<1>14. CASE Glob!Fail
  <2>1. s = 0 /\ verdict' = "no"
    BY <1>14 DEF Glob!Fail
  <2> QED
    BY <1>12, <1>14, <2>1, KnownFail
<1>15. CASE Glob!Finish
  <2>1. /\ j = Len(y) /\ verdict = "none"
        /\ verdict' = IF \A m \in (i + 1)..Len(x) : x[m] = Run THEN "yes" ELSE "no"
    BY <1>15 DEF Glob!Finish
  <2>2. Glob!Means(x, y) <=> \A m \in (i + 1)..Len(x) : x[m] = Run
    BY <1>9, <2>1, KnownFinish
  <2> QED
    BY <2>1, <2>2
<1>16. CASE UNCHANGED Glob!vars
  BY <1>9, <1>16 DEF Glob!vars
<1> QED
  BY <1>10, <1>11, <1>13, <1>14, <1>15, <1>16 DEF Glob!Next

\* Patterns and texts of any length, over any characters: on a text that holds no
\* '*' itself, one place to go back to finds what the pattern means, in at most
\* pattern times text turns.
THEOREM GlobsMeanWhatTheySay ==
    Run # AnyOne /\ MaxPattern \in Nat /\ MaxText \in Nat
        => (Glob!Spec => []Glob!PlainTextsAreMatched)
<1> SUFFICES ASSUME Run # AnyOne, MaxPattern \in Nat, MaxText \in Nat
             PROVE  Glob!Spec => []Glob!PlainTextsAreMatched
  OBVIOUS
<1>1. Glob!Init => GlobTurns /\ GlobKnows
  <2> SUFFICES ASSUME Glob!Init
               PROVE  GlobTurns /\ GlobKnows
    OBVIOUS
  <2>1. /\ patAt = 0 /\ txtAt = 0 /\ star = 0 /\ resume = 0 /\ verdict = "none" /\ turns = 0
    BY DEF Glob!Init
  <2>2. pat \in Seq(Letters) /\ txt \in Seq(Letters)
    BY DEF Glob!Init, Glob!Strings, Letters
  <2>3. 0 * (Len(pat) + 1) = 0 /\ Len(pat) \in Nat /\ Len(txt) \in Nat
    BY <2>2
  <2>4. GlobTurns
    BY <2>1, <2>2, <2>3 DEF GlobTurns, Standing
  <2>5. GlobKnows
    BY <2>1, SuffixOfAll DEF GlobKnows, Known
  <2> QED
    BY <2>4, <2>5
<1>2. GlobTurns /\ GlobKnows /\ [Glob!Next]_Glob!vars => (GlobTurns /\ GlobKnows)'
  BY GlobTurnsKept, GlobKnowsKept
<1>3. GlobTurns /\ GlobKnows => Glob!PlainTextsAreMatched
  <2> SUFFICES ASSUME GlobTurns, GlobKnows
               PROVE  Glob!PlainTextsAreMatched
    OBVIOUS
  <2> DEFINE n == Len(pat) + 1
             e == Len(txt)
  <2>1. /\ n \in Nat /\ e \in Nat /\ resume \in Nat /\ resume <= e
        /\ patAt \in Nat /\ patAt <= n /\ turns \in Nat /\ turns <= resume * n + patAt
    BY DEF GlobTurns, Standing
  <2>2. resume * n <= e * n /\ (e + 1) * n = e * n + n /\ resume * n \in Nat /\ e * n \in Nat
    <3>1. e <= e
      BY <2>1
    <3> HIDE DEF n, e
    <3> QED
      BY <2>1, <3>1, TimesGrows
  <2>3. n * (e + 1) = (e + 1) * n
    BY <2>1
  <2>4. turns <= n * (e + 1)
    <3> HIDE DEF n, e
    <3> QED
      BY <2>1, <2>2, <2>3
  <2>5. Glob!Plain /\ verdict # "none" => ((verdict = "yes") <=> Glob!Means(pat, txt))
    BY DEF GlobKnows
  <2>6. Glob!Means(pat, txt) \in BOOLEAN
    BY DEF Glob!Means
  <2> QED
    BY <2>4, <2>5, <2>6 DEF Glob!PlainTextsAreMatched
<1> QED
  BY <1>1, <1>2, <1>3, PTL DEF Glob!Spec

-----------------------------------------------------------------------------
(* PolicyGlob: types *)

\* The pointers stay in their strings, wherever they went back to.
THEOREM GlobsAreTyped ==
    ASSUME MaxPattern \in Nat, MaxText \in Nat PROVE Glob!Spec => []Glob!TypeOK
<1>1. Glob!Init => GlobTurns
  <2> SUFFICES ASSUME Glob!Init
               PROVE  GlobTurns
    OBVIOUS
  <2>1. pat \in Seq(Letters) /\ txt \in Seq(Letters)
    BY DEF Glob!Init, Glob!Strings, Letters
  <2>2. 0 * (Len(pat) + 1) = 0 /\ Len(pat) \in Nat /\ Len(txt) \in Nat
    BY <2>1
  <2> QED
    BY <2>1, <2>2 DEF Glob!Init, GlobTurns, Standing
<1>2. GlobTurns => Glob!TypeOK
  BY DEF GlobTurns, Standing, Glob!TypeOK
<1> QED
  BY <1>1, <1>2, GlobTurnsKept, PTL DEF Glob!Spec

-----------------------------------------------------------------------------
(* UserDirectory: no lookup dangles *)

UserRecords == [name : Directory!DisplayNames, key : BOOLEAN]
LinkRecords == [user : Users, name : UserNames \cup {None}]

\* An absent value is no user, no stored user and no stored link.
NoneIsNothing == None \notin Users \cup UserRecords \cup LinkRecords

-----------------------------------------------------------------------------
(* UserDirectory: the inductive invariant *)

\* What a job holds, by what it is about to do.
JobOK ==
    /\ job = Directory!Job(job.step, job.u, job.n, job.at)
    /\ job.at \subseteq Links
    /\ job.step \in {"idle", "create", "unindex", "rename", "key", "index", "link",
                     "unlink", "links", "overlays", "entry", "user", "overlay", "clear"}
    /\ job.step \in {"create", "unindex", "rename", "key", "index", "link",
                     "links", "overlays", "entry", "user"} => job.u \in Users
    /\ job.step \in {"create", "unindex", "rename"} => job.n \in Directory!DisplayNames
    /\ job.step = "index" => job.n \in UserNames
    /\ job.step = "link" => job.n \in UserNames \cup {None}
    /\ job.step \in {"overlay", "clear"} => job.n \in Contexts

DirectoryTypes ==
    /\ user \in [Users -> UserRecords \cup {None}]
    /\ link \in [Links -> LinkRecords \cup {None}]
    /\ index \in [UserNames -> Users \cup {None}]
    /\ overlay \subseteq Directory!Overlays
    /\ issued \subseteq Users
    /\ torn \in BOOLEAN
    /\ JobOK

\* Every entry of the index, and every link, names a stored user.
EntriesLive == \A n \in UserNames : index[n] # None =>
                  Directory!Exists(index[n]) /\ user[index[n]].name = n
LinksLive == \A l \in Links : link[l] # None => Directory!Exists(link[l].user)

\* What the order of a job's writes has established so far.
Settled ==
    /\ \A u \in Users : Directory!Exists(u) => u \in issued
    /\ job.step = "create" => ~Directory!Exists(job.u) /\ job.u \in issued
    /\ job.step \in {"unindex", "rename", "key", "link"} => Directory!Exists(job.u)
    /\ job.step = "index" => Directory!Exists(job.u) /\ user[job.u].name = job.n
    /\ job.step \in {"rename", "user"} => \A n \in UserNames : index[n] # job.u
    /\ job.step \in {"overlays", "entry", "user"} => Directory!LinksOf(job.u) = {}

DirectoryInv == DirectoryTypes /\ EntriesLive /\ LinksLive /\ Settled

USE DEF Directory!Exists, Directory!Job

LEMMA DirectoryBegins == ASSUME NoneIsNothing, Directory!Init PROVE DirectoryInv
<1>1. DirectoryTypes
  BY DEF NoneIsNothing, Directory!Init, DirectoryTypes, JobOK, Directory!Idle,
     Directory!Overlays
<1>2. EntriesLive /\ LinksLive
  BY DEF Directory!Init, EntriesLive, LinksLive
<1>3. Settled
  BY DEF Directory!Init, Settled, Directory!Idle, NoneIsNothing
<1> QED
  BY <1>1, <1>2, <1>3 DEF DirectoryInv

-----------------------------------------------------------------------------
(* UserDirectory: requests *)

LEMMA CreateBegins ==
    ASSUME NoneIsNothing, DirectoryInv, Directory!HandleCreate
    PROVE  DirectoryInv'
<1>1. PICK u \in Users \ issued, n \in Directory!DisplayNames :
          /\ issued' = issued \cup {u}
          /\ job' = [step |-> "create", u |-> u, n |-> n, at |-> {}]
          /\ UNCHANGED <<user, link, index, overlay, torn>>
  BY DEF Directory!HandleCreate, Directory!Begin, Directory!Job
<1>2. DirectoryTypes'
  BY <1>1 DEF DirectoryInv, DirectoryTypes, JobOK
<1>3. ~Directory!Exists(u)
  BY <1>1 DEF DirectoryInv, Settled
<1>4. Settled'
  BY <1>1, <1>3 DEF DirectoryInv, Settled
<1> QED
  BY <1>1, <1>2, <1>4 DEF DirectoryInv, EntriesLive, LinksLive

\* Any other request takes its user as it is stored.
LEMMA OtherBegins ==
    ASSUME DirectoryInv, NEW step, NEW u, NEW n, NEW at,
           job' = [step |-> step, u |-> u, n |-> n, at |-> at],
           UNCHANGED <<user, link, index, overlay, issued, torn>>, at \subseteq Links,
           \/ step \in {"unindex", "key", "link", "links"}
              /\ u \in Users /\ Directory!Exists(u)
              /\ (step = "unindex" => n \in Directory!DisplayNames)
              /\ (step = "link" => n \in UserNames \cup {None})
           \/ step = "unlink"
           \/ step \in {"overlay", "clear"} /\ n \in Contexts
    PROVE  DirectoryInv'
<1>1. DirectoryTypes'
  BY DEF DirectoryInv, DirectoryTypes, JobOK
<1>2. Settled'
  BY DEF DirectoryInv, Settled
<1> QED
  BY <1>1, <1>2 DEF DirectoryInv, EntriesLive, LinksLive

LEMMA RequestsBegin ==
    ASSUME NoneIsNothing, DirectoryInv,
           \/ Directory!HandleSetDisplayName \/ Directory!HandleSetPublicKey
           \/ Directory!HandleLink
           \/ Directory!HandleUnlink \/ Directory!HandleDelete
           \/ Directory!HandleContextSet \/ Directory!HandleContextClear
    PROVE  DirectoryInv'
<1>1. CASE Directory!HandleSetDisplayName
  BY <1>1, OtherBegins DEF Directory!HandleSetDisplayName, Directory!Begin, Directory!Job
<1>2. CASE Directory!HandleSetPublicKey
  BY <1>2, OtherBegins DEF Directory!HandleSetPublicKey, Directory!Begin, Directory!Job
<1>3. CASE Directory!HandleLink
  BY <1>3, OtherBegins DEF Directory!HandleLink, Directory!Begin, Directory!Job
<1>4. CASE Directory!HandleUnlink
  BY <1>4, OtherBegins DEF Directory!HandleUnlink, Directory!Begin, Directory!Job
<1>5. CASE Directory!HandleDelete
  BY <1>5, OtherBegins DEF Directory!HandleDelete, Directory!Begin, Directory!Job
<1>6. CASE Directory!HandleContextSet
  BY <1>6, OtherBegins DEF Directory!HandleContextSet, Directory!Begin, Directory!Job
<1>7. CASE Directory!HandleContextClear
  <2>1. PICK o \in overlay :
            /\ job' = [step |-> "clear", u |-> None, n |-> o[1], at |-> {o[2]}]
            /\ UNCHANGED <<user, link, index, overlay, issued, torn>>
    BY <1>7 DEF Directory!HandleContextClear, Directory!Begin, Directory!Job
  <2>2. o[1] \in Contexts /\ {o[2]} \subseteq Links
    BY <2>1 DEF DirectoryInv, DirectoryTypes, Directory!Overlays
  <2> QED
    BY <2>1, <2>2, OtherBegins
<1> QED
  BY <1>1, <1>2, <1>3, <1>4, <1>5, <1>6, <1>7

-----------------------------------------------------------------------------
(* UserDirectory: writes *)

\* A job that ends, in error or because it is done.
LEMMA JobEnds ==
    ASSUME job' = Directory!Idle
    PROVE  JobOK' /\ (Settled' <=> \A u \in Users : Directory!Exists(u)' => u \in issued')
BY DEF JobOK, Settled, Directory!Idle

LEMMA UserWritten ==
    ASSUME NoneIsNothing, DirectoryInv, Directory!WriteUser
    PROVE  DirectoryInv'
<1>1. PICK u \in Users, r \in UserRecords :
          /\ u = job.u /\ user' = [user EXCEPT ![u] = r]
          /\ job.step = "key" => r.name = user[u].name
          /\ job.step # "key" => r.name = job.n
  <2>1. job.u \in Users /\ (job.step # "key" => job.n \in Directory!DisplayNames)
        /\ (job.step \in {"rename", "key"} => user[job.u] \in UserRecords)
    BY DEF Directory!WriteUser, DirectoryInv, DirectoryTypes, JobOK, Settled
  <2> DEFINE r == IF job.step = "key" THEN [name |-> user[job.u].name, key |-> ~user[job.u].key]
                  ELSE [name |-> job.n, key |-> job.step = "rename" /\ user[job.u].key]
  <2>2. r \in UserRecords /\ (job.step = "key" => r.name = user[job.u].name)
        /\ (job.step # "key" => r.name = job.n)
    <3>1. CASE job.step = "key"
      BY <2>1, <3>1 DEF UserRecords
    <3>2. CASE job.step # "key"
      BY <2>1, <3>2 DEF UserRecords, Directory!WriteUser
    <3> QED
      BY <3>1, <3>2
  <2>3. user' = [user EXCEPT ![job.u] = r]
    <3>1. CASE job.step = "key"
      BY <3>1 DEF Directory!WriteUser
    <3>2. CASE job.step # "key"
      BY <3>2 DEF Directory!WriteUser
    <3> QED
      BY <3>1, <3>2
  <2> HIDE DEF r
  <2> QED
    BY <2>1, <2>2, <2>3
<1>2. /\ user \in [Users -> UserRecords \cup {None}]
      /\ user'[u] = r /\ r # None /\ \A v \in Users \ {u} : user'[v] = user[v]
  BY <1>1 DEF DirectoryInv, DirectoryTypes, NoneIsNothing
<1>3. UNCHANGED <<link, index, overlay, issued, torn>>
  BY DEF Directory!WriteUser
<1>4. \/ job' = Directory!Idle
      \/ /\ job' = [job EXCEPT !.step = "index"]
         /\ job.step # "key" /\ job.n \in UserNames
  BY DEF Directory!WriteUser
<1>5. DirectoryTypes'
  <2>1. user' \in [Users -> UserRecords \cup {None}]
    BY <1>1, <1>2
  <2>2. CASE job' = Directory!Idle
    BY <2>2, <1>3, <2>1, JobEnds DEF DirectoryInv, DirectoryTypes
  <2>3. CASE job' = [job EXCEPT !.step = "index"] /\ job.step # "key" /\ job.n \in UserNames
    <3>1. job' = Directory!Job("index", job.u, job.n, job.at) /\ job.u \in Users
      BY <2>3 DEF DirectoryInv, DirectoryTypes, JobOK, Directory!WriteUser
    <3> QED
      BY <1>3, <2>1, <2>3, <3>1 DEF DirectoryInv, DirectoryTypes, JobOK
  <2> QED
    BY <1>4, <2>2, <2>3 DEF DirectoryInv, DirectoryTypes
<1>6. EntriesLive'
  <2>1. ASSUME NEW n \in UserNames, index[n] = u PROVE user'[u].name = n
    <3>1. Directory!Exists(u) /\ user[u].name = n
      BY <2>1 DEF DirectoryInv, EntriesLive, NoneIsNothing
    <3>2. job.step = "key"
      BY <1>1, <2>1, <3>1 DEF DirectoryInv, Settled, Directory!WriteUser
    <3> QED
      BY <1>1, <1>2, <3>1, <3>2
  <2>2. \A n \in UserNames : index[n] \in Users \cup {None}
    BY DEF DirectoryInv, DirectoryTypes
  <2> QED
    BY <1>2, <1>3, <2>1, <2>2 DEF DirectoryInv, EntriesLive
<1>7. LinksLive'
  <2>1. \A l \in Links : link[l] # None => link[l].user \in Users
    BY DEF DirectoryInv, DirectoryTypes, LinkRecords
  <2> QED
    BY <1>2, <1>3, <2>1 DEF DirectoryInv, LinksLive
<1>8. Settled'
  <2>1. u \in issued
    BY <1>1 DEF DirectoryInv, Settled, Directory!WriteUser
  <2>2. \A v \in Users : Directory!Exists(v)' => v \in issued'
    BY <1>2, <1>3, <2>1 DEF DirectoryInv, Settled
  <2>3. CASE job' = Directory!Idle
    BY <2>2, <2>3, JobEnds
  <2>4. CASE job' = [job EXCEPT !.step = "index"] /\ job.step # "key" /\ job.n \in UserNames
    BY <1>1, <1>2, <2>2, <2>4 DEF Settled, DirectoryInv, DirectoryTypes, JobOK
  <2> QED
    BY <1>4, <2>3, <2>4
<1> QED
  BY <1>5, <1>6, <1>7, <1>8 DEF DirectoryInv

LEMMA IndexWritten ==
    ASSUME NoneIsNothing, DirectoryInv, Directory!WriteIndex
    PROVE  DirectoryInv'
<1>1. /\ job.n \in UserNames /\ job.u \in Users
      /\ Directory!Exists(job.u) /\ user[job.u].name = job.n
  BY DEF Directory!WriteIndex, DirectoryInv, DirectoryTypes, JobOK, Settled
<1>2. /\ index' = [index EXCEPT ![job.n] = job.u] /\ job' = Directory!Idle
      /\ UNCHANGED <<user, link, overlay, issued, torn>>
  BY DEF Directory!WriteIndex
<1>3. DirectoryTypes' /\ Settled'
  BY <1>1, <1>2, JobEnds DEF DirectoryInv, DirectoryTypes, Settled
<1>4. EntriesLive'
  BY <1>1, <1>2 DEF DirectoryInv, DirectoryTypes, EntriesLive
<1>5. LinksLive'
  BY <1>2 DEF DirectoryInv, LinksLive
<1> QED
  BY <1>3, <1>4, <1>5 DEF DirectoryInv

LEMMA LinkWritten ==
    ASSUME NoneIsNothing, DirectoryInv, Directory!WriteLink
    PROVE  DirectoryInv'
<1>1. PICK l \in Links, r \in LinkRecords :
          link' = [link EXCEPT ![l] = r] /\ Directory!Exists(r.user)
  <2>1. job.u \in Users /\ Directory!Exists(job.u) /\ job.n \in UserNames \cup {None}
        /\ job.at \subseteq Links
    BY DEF Directory!WriteLink, DirectoryInv, DirectoryTypes, JobOK, Settled
  <2>2. PICK l \in job.at : link' = [link EXCEPT ![l] = [user |-> job.u, name |-> job.n]]
    BY DEF Directory!WriteLink
  <2>3. [user |-> job.u, name |-> job.n] \in LinkRecords
    BY <2>1 DEF LinkRecords
  <2> QED
    BY <2>1, <2>2, <2>3
<1>2. job' = Directory!Idle /\ UNCHANGED <<user, index, overlay, issued, torn>>
  BY DEF Directory!WriteLink
<1>3. DirectoryTypes' /\ Settled'
  BY <1>1, <1>2, JobEnds DEF DirectoryInv, DirectoryTypes, Settled
<1>4. EntriesLive'
  BY <1>2 DEF DirectoryInv, EntriesLive
<1>5. LinksLive'
  BY <1>1, <1>2 DEF DirectoryInv, DirectoryTypes, LinksLive
<1> QED
  BY <1>3, <1>4, <1>5 DEF DirectoryInv

\* A step that only takes links, entries and overlays away, or adds overlays,
\* keeps what is left live.
LEMMA LiveShrinks ==
    ASSUME DirectoryInv, UNCHANGED user,
           \A l \in Links : link'[l] \in {link[l], None},
           \A n \in UserNames : index'[n] \in {index[n], None}
    PROVE  EntriesLive' /\ LinksLive'
BY DEF DirectoryInv, EntriesLive, LinksLive

LEMMA Unindexed ==
    ASSUME NoneIsNothing, DirectoryInv, Directory!Unindex
    PROVE  DirectoryInv'
<1>1. /\ job.u \in Users /\ Directory!Exists(job.u) /\ job.n \in Directory!DisplayNames
      /\ job = Directory!Job("unindex", job.u, job.n, job.at)
  BY DEF Directory!Unindex, DirectoryInv, DirectoryTypes, JobOK, Settled
<1>2. /\ job' = Directory!Job("rename", job.u, job.n, job.at)
      /\ UNCHANGED <<user, link, overlay, issued, torn>>
      /\ index' = [n \in UserNames |-> IF n \in Directory!OwnEntry(job.u) THEN None ELSE index[n]]
  BY <1>1 DEF Directory!Unindex
<1>3. \A n \in UserNames : index'[n] # job.u
  BY <1>1, <1>2 DEF Directory!OwnEntry, DirectoryInv, EntriesLive, NoneIsNothing
<1>4. \A n \in UserNames : index'[n] \in {index[n], None}
  BY <1>2
<1>5. DirectoryTypes'
  <2>1. index' \in [UserNames -> Users \cup {None}]
    BY <1>2 DEF DirectoryInv, DirectoryTypes
  <2> QED
    BY <1>1, <1>2, <2>1 DEF DirectoryInv, DirectoryTypes, JobOK
<1>6. Settled'
  BY <1>1, <1>2, <1>3 DEF DirectoryInv, Settled
<1> QED
  BY <1>2, <1>4, <1>5, <1>6, LiveShrinks DEF DirectoryInv

LEMMA UnlinkStepped ==
    ASSUME NoneIsNothing, DirectoryInv, Directory!UnlinkStep
    PROVE  DirectoryInv'
<1>1. CASE \E o \in Directory!OverlaysOn(job.at) : overlay' = overlay \ {o} /\ UNCHANGED <<link, job>>
  <2>1. UNCHANGED <<user, index, issued, torn, link, job>> /\ overlay' \subseteq overlay
    BY <1>1 DEF Directory!UnlinkStep
  <2> QED
    BY <2>1 DEF DirectoryInv, DirectoryTypes, JobOK, EntriesLive, LinksLive, Settled,
       Directory!LinksOf
<1>2. CASE /\ link' = [l \in Links |-> IF l \in job.at THEN None ELSE link[l]]
           /\ job' = Directory!Idle /\ UNCHANGED overlay
  <2>1. UNCHANGED <<user, index, issued, torn>>
    BY DEF Directory!UnlinkStep
  <2>2. link' \in [Links -> LinkRecords \cup {None}]
    BY <1>2 DEF DirectoryInv, DirectoryTypes
  <2>3. DirectoryTypes' /\ Settled'
    BY <1>2, <2>1, <2>2, JobEnds DEF DirectoryInv, DirectoryTypes, Settled
  <2> QED
    BY <1>2, <2>1, <2>3, LiveShrinks DEF DirectoryInv
<1> QED
  BY <1>1, <1>2 DEF Directory!UnlinkStep

LEMMA LinksSwept ==
    ASSUME NoneIsNothing, DirectoryInv, Directory!SweepLinks
    PROVE  DirectoryInv'
<1>1. /\ job.u \in Users /\ job.at \subseteq Links
      /\ job = Directory!Job("links", job.u, job.n, job.at)
      /\ UNCHANGED <<user, index, overlay, issued, torn>>
  BY DEF Directory!SweepLinks, DirectoryInv, DirectoryTypes, JobOK
<1>2. CASE Directory!LinksOf(job.u) # {}
  <2>1. PICK l \in Links : /\ link' = [link EXCEPT ![l] = None]
                           /\ job' = Directory!Job("links", job.u, job.n, job.at \cup {l})
    BY <1>1, <1>2 DEF Directory!SweepLinks, Directory!LinksOf
  <2>2. DirectoryTypes'
    BY <1>1, <2>1 DEF DirectoryInv, DirectoryTypes, JobOK
  <2>3. Settled'
    BY <1>1, <2>1 DEF DirectoryInv, Settled
  <2>4. \A k \in Links : link'[k] \in {link[k], None}
    BY <2>1 DEF DirectoryInv, DirectoryTypes
  <2> QED
    BY <1>1, <2>2, <2>3, <2>4, LiveShrinks DEF DirectoryInv, DirectoryTypes
<1>3. CASE Directory!LinksOf(job.u) = {}
  <2>1. job' = Directory!Job("overlays", job.u, job.n, job.at) /\ UNCHANGED link
    BY <1>1, <1>3 DEF Directory!SweepLinks
  <2>2. DirectoryTypes'
    BY <1>1, <2>1 DEF DirectoryInv, DirectoryTypes, JobOK
  <2>3. Settled'
    BY <1>1, <1>3, <2>1 DEF DirectoryInv, Settled, Directory!LinksOf
  <2> QED
    BY <1>1, <2>1, <2>2, <2>3, LiveShrinks DEF DirectoryInv, DirectoryTypes
<1> QED
  BY <1>2, <1>3

LEMMA OverlaysSwept ==
    ASSUME NoneIsNothing, DirectoryInv, Directory!SweepOverlays
    PROVE  DirectoryInv'
<1>1. /\ job.u \in Users /\ job.at \subseteq Links /\ Directory!LinksOf(job.u) = {}
      /\ job = Directory!Job("overlays", job.u, job.n, job.at)
      /\ UNCHANGED <<user, link, index, issued, torn>>
  BY DEF Directory!SweepOverlays, DirectoryInv, DirectoryTypes, JobOK, Settled
<1>2. /\ overlay' \subseteq overlay
      /\ job' \in {job, Directory!Job("entry", job.u, job.n, job.at)}
  BY <1>1 DEF Directory!SweepOverlays
<1>3. DirectoryTypes'
  BY <1>1, <1>2 DEF DirectoryInv, DirectoryTypes, JobOK
<1>4. Settled'
  BY <1>1, <1>2 DEF DirectoryInv, Settled, Directory!LinksOf
<1> QED
  BY <1>1, <1>3, <1>4, LiveShrinks DEF DirectoryInv, DirectoryTypes

LEMMA EntryDropped ==
    ASSUME NoneIsNothing, DirectoryInv, Directory!DropEntry
    PROVE  DirectoryInv'
<1>1. /\ job.u \in Users /\ job.at \subseteq Links /\ Directory!LinksOf(job.u) = {}
      /\ job = Directory!Job("entry", job.u, job.n, job.at)
  BY DEF Directory!DropEntry, DirectoryInv, DirectoryTypes, JobOK, Settled
<1>2. /\ job' = Directory!Job("user", job.u, job.n, job.at)
      /\ UNCHANGED <<user, link, overlay, issued, torn>>
      /\ index' = [n \in UserNames |-> IF n \in Directory!OwnEntry(job.u) THEN None ELSE index[n]]
  BY <1>1 DEF Directory!DropEntry
<1>3. \A n \in UserNames : index'[n] # job.u
  BY <1>1, <1>2 DEF Directory!OwnEntry, DirectoryInv, EntriesLive, NoneIsNothing
<1>4. \A n \in UserNames : index'[n] \in {index[n], None}
  BY <1>2
<1>5. DirectoryTypes'
  <2>1. index' \in [UserNames -> Users \cup {None}]
    BY <1>2 DEF DirectoryInv, DirectoryTypes
  <2> QED
    BY <1>1, <1>2, <2>1 DEF DirectoryInv, DirectoryTypes, JobOK
<1>6. Settled'
  BY <1>1, <1>2, <1>3 DEF DirectoryInv, Settled, Directory!LinksOf
<1> QED
  BY <1>2, <1>4, <1>5, <1>6, LiveShrinks DEF DirectoryInv, DirectoryTypes

LEMMA UserDropped ==
    ASSUME NoneIsNothing, DirectoryInv, Directory!DropUser
    PROVE  DirectoryInv'
<1>1. /\ job.u \in Users /\ Directory!LinksOf(job.u) = {}
      /\ \A n \in UserNames : index[n] # job.u
      /\ user' = [user EXCEPT ![job.u] = None] /\ job' = Directory!Idle
      /\ UNCHANGED <<link, index, overlay, issued, torn>>
  BY DEF Directory!DropUser, DirectoryInv, DirectoryTypes, JobOK, Settled
<1>2. \A v \in Users : user'[v] = IF v = job.u THEN None ELSE user[v]
  BY <1>1 DEF DirectoryInv, DirectoryTypes
<1>3. DirectoryTypes'
  BY <1>1, JobEnds DEF DirectoryInv, DirectoryTypes
<1>4. Settled'
  BY <1>1, <1>2, JobEnds DEF DirectoryInv, Settled
<1>5. EntriesLive'
  BY <1>1, <1>2 DEF DirectoryInv, DirectoryTypes, EntriesLive
<1>6. LinksLive'
  <2>1. ASSUME NEW l \in Links, link[l] # None PROVE Directory!Exists(link[l].user)'
    <3>1. link[l].user \in Users /\ link[l].user # job.u
      BY <1>1, <2>1 DEF DirectoryInv, DirectoryTypes, LinkRecords, Directory!LinksOf
    <3> QED
      BY <1>1, <1>2, <2>1, <3>1 DEF DirectoryInv, LinksLive
  <2> QED
    BY <1>1, <2>1 DEF LinksLive
<1> QED
  BY <1>3, <1>4, <1>5, <1>6 DEF DirectoryInv

LEMMA ContextStepped ==
    ASSUME NoneIsNothing, DirectoryInv, Directory!ContextStep
    PROVE  DirectoryInv'
<1>1. /\ job.n \in Contexts /\ job.at \subseteq Links /\ job' = Directory!Idle
      /\ UNCHANGED <<user, link, index, issued, torn>>
  BY DEF Directory!ContextStep, DirectoryInv, DirectoryTypes, JobOK
<1>2. overlay' \subseteq Directory!Overlays
  BY <1>1 DEF Directory!ContextStep, DirectoryInv, DirectoryTypes, Directory!Overlays
<1> QED
  BY <1>1, <1>2, JobEnds, LiveShrinks DEF DirectoryInv, DirectoryTypes, Settled

LEMMA JobFails ==
    ASSUME NoneIsNothing, DirectoryInv, Directory!StorageFails
    PROVE  DirectoryInv'
BY JobEnds, LiveShrinks DEF Directory!StorageFails, DirectoryInv, DirectoryTypes, Settled

LEMMA NextSound ==
    ASSUME NoneIsNothing, DirectoryInv, [Directory!Next]_(Directory!vars)
    PROVE  DirectoryInv'
<1>1. CASE UNCHANGED Directory!vars
  BY <1>1 DEF Directory!vars, DirectoryInv, DirectoryTypes, JobOK, EntriesLive,
     LinksLive, Settled, Directory!LinksOf
<1> QED
  BY <1>1, CreateBegins, RequestsBegin, UserWritten, IndexWritten, Unindexed,
     LinkWritten, UnlinkStepped, LinksSwept, OverlaysSwept, EntryDropped,
     UserDropped, ContextStepped, JobFails DEF Directory!Next

\* capsule-users: at every step of every job, and whichever storage call fails,
\* a name-index entry points at a stored user of that name, and a link resolves
\* to a stored user.
THEOREM NoLookupDangles ==
    ASSUME NoneIsNothing
    PROVE  Directory!Spec => []Directory!ReferencesAreLive
<1>1. Directory!Init => DirectoryInv
  BY DirectoryBegins
<1>2. DirectoryInv /\ [Directory!Next]_(Directory!vars) => DirectoryInv'
  BY NextSound
<1>3. DirectoryInv => Directory!ReferencesAreLive
  BY DEF DirectoryInv, DirectoryTypes, EntriesLive, LinksLive,
     Directory!ReferencesAreLive, Directory!Resolve,
         NoneIsNothing, LinkRecords
<1> QED
  BY <1>1, <1>2, <1>3, PTL DEF Directory!Spec

\* capsule-users: the stored keys and the running job have their types.
THEOREM DirectoryIsTyped ==
    ASSUME NoneIsNothing
    PROVE  Directory!Spec => []Directory!TypeOK
<1>1. Directory!Init => DirectoryInv
  BY DirectoryBegins
<1>2. DirectoryInv /\ [Directory!Next]_(Directory!vars) => DirectoryInv'
  BY NextSound
<1>3. DirectoryInv => Directory!TypeOK
  BY DEF DirectoryInv, DirectoryTypes, JobOK, Directory!TypeOK, UserRecords, LinkRecords
<1> QED
  BY <1>1, <1>2, <1>3, PTL DEF Directory!Spec

-----------------------------------------------------------------------------
(* UserDirectory: overlays *)

\* An overlay without a link is one that the running delete still has to sweep.
Members ==
    /\ ~torn => \A o \in overlay : \/ link[o[2]] # None
                                   \/ /\ job.step \in {"links", "overlays"}
                                      /\ o[2] \in job.at
    /\ job.step = "overlay" => \A l \in job.at : link[l] # None

\* A step that adds no overlay, takes no link away, and is not of a delete.
LEMMA MembersStay ==
    ASSUME Members, DirectoryInv, overlay' \subseteq overlay,
           \A l \in Links : link[l] # None => link'[l] # None,
           torn' = torn, job.step \notin {"links", "overlays"},
           job'.step # "overlay"
    PROVE  Members'
<1>1. \A o \in overlay : o[2] \in Links
  BY DEF DirectoryInv, DirectoryTypes, Directory!Overlays
<1> QED
  BY <1>1 DEF Members

LEMMA MembersAtRequest ==
    ASSUME NoneIsNothing, DirectoryInv, Members,
           \/ Directory!HandleCreate \/ Directory!HandleSetDisplayName
           \/ Directory!HandleSetPublicKey
           \/ Directory!HandleLink \/ Directory!HandleUnlink \/ Directory!HandleDelete
           \/ Directory!HandleContextSet \/ Directory!HandleContextClear
    PROVE  Members'
<1>1. job.step = "idle" /\ UNCHANGED <<overlay, link, torn>>
  BY DEF Directory!HandleCreate, Directory!HandleSetDisplayName,
     Directory!HandleSetPublicKey, Directory!HandleLink,
         Directory!HandleUnlink, Directory!HandleDelete, Directory!HandleContextSet,
         Directory!HandleContextClear, Directory!Begin, Directory!Idle
<1>2. CASE Directory!HandleContextSet
  <2>1. PICK l \in Links, c \in Contexts :
            link[l] # None /\ job' = Directory!Job("overlay", None, c, {l})
    BY <1>2 DEF Directory!HandleContextSet, Directory!Begin
  <2> QED
    BY <1>1, <2>1 DEF Members
<1>3. CASE ~Directory!HandleContextSet
  <2>1. job'.step # "overlay"
    BY <1>3 DEF Directory!HandleCreate, Directory!HandleSetDisplayName,
       Directory!HandleSetPublicKey, Directory!HandleLink,
                Directory!HandleUnlink, Directory!HandleDelete,
                Directory!HandleContextClear, Directory!Begin
  <2> QED
    BY <1>1, <2>1, MembersStay
<1> QED
  BY <1>2, <1>3

LEMMA MembersAtWrite ==
    ASSUME NoneIsNothing, DirectoryInv, Members,
           Directory!WriteUser \/ Directory!WriteIndex \/ Directory!Unindex \/ Directory!WriteLink
    PROVE  Members'
<1>1. /\ job.step \in {"create", "rename", "key", "index", "unindex", "link"}
      /\ UNCHANGED <<overlay, torn>>
  BY DEF Directory!WriteUser, Directory!WriteIndex, Directory!Unindex, Directory!WriteLink
<1>2. job'.step # "overlay"
  BY DEF Directory!WriteUser, Directory!WriteIndex, Directory!Unindex,
     Directory!WriteLink, Directory!Idle, DirectoryInv, DirectoryTypes, JobOK
<1>3. \A l \in Links : link[l] # None => link'[l] # None
  <2>1. CASE Directory!WriteLink
    <3>1. [user |-> job.u, name |-> job.n] \in LinkRecords
      BY <2>1 DEF Directory!WriteLink, DirectoryInv, DirectoryTypes, JobOK, LinkRecords
    <3> QED
      BY <2>1, <3>1 DEF Directory!WriteLink, DirectoryInv, DirectoryTypes, NoneIsNothing
  <2>2. CASE ~Directory!WriteLink
    BY <2>2 DEF Directory!WriteUser, Directory!WriteIndex, Directory!Unindex
  <2> QED
    BY <2>1, <2>2
<1> QED
  BY <1>1, <1>2, <1>3, MembersStay

LEMMA MembersAtUnlink ==
    ASSUME NoneIsNothing, DirectoryInv, Members, Directory!UnlinkStep
    PROVE  Members'
<1>1. CASE Directory!OverlaysOn(job.at) # {}
  BY <1>1, MembersStay DEF Directory!UnlinkStep
<1>2. CASE Directory!OverlaysOn(job.at) = {}
  <2>1. /\ link' = [l \in Links |-> IF l \in job.at THEN None ELSE link[l]]
        /\ job' = Directory!Idle /\ UNCHANGED <<overlay, torn>> /\ job.step = "unlink"
    BY <1>2 DEF Directory!UnlinkStep
  <2>2. \A o \in overlay : o[2] \in Links /\ o[2] \notin job.at
    BY <1>2 DEF Directory!OverlaysOn, DirectoryInv, DirectoryTypes, Directory!Overlays
  <2> QED
    BY <2>1, <2>2 DEF Members, Directory!Idle
<1> QED
  BY <1>1, <1>2

LEMMA MembersAtSweep ==
    ASSUME NoneIsNothing, DirectoryInv, Members,
           Directory!SweepLinks \/ Directory!SweepOverlays
    PROVE  Members'
<1>1. job = Directory!Job(job.step, job.u, job.n, job.at) /\ job.at \subseteq Links
      /\ \A o \in overlay : o[2] \in Links
  BY DEF DirectoryInv, DirectoryTypes, JobOK, Directory!Overlays
<1>2. CASE Directory!SweepLinks
  <2>1. UNCHANGED <<overlay, torn>> /\ job.step = "links"
    BY <1>2 DEF Directory!SweepLinks
  <2>2. CASE Directory!LinksOf(job.u) # {}
    <3>1. PICK l \in Links : /\ link' = [link EXCEPT ![l] = None]
                             /\ job' = Directory!Job("links", job.u, job.n, job.at \cup {l})
      BY <1>1, <1>2, <2>2 DEF Directory!SweepLinks, Directory!LinksOf
    <3> QED
      BY <1>1, <2>1, <3>1 DEF Members, DirectoryInv, DirectoryTypes
  <2>3. CASE Directory!LinksOf(job.u) = {}
    <3>1. job' = Directory!Job("overlays", job.u, job.n, job.at) /\ UNCHANGED link
      BY <1>1, <1>2, <2>3 DEF Directory!SweepLinks
    <3> QED
      BY <2>1, <3>1 DEF Members
  <2> QED
    BY <2>2, <2>3
<1>3. CASE Directory!SweepOverlays
  <2>1. UNCHANGED <<link, torn>> /\ job.step = "overlays"
    BY <1>3 DEF Directory!SweepOverlays
  <2>2. CASE Directory!OverlaysOn(job.at) # {}
    BY <1>3, <2>1, <2>2 DEF Directory!SweepOverlays, Members
  <2>3. CASE Directory!OverlaysOn(job.at) = {}
    <3>1. job' = Directory!Job("entry", job.u, job.n, job.at) /\ UNCHANGED overlay
      BY <1>1, <1>3, <2>3 DEF Directory!SweepOverlays
    <3> QED
      BY <2>1, <2>3, <3>1 DEF Members, Directory!OverlaysOn
  <2> QED
    BY <2>2, <2>3
<1> QED
  BY <1>2, <1>3

LEMMA MembersAtContext ==
    ASSUME DirectoryInv, Members, Directory!ContextStep
    PROVE  Members'
<1>1. job' = Directory!Idle /\ UNCHANGED <<link, torn>> /\ job.step \in {"overlay", "clear"}
  BY DEF Directory!ContextStep
<1>2. \A o \in overlay' : o \in overlay \/ (job.step = "overlay" /\ o[2] \in job.at)
  BY <1>1 DEF Directory!ContextStep
<1> QED
  BY <1>1, <1>2 DEF Members, Directory!Idle

LEMMA MembersKept ==
    ASSUME NoneIsNothing, DirectoryInv, Members, [Directory!Next]_(Directory!vars)
    PROVE  Members'
<1>1. CASE Directory!DropEntry \/ Directory!DropUser
  <2>1. /\ job.step \in {"entry", "user"} /\ UNCHANGED <<link, overlay, torn>>
        /\ job'.step # "overlay"
    BY <1>1 DEF Directory!DropEntry, Directory!DropUser, Directory!Idle, DirectoryInv,
       DirectoryTypes, JobOK
  <2> QED
    BY <2>1, MembersStay
<1>2. CASE Directory!StorageFails
  BY <1>2 DEF Directory!StorageFails, Members, Directory!Idle
<1>3. CASE UNCHANGED Directory!vars
  BY <1>3 DEF Directory!vars, Members
<1> QED
  BY <1>1, <1>2, <1>3, MembersAtRequest, MembersAtWrite, MembersAtUnlink,
     MembersAtSweep, MembersAtContext DEF Directory!Next

\* capsule-users: unless a delete_user failed between its first two cascades, an
\* overlay belongs to a link, whichever other job failed at whatever write.
THEOREM OverlaysAreSwept ==
    ASSUME NoneIsNothing
    PROVE  Directory!Spec => []Directory!OverlaysHaveLinks
<1>1. Directory!Init => DirectoryInv /\ Members
  <2>1. Directory!Init => Members
    BY DEF Directory!Init, Members, Directory!Idle
  <2> QED
    BY <2>1, DirectoryBegins
<1>2. DirectoryInv /\ Members /\ [Directory!Next]_(Directory!vars) => DirectoryInv' /\ Members'
  BY NextSound, MembersKept
<1>3. DirectoryInv /\ Members => Directory!OverlaysHaveLinks
  <2> SUFFICES ASSUME DirectoryInv, Members, ~torn, job.step \notin {"links", "overlays"},
                      NEW c \in Contexts, NEW m \in Directory!ContextMembers(c)
               PROVE  m[2] # None
    BY DEF Directory!OverlaysHaveLinks
  <2>1. PICK o \in overlay : m = <<o, Directory!GetContext(o[2], c).user>>
    BY DEF Directory!ContextMembers
  <2>2. link[o[2]] # None /\ o[2] \in Links
    BY DEF Members, DirectoryInv, DirectoryTypes, Directory!Overlays
  <2>3. link[o[2]].user \in Users
    BY <2>2 DEF DirectoryInv, DirectoryTypes, LinkRecords
  <2>4. Directory!GetContext(o[2], c).user = link[o[2]].user
    BY <2>2 DEF Directory!GetContext
  <2> QED
    BY <2>1, <2>3, <2>4 DEF NoneIsNothing
<1> QED
  BY <1>1, <1>2, <1>3, PTL DEF Directory!Spec

-----------------------------------------------------------------------------
(* Launch: processes of the aos command *)

\* The runtime is none of the commands, and a free lock is not its lock.
DaemonIsNobody == Commanded!Daemon \notin Commands \cup {None}

Jobs == [at : Commanded!Points, kind : Kinds \cup {"run", None},
         edition : Editions \cup {None}, seen : Nat]

JobsOK == jobs \in [Commands -> Jobs]

\* The steps of process c.
StepOf(c) ==
    \/ Commanded!Start(c) \/ Commanded!Verify(c) \/ Commanded!Compare(c)
    \/ Commanded!Clear(c) \/ Commanded!Create(c)
    \/ Commanded!WriteManifest(c) \/ Commanded!Rename(c) \/ Commanded!Prepare(c)
    \/ Commanded!Exec(c)
    \/ Commanded!RuntimeStop(c) \/ Commanded!ReadStatus(c)
    \/ Commanded!LookForMarker(c) \/ Commanded!TryLock(c)
    \/ Commanded!Unlock(c) \/ Commanded!SelfUpdate(c) \/ Commanded!Ends(c)

USE DEF Commanded!At

\* A process that goes to a point keeps the rest of its job.
LEMMA Goes ==
    ASSUME JobsOK, NEW c \in Commands, NEW point \in Commanded!Points, Commanded!Goto(c, point)
    PROVE  /\ JobsOK' /\ jobs'[c].at = point /\ jobs'[c].edition = jobs[c].edition
           /\ \A d \in Commands \ {c} : jobs'[d] = jobs[d]
BY DEF JobsOK, Jobs, Commanded!Goto

LEMMA Quits ==
    ASSUME JobsOK, NEW c \in Commands, Commanded!Quit(c)
    PROVE  /\ JobsOK' /\ jobs'[c] = Commanded!Idle /\ jobs'[c].at = "idle"
           /\ \A d \in Commands \ {c} : jobs'[d] = jobs[d]
BY DEF JobsOK, Jobs, Commanded!Quit, Commanded!Idle, Commanded!Points

LEMMA NotYet ==
    ASSUME JobsOK, NEW c \in Commands, Commanded!NotConfirmed(c)
    PROVE  /\ JobsOK' /\ jobs'[c].at \in {"look", "idle"}
           /\ \A d \in Commands \ {c} : jobs'[d] = jobs[d]
<1>1. CASE jobs' = [jobs EXCEPT ![c].at = "look", ![c].seen = 0]
  BY <1>1 DEF JobsOK, Jobs, Commanded!Points, Commanded!Asking
<1>2. CASE Commanded!Quit(c)
  BY <1>2, Quits
<1> QED
  BY <1>1, <1>2 DEF Commanded!NotConfirmed

\* Where a step may leave its process.
LEMMA Starts ==
    ASSUME JobsOK, NEW c \in Commands, Commanded!Start(c)
    PROVE  /\ JobsOK' /\ jobs'[c].at \in {"ask", "connect", "install", "verify"}
           /\ \A d \in Commands \ {c} : jobs'[d] = jobs[d]
<1>1. PICK k \in Kinds, e \in Editions, a \in {"ask", "connect", "install", "verify"} :
          jobs' = [jobs EXCEPT ![c] = [at |-> a, kind |-> k, edition |-> e, seen |-> 0]]
  <2>1. PICK k \in Kinds, e \in Editions :
            jobs' = [jobs EXCEPT ![c] =
                    [at |-> CASE k = "stop" -> "ask" [] k = "status" -> "connect"
                              [] k = "update" -> "install" [] OTHER -> "verify",
                     kind |-> k, edition |-> e, seen |-> 0]]
    BY DEF Commanded!Start
  <2>2. (CASE k = "stop" -> "ask" [] k = "status" -> "connect"
           [] k = "update" -> "install" [] OTHER -> "verify")
        \in {"ask", "connect", "install", "verify"}
    OBVIOUS
  <2> QED
    BY <2>1, <2>2
<1> QED
  BY <1>1 DEF JobsOK, Jobs, Commanded!Points

LEMMA Looks ==
    ASSUME JobsOK, NEW c \in Commands, Commanded!LookForMarker(c)
    PROVE  /\ JobsOK' /\ jobs'[c].at \in {"look", "lock", "idle"}
           /\ \A d \in Commands \ {c} : jobs'[d] = jobs[d]
<1> DEFINE i == jobs[c].seen + 1
<1>1. CASE Markers[i] \in markers
  BY <1>1, NotYet DEF Commanded!LookForMarker
<1>2. CASE Markers[i] \notin markers
  <2>1. PICK a \in {"look", "lock"} :
            jobs' = [jobs EXCEPT ![c].seen = i, ![c].at = a]
    BY <1>2 DEF Commanded!LookForMarker
  <2>2. i \in Nat
    BY DEF JobsOK, Jobs
  <2> QED
    BY <2>1, <2>2 DEF JobsOK, Jobs, Commanded!Points, Commanded!Asking
<1> QED
  BY <1>1, <1>2

LEMMA Prepares ==
    ASSUME JobsOK, NEW c \in Commands, Commanded!Prepare(c)
    PROVE  /\ JobsOK' /\ jobs'[c].at \in {"verify", "idle"}
           /\ \A d \in Commands \ {c} : jobs'[d] = jobs[d]
<1>1. CASE jobs' = [jobs EXCEPT ![c].at = "verify", ![c].kind = "run"]
  BY <1>1 DEF JobsOK, Jobs, Commanded!Points
<1>2. CASE Commanded!Quit(c)
  BY <1>2, Quits
<1> QED
  BY <1>1, <1>2 DEF Commanded!Prepare

LEMMA HandoverPoint == \A c : Commanded!Handover(c) \in {"prepare", "exec"}
BY DEF Commanded!Handover

LEMMA PointsAre ==
    {"idle", "verify", "compare", "prepare", "exec", "ask", "connect", "install",
     "stopped", "clear", "create", "write", "rename", "look", "lock", "unlock"} = Commanded!Points
BY DEF Commanded!Points, Commanded!Saving, Commanded!Asking

\* A step of one process changes no other's job.
LEMMA OneMoves ==
    ASSUME JobsOK, NEW c \in Commands, StepOf(c)
    PROVE  JobsOK' /\ \A d \in Commands \ {c} : jobs'[d] = jobs[d]
<1>1. CASE Commanded!Start(c)
  BY <1>1, Starts
<1>2. CASE Commanded!Verify(c)
  BY <1>2, Goes, Quits, PointsAre DEF Commanded!Verify
<1>3. CASE Commanded!Compare(c)
  BY <1>3, Goes, HandoverPoint, PointsAre DEF Commanded!Compare
<1>4. CASE Commanded!Clear(c) \/ Commanded!Create(c) \/ Commanded!WriteManifest(c)
  BY <1>4, Goes, PointsAre DEF Commanded!Clear, Commanded!Create, Commanded!WriteManifest
<1>5. CASE Commanded!Rename(c)
  BY <1>5, Goes, Quits, HandoverPoint, PointsAre DEF Commanded!Rename
<1>6. CASE Commanded!Prepare(c)
  BY <1>6, Prepares
<1>7. CASE Commanded!Exec(c) \/ Commanded!SelfUpdate(c) \/ Commanded!Ends(c)
  BY <1>7, Quits DEF Commanded!Exec, Commanded!SelfUpdate, Commanded!Ends
<1>8. CASE Commanded!RuntimeStop(c) \/ Commanded!ReadStatus(c)
  BY <1>8, Goes, Quits, PointsAre DEF Commanded!RuntimeStop, Commanded!ReadStatus
<1>9. CASE Commanded!LookForMarker(c)
  BY <1>9, Looks
<1>10. CASE Commanded!TryLock(c) \/ Commanded!Unlock(c)
  BY <1>10, Goes, NotYet, PointsAre DEF Commanded!TryLock, Commanded!Unlock
<1> QED
  BY <1>1, <1>2, <1>3, <1>4, <1>5, <1>6, <1>7, <1>8, <1>9, <1>10 DEF StepOf

-----------------------------------------------------------------------------
(* Launch: stopped means released *)

\* A daemon's lock is a file, and a process that has had the lock, or has found
\* no lock file, has seen the daemon without it.
Released ==
    /\ lock = Commanded!Daemon => lockfile
    /\ \A c \in Commands : jobs[c].at \in {"unlock", "stopped"} => freed[c]

RInv == JobsOK /\ Released

LEMMA LockIsAFile ==
    ASSUME DaemonIsNobody, Released, Commanded!Step
    PROVE  (lock = Commanded!Daemon => lockfile)'
<1>1. CASE lock' = lock /\ lockfile' = lockfile
  BY <1>1 DEF Released
<1>2. CASE \E c \in Commands : Commanded!Exec(c)
  BY <1>2 DEF Commanded!Exec, Commanded!DaemonStarts, Commanded!runtime, Released
<1>3. CASE \E c \in Commands : Commanded!TryLock(c) \/ Commanded!Unlock(c) \/ Commanded!Ends(c)
  BY <1>3 DEF Commanded!TryLock, Commanded!Unlock, Commanded!Ends, DaemonIsNobody,
     Released
<1>4. CASE Commanded!DaemonCloses
  BY <1>4 DEF Commanded!DaemonCloses, DaemonIsNobody, Released
<1> QED
  BY <1>1, <1>2, <1>3, <1>4
     DEF Commanded!Step, Commanded!Start, Commanded!Verify, Commanded!Compare,
     Commanded!Clear, Commanded!Create, Commanded!WriteManifest, Commanded!Rename,
         Commanded!Prepare, Commanded!RuntimeStop, Commanded!ReadStatus,
         Commanded!LookForMarker, Commanded!SelfUpdate, Commanded!DaemonMarks,
         Commanded!runtime

\* A process that comes to unlock or to report found the daemon without its lock.
LEMMA ComesAfterTheLock ==
    ASSUME DaemonIsNobody, RInv, NEW c \in Commands, StepOf(c),
           jobs'[c].at \in {"unlock", "stopped"}
    PROVE  \/ Commanded!TryLock(c) /\ lock' # Commanded!Daemon
           \/ Commanded!Unlock(c)
<1>1. ~Commanded!Start(c) /\ ~Commanded!Prepare(c) /\ ~Commanded!LookForMarker(c)
  BY Starts, Prepares, Looks DEF RInv
<1>2. ~Commanded!Verify(c)
  BY Goes, Quits, PointsAre DEF RInv, Commanded!Verify
<1>3. ~Commanded!Compare(c) /\ ~Commanded!Rename(c)
  BY Goes, Quits, HandoverPoint, PointsAre DEF RInv, Commanded!Compare, Commanded!Rename
<1>4. ~Commanded!Clear(c) /\ ~Commanded!Create(c) /\ ~Commanded!WriteManifest(c)
  BY Goes, PointsAre DEF RInv, Commanded!Clear, Commanded!Create, Commanded!WriteManifest
<1>5. ~Commanded!Exec(c) /\ ~Commanded!SelfUpdate(c) /\ ~Commanded!Ends(c)
  BY Quits DEF RInv, Commanded!Exec, Commanded!SelfUpdate, Commanded!Ends
<1>6. ~Commanded!RuntimeStop(c) /\ ~Commanded!ReadStatus(c)
  BY Goes, Quits, PointsAre DEF RInv, Commanded!RuntimeStop, Commanded!ReadStatus
<1>7. ASSUME Commanded!TryLock(c) PROVE lock' # Commanded!Daemon
  <2>1. ~Commanded!NotConfirmed(c)
    BY NotYet DEF RInv
  <2> QED
    BY <1>7, <2>1 DEF Commanded!TryLock, RInv, Released, DaemonIsNobody
<1> QED
  BY <1>1, <1>2, <1>3, <1>4, <1>5, <1>6, <1>7 DEF StepOf

LEMMA ReleasedKept ==
    ASSUME DaemonIsNobody, RInv, [Commanded!Next]_(Commanded!vars) PROVE RInv'
<1>1. CASE UNCHANGED Commanded!vars
  BY <1>1 DEF Commanded!vars, RInv, JobsOK, Released
<1>2. ASSUME NEW c \in Commands, StepOf(c), Commanded!Next PROVE RInv'
  <2>1. JobsOK' /\ \A d \in Commands \ {c} : jobs'[d] = jobs[d]
    BY <1>2, OneMoves DEF RInv
  <2>2. Commanded!Step /\ freed' = [d \in Commands |->
              /\ jobs'[d].at \in Commanded!Asking \cup {"stopped"}
              /\ freed[d] \/ lock' # Commanded!Daemon]
    BY <1>2 DEF Commanded!Next, Commanded!Watched
  <2>3. (lock = Commanded!Daemon => lockfile)'
    BY <2>2, LockIsAFile DEF RInv
  <2>4. ASSUME NEW d \in Commands, jobs'[d].at \in {"unlock", "stopped"}
        PROVE  freed'[d]
    <3>1. CASE d # c
      BY <2>1, <2>2, <2>4, <3>1 DEF RInv, Released, Commanded!Asking
    <3>2. CASE d = c /\ Commanded!TryLock(c) /\ lock' # Commanded!Daemon
      BY <2>2, <2>4, <3>2 DEF Commanded!Asking
    <3>3. CASE d = c /\ Commanded!Unlock(c)
      BY <2>2, <2>4, <3>3 DEF Commanded!Unlock, RInv, Released, Commanded!Asking
    <3> QED
      BY <1>2, <2>4, <3>1, <3>2, <3>3, ComesAfterTheLock
  <2> QED
    BY <2>1, <2>3, <2>4 DEF RInv, Released
<1>3. ASSUME Commanded!DaemonMarks \/ Commanded!DaemonCloses, Commanded!Next PROVE RInv'
  <2>1. jobs' = jobs
    BY <1>3 DEF Commanded!DaemonMarks, Commanded!DaemonCloses
  <2>2. Commanded!Step /\ freed' = [d \in Commands |->
              /\ jobs'[d].at \in Commanded!Asking \cup {"stopped"}
              /\ freed[d] \/ lock' # Commanded!Daemon]
    BY <1>3 DEF Commanded!Next, Commanded!Watched
  <2>3. (lock = Commanded!Daemon => lockfile)'
    BY <2>2, LockIsAFile DEF RInv
  <2> QED
    BY <2>1, <2>2, <2>3 DEF RInv, JobsOK, Released, Commanded!Asking
<1> QED
  BY <1>1, <1>2, <1>3 DEF Commanded!Next, Commanded!Step, StepOf

\* confirm_stopped: when stop or status says the runtime is down, its daemon has
\* been without the lock at some moment since the question.
THEOREM StoppedIsReleased ==
    ASSUME DaemonIsNobody
    PROVE  Commanded!Spec => []Commanded!StoppedMeansReleased
<1>1. Commanded!Init => RInv
  <2>1. Commanded!Init => JobsOK
    BY PointsAre DEF Commanded!Init, JobsOK, Jobs, Commanded!Idle
  <2>2. Commanded!Init => Released
    BY DEF Commanded!Init, Released, DaemonIsNobody, Commanded!Idle
  <2> QED
    BY <2>1, <2>2 DEF RInv
<1>2. RInv /\ [Commanded!Next]_(Commanded!vars) => RInv'
  BY ReleasedKept
<1>3. RInv => Commanded!StoppedMeansReleased
  BY DEF RInv, Released, Commanded!StoppedMeansReleased
<1> QED
  BY <1>1, <1>2, <1>3, PTL DEF Commanded!Spec

-----------------------------------------------------------------------------
(* Launch: the manifest handed over *)

\* How far a process that saves alone has come.
Saved(c) ==
    /\ jobs[c].at = "write" => open[c] = "temp" /\ temp = Commanded!Cut
    /\ jobs[c].at = "rename" => temp = jobs[c].edition
    /\ jobs[c].at \in {"prepare", "exec"} => manifest = jobs[c].edition

Alone ==
    /\ open \in [Commands -> {"temp", "manifest", None}]
    /\ \A c \in Commands : alone[c] =>
          /\ \A d \in Commands \ {c} : jobs[d].at \notin Commanded!Saving
          /\ Saved(c)

MInv == JobsOK /\ Alone

LEMMA OpenType ==
    ASSUME Alone, Commanded!Step
    PROVE  open' \in [Commands -> {"temp", "manifest", None}]
BY DEF Alone, Commanded!Step, Commanded!Start, Commanded!Verify, Commanded!Compare,
   Commanded!Clear, Commanded!Create, Commanded!WriteManifest, Commanded!Rename,
       Commanded!Prepare, Commanded!Exec, Commanded!RuntimeStop, Commanded!ReadStatus,
       Commanded!LookForMarker, Commanded!TryLock, Commanded!Unlock,
       Commanded!SelfUpdate, Commanded!Ends, Commanded!DaemonMarks,
       Commanded!DaemonCloses, Commanded!files

\* A process that is not saving leaves every manifest, and every other open file.
LEMMA OthersLeaveIt ==
    ASSUME MInv, NEW c \in Commands, NEW d \in Commands \ {c}, StepOf(d),
           jobs[d].at \notin Commanded!Saving
    PROVE  manifest' = manifest /\ temp' = temp /\ open'[c] = open[c]
<1>1. /\ ~Commanded!Clear(d) /\ ~Commanded!Create(d)
      /\ ~Commanded!WriteManifest(d) /\ ~Commanded!Rename(d)
  BY DEF Commanded!Clear, Commanded!Create, Commanded!WriteManifest, Commanded!Rename,
     Commanded!Saving
<1> QED
  BY <1>1 DEF StepOf, Commanded!Start, Commanded!Verify, Commanded!Compare,
     Commanded!Prepare, Commanded!Exec, Commanded!RuntimeStop, Commanded!ReadStatus,
       Commanded!LookForMarker, Commanded!TryLock, Commanded!Unlock,
       Commanded!SelfUpdate, Commanded!Ends, Commanded!files, MInv, Alone

\* The steps of a process that saves alone.
LEMMA OwnStep ==
    ASSUME MInv, NEW c \in Commands, StepOf(c), Commanded!Start(c) \/ Saved(c)
    PROVE  Saved(c)'
<1>1. CASE Commanded!Start(c)
  BY <1>1, Starts DEF MInv, Saved
<1>2. CASE Commanded!Verify(c)
  BY <1>2, Goes, Quits, PointsAre DEF MInv, Commanded!Verify, Saved
<1>3. CASE Commanded!Compare(c)
  <2>1. CASE Commanded!Current(c)
    <3>1. Commanded!Goto(c, Commanded!Handover(c)) /\ manifest' = manifest
      BY <1>3, <2>1 DEF Commanded!Compare, Commanded!files
    <3>2. jobs'[c].at \in {"prepare", "exec"} /\ jobs'[c].edition = jobs[c].edition
      BY <3>1, Goes, HandoverPoint, PointsAre DEF MInv
    <3> QED
      BY <2>1, <3>1, <3>2 DEF Saved, Commanded!Current
  <2>2. CASE ~Commanded!Current(c)
    BY <1>3, <2>2, Goes, PointsAre DEF Commanded!Compare, MInv, Saved
  <2> QED
    BY <2>1, <2>2
<1>4. CASE Commanded!Clear(c)
  BY <1>4, Goes, PointsAre DEF Commanded!Clear, MInv, Saved
<1>5. CASE Commanded!Create(c)
  <2>1. jobs'[c].at = "write"
    BY <1>5, Goes, PointsAre DEF Commanded!Create, MInv
  <2> QED
    BY <1>5, <2>1 DEF Commanded!Create, MInv, Alone, Saved
<1>6. CASE Commanded!WriteManifest(c)
  <2>1. jobs[c].at = "write" /\ open[c] = "temp" /\ temp = Commanded!Cut
    BY <1>6, Starts DEF Commanded!WriteManifest, Saved, Commanded!Start
  <2>2. temp' \in Commanded!Filled(c, temp)
    BY <1>6, <2>1 DEF Commanded!WriteManifest
  <2>3. jobs'[c].at = "rename" /\ jobs'[c].edition = jobs[c].edition
    BY <1>6, Goes, PointsAre DEF Commanded!WriteManifest, MInv
  <2> QED
    BY <2>1, <2>2, <2>3 DEF Commanded!Filled, Saved
<1>7. CASE Commanded!Rename(c)
  <2>1. jobs[c].at = "rename" /\ temp = jobs[c].edition
    BY <1>7 DEF Commanded!Rename, Saved, Commanded!Start
  <2>2. CASE temp = None
    BY <1>7, <2>2, Quits DEF Commanded!Rename, MInv, Saved
  <2>3. CASE temp # None
    <3>1. manifest' = jobs[c].edition /\ Commanded!Goto(c, Commanded!Handover(c))
      BY <1>7, <2>1, <2>3 DEF Commanded!Rename
    <3>2. jobs'[c].at \in {"prepare", "exec"} /\ jobs'[c].edition = jobs[c].edition
      BY <3>1, Goes, HandoverPoint, PointsAre DEF MInv
    <3> QED
      BY <3>1, <3>2 DEF Saved
  <2> QED
    BY <2>2, <2>3
<1>8. CASE Commanded!Prepare(c)
  BY <1>8, Prepares DEF MInv, Saved
<1>9. CASE Commanded!Exec(c) \/ Commanded!SelfUpdate(c) \/ Commanded!Ends(c)
  BY <1>9, Quits DEF Commanded!Exec, Commanded!SelfUpdate, Commanded!Ends, MInv, Saved
<1>10. CASE Commanded!RuntimeStop(c) \/ Commanded!ReadStatus(c)
  BY <1>10, Goes, Quits, PointsAre DEF Commanded!RuntimeStop, Commanded!ReadStatus, MInv,
     Saved
<1>11. CASE Commanded!LookForMarker(c)
  BY <1>11, Looks DEF MInv, Saved
<1>12. CASE Commanded!TryLock(c) \/ Commanded!Unlock(c)
  BY <1>12, Goes, NotYet, PointsAre DEF Commanded!TryLock, Commanded!Unlock, MInv, Saved
<1> QED
  BY <1>1, <1>2, <1>3, <1>4, <1>5, <1>6, <1>7, <1>8, <1>9, <1>10, <1>11, <1>12
     DEF StepOf

LEMMA AloneKept == ASSUME MInv, [Commanded!Next]_(Commanded!vars) PROVE MInv'
<1>1. CASE UNCHANGED Commanded!vars
  BY <1>1 DEF Commanded!vars, MInv, JobsOK, Alone, Saved
<1>3. ASSUME Commanded!Next, NEW x \in Commands, StepOf(x) PROVE MInv'
  <2>1. JobsOK' /\ \A d \in Commands \ {x} : jobs'[d] = jobs[d]
    BY <1>3, OneMoves DEF MInv
  <2>2. open' \in [Commands -> {"temp", "manifest", None}]
    BY <1>3, OpenType DEF MInv, Commanded!Next
  <2>3. ASSUME NEW c \in Commands, alone'[c] PROVE Saved(c)'
    <3>1. jobs'[c] # Commanded!Idle /\ (jobs[c] = Commanded!Idle \/ alone[c])
      BY <1>3, <2>3 DEF Commanded!Next, Commanded!Watched
    <3>2. CASE x = c
      <4>1. CASE alone[c]
        BY <1>3, <3>2, <4>1, OwnStep DEF MInv, Alone
      <4>2. CASE jobs[c] = Commanded!Idle
        <5>1. Saved(c)
          BY <4>2 DEF Saved, Commanded!Idle
        <5> QED
          BY <1>3, <3>2, <5>1, OwnStep
      <4> QED
        BY <3>1, <4>1, <4>2
    <3>3. CASE x # c
      <4>1. alone[c] /\ jobs'[c] = jobs[c]
        BY <2>1, <3>1, <3>3
      <4>2. jobs[x].at \notin Commanded!Saving /\ Saved(c)
        BY <3>3, <4>1 DEF MInv, Alone
      <4>3. manifest' = manifest /\ temp' = temp /\ open'[c] = open[c]
        BY <1>3, <3>3, <4>2, OthersLeaveIt
      <4> QED
        BY <4>1, <4>2, <4>3 DEF Saved
    <3> QED
      BY <3>2, <3>3
  <2>4. \A c \in Commands : alone'[c] =>
            \A d \in Commands \ {c} : jobs'[d].at \notin Commanded!Saving
    BY <1>3 DEF Commanded!Next, Commanded!Watched
  <2> QED
    BY <2>1, <2>2, <2>3, <2>4 DEF MInv, Alone
<1>4. ASSUME Commanded!Next, Commanded!DaemonMarks \/ Commanded!DaemonCloses PROVE MInv'
  <2>1. UNCHANGED <<jobs, manifest, temp, open>>
    BY <1>4 DEF Commanded!DaemonMarks, Commanded!DaemonCloses, Commanded!files
  <2>2. \A c \in Commands : alone'[c] =>
            /\ \A d \in Commands \ {c} : jobs'[d].at \notin Commanded!Saving
            /\ jobs[c] = Commanded!Idle \/ alone[c]
    BY <1>4 DEF Commanded!Next, Commanded!Watched
  <2>3. \A c \in Commands : jobs[c] = Commanded!Idle => Saved(c)
    BY DEF Saved, Commanded!Idle
  <2> QED
    BY <2>1, <2>2, <2>3 DEF MInv, JobsOK, Alone, Saved
<1> QED
  BY <1>1, <1>3, <1>4 DEF Commanded!Next, Commanded!Step, StepOf

\* ensure_unicity_ce_manifest: a command that nobody else was saving beside hands
\* over the manifest of its own release.
THEOREM HandedOverIsOurs == Commanded!Spec => []Commanded!HandedManifestIsOurs
<1>1. Commanded!Init => MInv
  <2>1. Commanded!Init => JobsOK
    BY PointsAre DEF Commanded!Init, JobsOK, Jobs, Commanded!Idle
  <2>2. Commanded!Init => Alone
    BY DEF Commanded!Init, Alone
  <2> QED
    BY <2>1, <2>2 DEF MInv
<1>2. MInv /\ [Commanded!Next]_(Commanded!vars) => MInv'
  BY AloneKept
<1>3. MInv => Commanded!HandedManifestIsOurs
  BY DEF MInv, Alone, Saved, Commanded!HandedManifestIsOurs
<1> QED
  BY <1>1, <1>2, <1>3, PTL DEF Commanded!Spec

-----------------------------------------------------------------------------
(* Launch: types *)

\* A process that may still look has a marker left to look for.
JobTyped(x) ==
    \/ x = Commanded!Idle
    \/ /\ x \in [at : Commanded!Points, kind : Kinds \cup {"run"}, edition : Editions,
                 seen : 0..Len(Markers)]
       /\ x.at \in {"ask", "connect"} => x.seen = 0
       /\ x.at = "look" => x.seen < Len(Markers)

LaunchTyped ==
    /\ JobsOK /\ Commanded!TypeOK
    /\ \A c \in Commands : JobTyped(jobs[c])

\* Jobs that take their places in the code, none of them before a marker list
\* that is used up.
LEMMA JobsTyped ==
    ASSUME Len(Markers) \in Nat \ {0}, LaunchTyped, NEW c \in Commands, StepOf(c)
    PROVE  JobTyped(jobs'[c])
<1> DEFINE Full(x) == x \in [at : Commanded!Points, kind : Kinds \cup {"run"},
                             edition : Editions, seen : 0..Len(Markers)]
<1>1. jobs \in [Commands -> Jobs] /\ JobTyped(jobs[c])
  BY DEF LaunchTyped, JobsOK
<1>0. ASSUME jobs[c].at # "idle"
      PROVE  Full(jobs[c])
  BY <1>0, <1>1 DEF JobTyped, Commanded!Idle
<1>2. ASSUME NEW point \in Commanded!Points \ {"ask", "connect", "look"},
             jobs[c].at # "idle", Commanded!Goto(c, point)
      PROVE  JobTyped(jobs'[c])
  BY <1>1, <1>2 DEF Commanded!Goto, JobTyped, Commanded!Idle
<1>3. ASSUME Commanded!Quit(c)
      PROVE  JobTyped(jobs'[c])
  BY <1>1, <1>3 DEF Commanded!Quit, JobTyped
<1>4. ASSUME jobs[c].at # "idle", Commanded!NotConfirmed(c)
      PROVE  JobTyped(jobs'[c])
  <2>1. CASE jobs' = [jobs EXCEPT ![c].at = "look", ![c].seen = 0]
    <3>1. Full(jobs[c])
      BY <1>0, <1>4
    <3> DEFINE x == jobs[c]
               y == [x EXCEPT !.at = "look", !.seen = 0]
    <3>2. jobs'[c] = y /\ Full(x)
      BY <1>1, <2>1, <3>1
    <3>3. "look" \in Commanded!Points /\ 0 \in 0..Len(Markers) /\ 0 < Len(Markers)
      BY PointsAre
    <3> HIDE DEF x
    <3>4. Full(y) /\ y.at = "look" /\ y.seen = 0
      BY <3>2, <3>3
    <3> HIDE DEF y
    <3> QED
      BY <3>2, <3>3, <3>4 DEF JobTyped
  <2> QED
    BY <1>3, <1>4, <2>1 DEF Commanded!NotConfirmed
<1>5. CASE Commanded!Start(c)
  <2>1. PICK k \in Kinds, e \in Editions :
            jobs' = [jobs EXCEPT ![c] =
                    [at |-> CASE k = "stop" -> "ask" [] k = "status" -> "connect"
                              [] k = "update" -> "install" [] OTHER -> "verify",
                     kind |-> k, edition |-> e, seen |-> 0]]
    BY <1>5 DEF Commanded!Start
  <2>2. (CASE k = "stop" -> "ask" [] k = "status" -> "connect"
           [] k = "update" -> "install" [] OTHER -> "verify")
        \in {"ask", "connect", "install", "verify"}
    OBVIOUS
  <2>3. PICK a \in {"ask", "connect", "install", "verify"} :
            jobs'[c] = [at |-> a, kind |-> k, edition |-> e, seen |-> 0]
    BY <1>1, <2>1, <2>2
  <2>4. a \in Commanded!Points /\ a # "look"
    BY <2>3, PointsAre
  <2> QED
    BY <2>3, <2>4 DEF JobTyped
<1>6. CASE Commanded!Verify(c) \/ Commanded!Compare(c)
  BY <1>2, <1>3, <1>6, PointsAre, HandoverPoint DEF Commanded!Verify, Commanded!Compare
<1>7. CASE Commanded!Clear(c) \/ Commanded!Create(c) \/ Commanded!WriteManifest(c)
  BY <1>2, <1>7, PointsAre DEF Commanded!Clear, Commanded!Create, Commanded!WriteManifest
<1>8. CASE Commanded!Rename(c)
  BY <1>2, <1>3, <1>8, PointsAre, HandoverPoint DEF Commanded!Rename
<1>9. CASE Commanded!Prepare(c)
  <2>1. CASE jobs' = [jobs EXCEPT ![c].at = "verify", ![c].kind = "run"]
    <3>1. Full(jobs[c])
      BY <1>0, <1>9 DEF Commanded!Prepare
    <3>2. Full(jobs'[c]) /\ jobs'[c].at = "verify"
      BY <1>1, <2>1, <3>1, PointsAre
    <3> QED
      BY <3>2 DEF JobTyped
  <2> QED
    BY <1>3, <1>9, <2>1 DEF Commanded!Prepare
<1>10. CASE Commanded!Exec(c) \/ Commanded!SelfUpdate(c) \/ Commanded!Ends(c)
  BY <1>3, <1>10 DEF Commanded!Exec, Commanded!SelfUpdate, Commanded!Ends
<1>11. CASE Commanded!RuntimeStop(c) \/ Commanded!ReadStatus(c)
  <2>1. jobs[c].at \in {"ask", "connect"}
    BY <1>11 DEF Commanded!RuntimeStop, Commanded!ReadStatus
  <2>2. ASSUME Commanded!Goto(c, "look") PROVE JobTyped(jobs'[c])
    BY <1>1, <2>1, <2>2, PointsAre DEF Commanded!Goto, JobTyped, Commanded!Idle
  <2> QED
    BY <1>3, <1>11, <2>2 DEF Commanded!RuntimeStop, Commanded!ReadStatus
<1>12. CASE Commanded!LookForMarker(c)
  <2> DEFINE i == jobs[c].seen + 1
  <2>1. jobs[c].at = "look"
    BY <1>12 DEF Commanded!LookForMarker
  <2>2. CASE Markers[i] \in markers
    BY <1>4, <1>12, <2>1, <2>2 DEF Commanded!LookForMarker
  <2>3. CASE Markers[i] \notin markers
    <3>1. PICK a \in {"look", "lock"} :
             /\ jobs' = [jobs EXCEPT ![c].seen = i, ![c].at = a]
             /\ a = "look" => i # Len(Markers)
      BY <1>12, <2>3 DEF Commanded!LookForMarker
    <3>2. Full(jobs[c]) /\ jobs[c].seen < Len(Markers)
      BY <1>1, <2>1 DEF JobTyped, Commanded!Idle
    <3>3. i \in 1..Len(Markers)
      BY <3>2
    <3> HIDE DEF i
    <3>4. Full(jobs'[c]) /\ jobs'[c].at = a /\ jobs'[c].seen = i
      <4>1. a \in Commanded!Points /\ i \in 0..Len(Markers)
        BY <3>1, <3>3, PointsAre
      <4>2. jobs[c] \in Jobs
        BY <1>1
      <4> QED
        BY <1>1, <3>1, <3>2, <4>1, <4>2
    <3> QED
      BY <3>1, <3>3, <3>4 DEF JobTyped
  <2> QED
    BY <2>2, <2>3
<1>13. CASE Commanded!TryLock(c) \/ Commanded!Unlock(c)
  BY <1>2, <1>4, <1>13, PointsAre DEF Commanded!TryLock, Commanded!Unlock
<1> QED
  BY <1>5, <1>6, <1>7, <1>8, <1>9, <1>10, <1>11, <1>12, <1>13 DEF StepOf

LEMMA FilesTyped ==
    ASSUME LaunchTyped, NEW c \in Commands, StepOf(c)
    PROVE  /\ manifest' \in Commanded!Contents \cup {None}
           /\ temp' \in Commanded!Contents \cup {None}
           /\ open' \in [Commands -> {"temp", "manifest", None}]
           /\ complete' \subseteq Editions
<1> USE DEF LaunchTyped, Commanded!TypeOK, Commanded!Contents
<1>1. CASE Commanded!Clear(c) \/ Commanded!Create(c) \/ Commanded!Ends(c)
  BY <1>1 DEF Commanded!Clear, Commanded!Create, Commanded!Ends
<1>2. CASE Commanded!WriteManifest(c)
  <2>1. jobs[c].edition \in Editions
    BY <1>2 DEF Commanded!WriteManifest, JobTyped, Commanded!Idle
  <2>2. \A old : Commanded!Filled(c, old) \subseteq Commanded!Contents
    BY <2>1 DEF Commanded!Filled
  <2> QED
    BY <1>2, <2>2 DEF Commanded!WriteManifest
<1>3. CASE Commanded!Rename(c)
  BY <1>3 DEF Commanded!Rename, Commanded!files
<1>4. CASE Commanded!SelfUpdate(c)
  BY <1>4 DEF Commanded!SelfUpdate, Commanded!files
<1> QED
  BY <1>1, <1>2, <1>3, <1>4
     DEF StepOf, Commanded!Start, Commanded!Verify, Commanded!Compare, Commanded!Prepare,
         Commanded!Exec, Commanded!RuntimeStop, Commanded!ReadStatus,
         Commanded!LookForMarker, Commanded!TryLock, Commanded!Unlock, Commanded!files

LEMMA LaunchTypedKept ==
    ASSUME Len(Markers) \in Nat \ {0}, LaunchTyped, [Commanded!Next]_(Commanded!vars)
    PROVE  LaunchTyped'
<1>1. CASE UNCHANGED Commanded!vars
  BY <1>1 DEF Commanded!vars, LaunchTyped, Commanded!TypeOK, JobsOK
<1>2. ASSUME NEW c \in Commands, StepOf(c)
      PROVE  LaunchTyped'
  <2>1. JobsOK' /\ \A d \in Commands \ {c} : jobs'[d] = jobs[d]
    BY <1>2, OneMoves DEF LaunchTyped
  <2>2. \A d \in Commands : JobTyped(jobs'[d])
    BY <1>2, <2>1, JobsTyped DEF LaunchTyped
  <2>3. daemon' \in {"down", "up", "closing"} /\ lock' \in Commands \cup {Commanded!Daemon, None}
    BY <1>2 DEF LaunchTyped, Commanded!TypeOK, StepOf, Commanded!Start, Commanded!Verify,
       Commanded!Compare, Commanded!Clear, Commanded!Create, Commanded!WriteManifest,
       Commanded!Rename, Commanded!Prepare, Commanded!Exec, Commanded!DaemonStarts,
       Commanded!RuntimeStop, Commanded!ReadStatus, Commanded!LookForMarker,
       Commanded!TryLock, Commanded!Unlock, Commanded!SelfUpdate, Commanded!Ends,
       Commanded!runtime
  <2> QED
    BY <1>2, <2>1, <2>2, <2>3, FilesTyped DEF LaunchTyped, Commanded!TypeOK, JobTyped
<1>3. CASE Commanded!DaemonMarks \/ Commanded!DaemonCloses
  BY <1>3 DEF Commanded!DaemonMarks, Commanded!DaemonCloses, Commanded!files, LaunchTyped,
     Commanded!TypeOK, JobsOK
<1> QED
  BY <1>1, <1>2, <1>3 DEF Commanded!Next, Commanded!Step, StepOf

\* Wherever processes are killed, confirm_stopped looks at no marker past the last.
THEOREM LaunchIsTyped ==
    ASSUME Len(Markers) \in Nat \ {0} PROVE Commanded!Spec => []Commanded!TypeOK
<1>1. Commanded!Init => LaunchTyped
  BY PointsAre DEF Commanded!Init, LaunchTyped, JobsOK, Jobs, JobTyped, Commanded!TypeOK,
     Commanded!Idle
<1>2. LaunchTyped => Commanded!TypeOK
  BY DEF LaunchTyped
<1> QED
  BY <1>1, <1>2, LaunchTypedKept, PTL DEF Commanded!Spec
=============================================================================
