----------------------------- MODULE ReplyProofs -----------------------------
(***************************************************************************)
(* Theorems of the components a prompt's history and its reply go through: *)
(* the streams of the LLM providers, the context engine, the CLI proxy and *)
(* the providers' catalogs, one section each.  What MCCapsules checks on a *)
(* small instance, proved for every instance.                              *)
(***************************************************************************)
EXTENDS ReplyInstances, Positions, FiniteSets, FiniteSetTheorems, SequencesExt

-----------------------------------------------------------------------------
(* ProviderStream: what react makes of a list of events *)

Runs(f, g, events) ==
    f = [k \in 0..Len(events) |->
           IF k = 0 THEN g ELSE Streams!HandleLlmStream(f[k - 1], events[k])]

LEMMA AssembleIsARun ==
    ASSUME NEW g, NEW events, NEW f, Runs(f, g, events)
    PROVE  \E h : Runs(h, g, events) /\ Streams!Assemble(g, events) = h[Len(events)]
<1> DEFINE R(h) == Runs(h, g, events)
<1>1. Streams!Assemble(g, events) = (CHOOSE h : R(h))[Len(events)]
  BY Zenon DEF Streams!Assemble, Runs
<1>2. R(f)
  OBVIOUS
<1> HIDE DEF R
<1>3. R(CHOOSE h : R(h))
  BY <1>2
<1> QED
  BY <1>1, <1>3 DEF R

LEMMA AssembleNothing ==
    ASSUME NEW g
    PROVE  Streams!Assemble(g, <<>>) = g
<1> DEFINE f == [k \in 0..0 |-> g]
<1>1. Len(<<>>) = 0
  OBVIOUS
<1>2. Runs(f, g, <<>>)
  BY <1>1 DEF Runs
<1>3. PICK h : Runs(h, g, <<>>) /\ Streams!Assemble(g, <<>>) = h[0]
  BY <1>1, <1>2, AssembleIsARun
<1> QED
  BY <1>1, <1>3 DEF Runs

LEMMA AssembleOne ==
    ASSUME NEW g, NEW e
    PROVE  Streams!Assemble(g, <<e>>) = Streams!HandleLlmStream(g, e)
<1> DEFINE f == [k \in 0..1 |-> IF k = 0 THEN g ELSE Streams!HandleLlmStream(g, e)]
<1>1. Len(<<e>>) = 1 /\ <<e>>[1] = e
  OBVIOUS
<1>2. Runs(f, g, <<e>>)
  <2>1. \A k \in 0..1 : k = 0 \/ (k = 1 /\ k - 1 = 0)
    OBVIOUS
  <2> QED
    BY <1>1, <2>1 DEF Runs
<1> HIDE DEF f
<1>3. PICK h : Runs(h, g, <<e>>) /\ Streams!Assemble(g, <<e>>) = h[1]
  BY <1>1, <1>2, AssembleIsARun
<1>4. h[0] = g /\ h[1] = Streams!HandleLlmStream(h[0], e)
  BY <1>1, <1>3 DEF Runs
<1> QED
  BY <1>3, <1>4

LEMMA AssembleTwo ==
    ASSUME NEW g, NEW d, NEW e
    PROVE  Streams!Assemble(g, <<d, e>>)
              = Streams!HandleLlmStream(Streams!HandleLlmStream(g, d), e)
<1> DEFINE once == Streams!HandleLlmStream(g, d)
           twice == Streams!HandleLlmStream(once, e)
           f == [k \in 0..2 |-> IF k = 0 THEN g ELSE IF k = 1 THEN once ELSE twice]
<1>1. Len(<<d, e>>) = 2 /\ <<d, e>>[1] = d /\ <<d, e>>[2] = e
  OBVIOUS
<1>2. Runs(f, g, <<d, e>>)
  <2>1. \A k \in 0..2 : k = 0 \/ (k = 1 /\ k - 1 = 0) \/ (k = 2 /\ k - 1 = 1)
    OBVIOUS
  <2> HIDE DEF once, twice
  <2>2. f[0] = g /\ f[1] = once /\ f[2] = twice
    OBVIOUS
  <2>3. f[1] = Streams!HandleLlmStream(f[0], d) /\ f[2] = Streams!HandleLlmStream(f[1], e)
    BY <2>2 DEF once, twice
  <2>4. f = [k \in 0..2 |-> f[k]]
    OBVIOUS
  <2> HIDE DEF f
  <2> QED
    BY <1>1, <2>1, <2>2, <2>3, <2>4 DEF Runs
<1> HIDE DEF f
<1>3. PICK h : Runs(h, g, <<d, e>>) /\ Streams!Assemble(g, <<d, e>>) = h[2]
  BY <1>1, <1>2, AssembleIsARun
<1>4. /\ h[0] = g /\ h[1] = Streams!HandleLlmStream(h[0], d)
      /\ h[2] = Streams!HandleLlmStream(h[1], e)
  <2>1. h = [k \in 0..2 |-> IF k = 0 THEN g
                            ELSE Streams!HandleLlmStream(h[k - 1], <<d, e>>[k])]
    BY <1>1, <1>3 DEF Runs
  <2>2. 0 \in 0..2 /\ 1 \in 0..2 /\ 2 \in 0..2 /\ 1 - 1 = 0 /\ 2 - 1 = 1 /\ 1 # 0 /\ 2 # 0
    OBVIOUS
  <2> QED
    BY <1>1, <2>1, <2>2
<1> QED
  BY <1>3, <1>4

-----------------------------------------------------------------------------
(* ProviderStream: what react holds *)

Ids == {Streams!CallId(i) : i \in Nat}
Calls == [id : Ids, args : Seq(Nat), complete : BOOLEAN]
Gots == [text : Seq(Nat), tools : Seq(Calls), outcome : {"open", "done", "error"}]

\* As much of it as a reply is judged by.
Same(g, h) ==
    /\ h \in Gots /\ h.text = g.text /\ h.outcome = g.outcome
    /\ Len(h.tools) = Len(g.tools)
    /\ \A k \in DOMAIN g.tools : /\ h.tools[k].id = g.tools[k].id
                                 /\ h.tools[k].args = g.tools[k].args

LEMMA CallIdsDiffer ==
    ASSUME NEW i, NEW j
    PROVE  /\ Streams!CallId(i) = Streams!CallId(j) => i = j
           /\ Streams!CallId(i) # Streams!ItemId(j)
  BY DEF Streams!CallId, Streams!ItemId

LEMMA HitIsFirst ==
    ASSUME NEW S, NEW tools \in Seq(S), NEW id, Streams!Hits(tools, id) # {}
    PROVE  /\ Streams!FirstHit(tools, id) \in DOMAIN tools
           /\ tools[Streams!FirstHit(tools, id)].id = id
<1> DEFINE K == Streams!Hits(tools, id)
<1>1. K \subseteq Nat /\ K # {}
  BY DEF Streams!Hits
<1>2. \E k \in K : \A other \in K : k <= other
  <2> HIDE DEF K
  <2> QED
    BY <1>1, FirstPosition
<1>3. Streams!FirstHit(tools, id) \in K
  BY <1>2 DEF Streams!FirstHit
<1> QED
  BY <1>3 DEF Streams!Hits

LEMMA HandleEnd ==
    ASSUME NEW g \in Gots, g.outcome = "open", NEW e, e.kind = "end"
    PROVE  Same(g, Streams!HandleLlmStream(g, e))
<1>1. CASE Streams!Hits(g.tools, e.id) = {}
  <2>1. Streams!HandleLlmStream(g, e) = g
    BY <1>1 DEF Streams!HandleLlmStream
  <2> QED
    BY <2>1 DEF Same
<1>2. CASE Streams!Hits(g.tools, e.id) # {}
  <2>1. PICK k : k = Streams!FirstHit(g.tools, e.id)
    OBVIOUS
  <2>2. k \in DOMAIN g.tools /\ g.tools \in Seq(Calls)
    BY <1>2, <2>1, HitIsFirst DEF Gots
  <2>3. Streams!HandleLlmStream(g, e) = [g EXCEPT !.tools[k].complete = TRUE]
    BY <1>2, <2>1 DEF Streams!HandleLlmStream
  <2>4. PICK tools : tools = [g.tools EXCEPT ![k].complete = TRUE]
    OBVIOUS
  <2>5. /\ tools \in Seq(Calls) /\ Len(tools) = Len(g.tools)
        /\ \A m \in DOMAIN g.tools : tools[m].id = g.tools[m].id /\ tools[m].args = g.tools[m].args
    <3>1. PICK c : c = [g.tools[k] EXCEPT !.complete = TRUE]
      OBVIOUS
    <3>2. g.tools[k] \in Calls
      BY <2>2
    <3>3. c \in Calls /\ c.id = g.tools[k].id /\ c.args = g.tools[k].args
      BY <3>1, <3>2 DEF Calls
    <3>4. tools = [g.tools EXCEPT ![k] = c]
      BY <2>4, <3>1
    <3> QED
      BY <2>2, <3>3, <3>4
  <2>6. Streams!HandleLlmStream(g, e) = [g EXCEPT !.tools = tools]
    BY <2>3, <2>4
  <2> QED
    BY <2>5, <2>6 DEF Same, Gots
<1> QED
  BY <1>1, <1>2

\* The ends of calls, however many, leave what the calls hold.
LEMMA AssembleEnds ==
    ASSUME NEW g \in Gots, g.outcome = "open", NEW n \in Nat, NEW events,
           Len(events) = n, \A k \in 1..n : events[k].kind = "end"
    PROVE  Same(g, Streams!Assemble(g, events))
<1> DEFINE V == {h \in Gots : Same(g, h)}
           step == [k \in 1..n |-> [h \in V |-> Streams!HandleLlmStream(h, events[k])]]
<1>1. g \in V
  BY DEF Same
<1>2. ASSUME NEW k \in 1..n, NEW h \in V
      PROVE  Streams!HandleLlmStream(h, events[k]) \in V
  <2>1. PICK next : next = Streams!HandleLlmStream(h, events[k])
    OBVIOUS
  <2>2. h \in Gots /\ h.outcome = "open" /\ Same(g, h)
    BY DEF Same
  <2>3. Same(h, next)
    BY <2>1, <2>2, HandleEnd
  <2>4. DOMAIN h.tools = DOMAIN g.tools
    BY <2>2 DEF Same, Gots
  <2>5. Same(g, next)
    BY <2>2, <2>3, <2>4 DEF Same
  <2> QED
    BY <2>1, <2>5 DEF Same
<1>3. step \in [1..n -> [V -> V]]
  BY <1>2
<1>4. PICK f \in [0..n -> V] : f[0] = g /\ \A k \in 1..n : f[k] = step[k][f[k - 1]]
  <2> HIDE DEF V, step
  <2>1. Recursive(n, V, g, step)
    BY <1>1, <1>3, RecursionExists
  <2> QED
    BY <2>1 DEF Recursive
<1>5. \A k \in 1..n : f[k] = Streams!HandleLlmStream(f[k - 1], events[k])
  <2>1. \A k \in 1..n : f[k - 1] \in V
    <3> HIDE DEF V, step
    <3> QED
      BY <1>4
  <2> HIDE DEF V
  <2> QED
    BY <1>4, <2>1
<1>6. Runs(f, g, events)
  <2> HIDE DEF V, step
  <2>1. f = [k \in 0..n |-> f[k]]
    BY <1>4
  <2>2. \A k \in 0..n : f[k] = IF k = 0 THEN g ELSE Streams!HandleLlmStream(f[k - 1], events[k])
    <3> TAKE k \in 0..n
    <3>1. CASE k = 0
      BY <1>4, <3>1
    <3>2. CASE k # 0
      <4>1. k \in 1..n
        BY <3>2
      <4> QED
        BY <1>5, <3>2, <4>1
    <3> QED
      BY <3>1, <3>2
  <2> QED
    BY <2>1, <2>2, Zenon DEF Runs
<1>7. PICK h : Runs(h, g, events) /\ Streams!Assemble(g, events) = h[n]
  BY <1>6, AssembleIsARun
<1>8. h[0] = g /\ \A k \in 1..n : h[k] = Streams!HandleLlmStream(h[k - 1], events[k])
  BY <1>7 DEF Runs
<1> DEFINE Good == {k \in 0..n : h[k] \in V}
<1>9. \A k \in 0..n : k \in Good
  <2>1. 0 \in Good
    BY <1>1, <1>8
  <2>2. \A k \in 1..n : k - 1 \in Good => k \in Good
    <3> HIDE DEF V
    <3> QED
      BY <1>2, <1>8
  <2> HIDE DEF Good
  <2> QED
    BY <2>1, <2>2, AlongPositions
<1>10. n \in 0..n
  OBVIOUS
<1> QED
  BY <1>7, <1>9, <1>10

\* After the last event of a reply nothing changes.
LEMMA ClosedStays ==
    ASSUME NEW g, g.outcome # "open", NEW n \in Nat, NEW events, Len(events) = n
    PROVE  Streams!Assemble(g, events) = g
<1> DEFINE f == [k \in 0..n |-> g]
<1>1. \A e : Streams!HandleLlmStream(g, e) = g
  BY DEF Streams!HandleLlmStream
<1>2. Runs(f, g, events)
  BY <1>1 DEF Runs
<1>3. PICK h : Runs(h, g, events) /\ Streams!Assemble(g, events) = h[n]
  BY <1>2, AssembleIsARun
<1>4. h[0] = g /\ \A k \in 1..n : h[k] = Streams!HandleLlmStream(h[k - 1], events[k])
  BY <1>3 DEF Runs
<1> DEFINE Good == {k \in 0..n : h[k] = g}
<1>5. \A k \in 0..n : k \in Good
  <2>1. 0 \in Good
    BY <1>4
  <2>2. \A k \in 1..n : k - 1 \in Good => k \in Good
    BY <1>1, <1>4
  <2> HIDE DEF Good
  <2> QED
    BY <2>1, <2>2, AlongPositions
<1>6. n \in 0..n
  OBVIOUS
<1> QED
  BY <1>3, <1>5, <1>6

\* The calls that got an id are a list.
LEMMA NamedIsAList ==
    ASSUME NEW S, NEW ids \in Seq(S)
    PROVE  Streams!Named(ids) \in Seq(S)
<1> DEFINE n == Len(ids)
           Next(k, upto) == IF ids[k] = NoPiece THEN upto ELSE Append(upto, ids[k])
           step == [k \in 1..n |-> [upto \in Seq(S) |-> Next(k, upto)]]
           Is(f) == f = [k \in 0..n |->
                           IF k = 0 THEN <<>>
                           ELSE Next(k, f[k - 1])]
<1>1. <<>> \in Seq(S) /\ n \in Nat
  OBVIOUS
<1>2. /\ step \in [1..n -> [Seq(S) -> Seq(S)]]
      /\ \A k \in 1..n, upto \in Seq(S) : Next(k, upto) \in Seq(S)
      /\ \A k \in 1..n, upto \in Seq(S) : step[k][upto] = Next(k, upto)
  OBVIOUS
<1>3. PICK f \in [0..n -> Seq(S)] : f[0] = <<>> /\ \A k \in 1..n : f[k] = step[k][f[k - 1]]
  <2> HIDE DEF step, n
  <2>1. Recursive(n, Seq(S), <<>>, step)
    BY <1>1, <1>2, RecursionExists
  <2> QED
    BY <2>1 DEF Recursive
<1>4. Is(f)
  <2> HIDE DEF Next, step, n
  <2>1. f = [k \in 0..n |-> f[k]]
    BY <1>3
  <2>2. \A k \in 1..n : f[k - 1] \in Seq(S)
    BY <1>1, <1>3
  <2>3. \A k \in 1..n : f[k] = Next(k, f[k - 1])
    BY <1>2, <1>3, <2>2
  <2>4. \A k \in 0..n : f[k] = IF k = 0 THEN <<>> ELSE Next(k, f[k - 1])
    BY <1>1, <1>3, <2>3
  <2> QED
    BY <2>1, <2>4, Zenon
<1>5. Streams!Named(ids) = (CHOOSE h : Is(h))[n]
  BY Zenon DEF Streams!Named
<1>6. PICK h : Is(h) /\ Streams!Named(ids) = h[n]
  <2> HIDE DEF Is
  <2>1. Is(CHOOSE h : Is(h))
    BY <1>4
  <2> QED
    BY <1>5, <2>1
<1> DEFINE Good == {k \in 0..n : h[k] \in Seq(S)}
<1>7. \A k \in 0..n : k \in Good
  <2>1. 0 \in Good
    BY <1>6
  <2>2. \A k \in 1..n : h[k] = Next(k, h[k - 1])
    <3> HIDE DEF Next, step, n
    <3> QED
      BY <1>1, <1>6
  <2>3. \A k \in 1..n : k - 1 \in Good => k \in Good
    <3> HIDE DEF Next, step, n
    <3> SUFFICES ASSUME NEW k \in 1..n, h[k - 1] \in Seq(S)
                 PROVE  k \in 0..n /\ h[k] \in Seq(S)
      OBVIOUS
    <3>1. h[k] = Next(k, h[k - 1])
      BY <2>2
    <3>2. Next(k, h[k - 1]) \in Seq(S)
      BY <1>2
    <3>3. k \in 0..n
      BY <1>1
    <3> QED
      BY <3>1, <3>2, <3>3
  <2> HIDE DEF Good, n
  <2> QED
    BY <1>1, <2>1, <2>3, AlongPositions
<1>8. n \in 0..n
  BY <1>1
<1> QED
  BY <1>6, <1>7, <1>8

-----------------------------------------------------------------------------
(* ProviderStream: a reply is read as it was written *)

Writings == [texts : Nat, pieces : Seq(Nat), ended : SUBSET Nat,
             stage : {"talking", "finished", "closed", "failed"}]
Lines ==
    [kind : {"text"}, piece : Nat]
    \cup [kind : {"tool"}, index : Nat, named : BOOLEAN, piece : Seq(Nat)]
    \cup [kind : {"tool_done"}, index : Nat]
    \cup [kind : {"finish"}, reason : {"tool_calls", "other"}]
    \cup [kind : {"done", "failed", "broken"}]

\* What a line adds to what was written, in dialect d.
WroteText(a, line, b) ==
    line.kind = "text" /\ line.piece = a.texts + 1 /\ b = [a EXCEPT !.texts = a.texts + 1]
WroteTool(d, a, line, b) ==
    /\ line.kind = "tool" /\ line.named /\ line.index = Len(a.pieces)
    /\ line.piece = <<>> \/ (d = "chat" /\ line.piece = <<1>>)
    /\ b = [a EXCEPT !.pieces = Append(a.pieces, IF line.piece = <<>> THEN 0 ELSE 1)]
WrotePiece(a, line, b) ==
    /\ line.kind = "tool" /\ ~line.named /\ line.index \in Nat /\ line.index < Len(a.pieces)
    /\ line.piece = <<a.pieces[line.index + 1] + 1>>
    /\ b = [a EXCEPT !.pieces =
              [a.pieces EXCEPT ![line.index + 1] = a.pieces[line.index + 1] + 1]]
WroteToolDone(d, a, line, b) ==
    line.kind = "tool_done" /\ d = "responses" /\ b = [a EXCEPT !.ended = b.ended]
WroteFinish(d, a, line, b) ==
    line.kind = "finish" /\ d = "chat" /\ b = [a EXCEPT !.stage = "finished"]
WroteFailure(d, a, line, b) ==
    /\ (d = "responses" /\ line.kind = "failed") \/ (d = "chat" /\ line.kind = "broken")
    /\ b = [a EXCEPT !.stage = "failed"]
WroteDone(d, a, line, b) ==
    line.kind = "done" /\ b = [a EXCEPT !.stage = "closed"]

Wrote(d, a, line, b) ==
    \/ /\ a.stage = "talking"
       /\ \/ WroteText(a, line, b) \/ WroteTool(d, a, line, b) \/ WrotePiece(a, line, b)
          \/ WroteToolDone(d, a, line, b) \/ WroteFinish(d, a, line, b)
          \/ WroteFailure(d, a, line, b)
    \/ a.stage = (IF d = "chat" THEN "finished" ELSE "talking") /\ WroteDone(d, a, line, b)

\* What react holds and what the provider knows, when `a` is what was read.
FirstIds(n) == [k \in 1..n |-> Streams!CallId(k - 1)]
Holds(d, a, g, ids) ==
    /\ g \in Gots /\ g.text = Streams!Numbered(a.texts)
    /\ d = "chat" =>
          /\ Len(g.tools) = Len(a.pieces)
          /\ \A k \in 1..Len(a.pieces) : /\ g.tools[k].id = Streams!CallId(k - 1)
                                         /\ g.tools[k].args = Streams!Numbered(a.pieces[k])
          /\ a.stage = "talking" => ids = FirstIds(Len(a.pieces))

\* A line read, no chunk having cut a character of it.
Reading(d, line, ids) ==
    IF d = "chat" THEN Streams!ProcessChunk(line, ids, FALSE)
    ELSE [ids |-> ids, events |-> Streams!HandleEvent(line, FALSE)]

LEMMA NumberedGrows ==
    ASSUME NEW n \in Nat
    PROVE  /\ Streams!Numbered(n) \in Seq(Nat)
           /\ Append(Streams!Numbered(n), n + 1) = Streams!Numbered(n + 1)
  BY DEF Streams!Numbered

LEMMA ReadText ==
    ASSUME NEW d \in {"chat", "responses"}, NEW a \in Writings, NEW line, NEW b \in Writings,
           NEW g, NEW ids, Holds(d, a, g, ids), g.outcome = "open", WroteText(a, line, b),
           NEW r, r = Reading(d, line, ids), NEW h, h = Streams!Assemble(g, r.events)
    PROVE  h.outcome = "open" /\ Holds(d, b, h, r.ids)
<1> DEFINE e == Streams!Event("text", NoPiece, line.piece)
<1>1. r = [ids |-> ids, events |-> <<e>>]
  BY DEF Reading, Streams!ProcessChunk, Streams!HandleEvent, Streams!Text, WroteText
<1>2. h = Streams!HandleLlmStream(g, e)
  BY <1>1, AssembleOne
<1>3. h = [g EXCEPT !.text = Append(g.text, a.texts + 1)]
  BY <1>2 DEF Streams!HandleLlmStream, Streams!Event, WroteText
<1>5. a.texts \in Nat
  BY DEF Writings
<1>6. g \in Gots /\ g.text = Streams!Numbered(a.texts)
  BY DEF Holds
<1>7. h.text = Streams!Numbered(a.texts + 1) /\ h.text \in Seq(Nat)
  BY <1>3, <1>5, <1>6, NumberedGrows DEF Gots
<1>8. h \in Gots /\ h.tools = g.tools /\ h.outcome = g.outcome
  BY <1>3, <1>6, <1>7 DEF Gots
<1>9. b.texts = a.texts + 1 /\ b.pieces = a.pieces /\ b.stage = a.stage
  BY DEF WroteText, Writings
<1>10. Holds(d, b, h, ids)
  BY <1>7, <1>8, <1>9 DEF Holds
<1> HIDE DEF e
<1> QED
  BY <1>1, <1>8, <1>10

LEMMA HandleStart ==
    ASSUME NEW g \in Gots, g.outcome = "open", NEW i \in Nat, NEW piece,
           NEW h, h = Streams!HandleLlmStream(g, Streams!Event("start", Streams!CallId(i), piece))
    PROVE  /\ h \in Gots /\ h.text = g.text /\ h.outcome = "open"
           /\ Len(h.tools) = Len(g.tools) + 1
           /\ \A k \in DOMAIN g.tools : h.tools[k] = g.tools[k]
           /\ h.tools[Len(g.tools) + 1].id = Streams!CallId(i)
           /\ h.tools[Len(g.tools) + 1].args = <<>>
<1>1. PICK c : c = [id |-> Streams!CallId(i), args |-> <<>>, complete |-> FALSE]
  OBVIOUS
<1>2. c \in Calls /\ c.id = Streams!CallId(i) /\ c.args = <<>>
  <2>1. Streams!CallId(i) \in Ids /\ <<>> \in Seq(Nat)
    BY DEF Ids
  <2> QED
    BY <1>1, <2>1 DEF Calls
<1>3. h = [g EXCEPT !.tools = Append(g.tools, c)]
  BY <1>1 DEF Streams!HandleLlmStream, Streams!Event
<1>4. g.tools \in Seq(Calls)
  BY DEF Gots
<1>5. PICK tools : tools = Append(g.tools, c)
  OBVIOUS
<1>6. /\ tools \in Seq(Calls) /\ Len(tools) = Len(g.tools) + 1
      /\ \A k \in DOMAIN g.tools : tools[k] = g.tools[k]
      /\ tools[Len(g.tools) + 1] = c
  BY <1>2, <1>4, <1>5
<1>7. h = [g EXCEPT !.tools = tools]
  BY <1>3, <1>5
<1>8. h \in Gots /\ h.text = g.text /\ h.outcome = "open" /\ h.tools = tools
  BY <1>6, <1>7 DEF Gots
<1> QED
  BY <1>2, <1>6, <1>8

\* A piece under a call's id is added to that call.
Added(g, h, k, piece) ==
    /\ h \in Gots /\ h.text = g.text /\ h.outcome = "open"
    /\ Len(h.tools) = Len(g.tools)
    /\ \A m \in DOMAIN g.tools :
          /\ h.tools[m].id = g.tools[m].id
          /\ h.tools[m].args = IF m = k THEN Append(g.tools[m].args, piece)
                               ELSE g.tools[m].args

LEMMA HandleDelta ==
    ASSUME NEW g \in Gots, g.outcome = "open",
           \A m \in DOMAIN g.tools : g.tools[m].id = Streams!CallId(m - 1),
           NEW k \in DOMAIN g.tools, NEW piece \in Nat,
           NEW h, h = Streams!HandleLlmStream(g, Streams!Event("delta", Streams!CallId(k - 1), piece))
    PROVE  Added(g, h, k, piece)
<1> DEFINE e == Streams!Event("delta", Streams!CallId(k - 1), piece)
<1>1. e.kind = "delta" /\ e.id = Streams!CallId(k - 1) /\ e.piece = piece
  BY DEF Streams!Event
<1>2. g.tools \in Seq(Calls) /\ k \in Nat
  BY DEF Gots
<1>3. k \in Streams!Hits(g.tools, e.id)
  BY <1>1 DEF Streams!Hits
<1> HIDE DEF e
<1>4. PICK m : m = Streams!FirstHit(g.tools, e.id)
  OBVIOUS
<1>5. m \in DOMAIN g.tools /\ g.tools[m].id = Streams!CallId(k - 1)
  BY <1>1, <1>2, <1>3, <1>4, HitIsFirst
<1>6. m = k
  <2>1. m - 1 = k - 1
    BY <1>5, CallIdsDiffer
  <2> QED
    BY <1>2, <1>5, <2>1
<1>7. h = [g EXCEPT !.tools[k].args = Append(g.tools[k].args, piece)]
  <2>1. h = Streams!HandleLlmStream(g, e)
    BY DEF e
  <2> QED
    BY <1>1, <1>3, <1>4, <1>6, <2>1 DEF Streams!HandleLlmStream
<1>8. PICK c : c = [g.tools[k] EXCEPT !.args = Append(g.tools[k].args, piece)]
  OBVIOUS
<1>9. g.tools[k] \in Calls
  BY <1>2
<1>10. c \in Calls /\ c.id = g.tools[k].id /\ c.args = Append(g.tools[k].args, piece)
  <2>1. Append(g.tools[k].args, piece) \in Seq(Nat)
    BY <1>9 DEF Calls
  <2> QED
    BY <1>8, <1>9, <2>1 DEF Calls
<1>11. PICK tools : tools = [g.tools EXCEPT ![k] = c]
  OBVIOUS
<1>12. /\ tools \in Seq(Calls) /\ Len(tools) = Len(g.tools)
       /\ \A j \in DOMAIN g.tools : tools[j] = IF j = k THEN c ELSE g.tools[j]
  BY <1>2, <1>10, <1>11
<1>13. h = [g EXCEPT !.tools = tools]
  BY <1>7, <1>8, <1>11
<1>14. h \in Gots /\ h.text = g.text /\ h.outcome = "open" /\ h.tools = tools
  BY <1>12, <1>13 DEF Gots
<1> QED
  BY <1>10, <1>12, <1>14 DEF Added

\* No call has an item id.
LEMMA HandleAstray ==
    ASSUME NEW g \in Gots, NEW e, e.kind \in {"delta", "end"}, NEW i, e.id = Streams!ItemId(i)
    PROVE  Streams!HandleLlmStream(g, e) = g
<1>1. ASSUME NEW k \in DOMAIN g.tools
      PROVE  g.tools[k].id # e.id
  <2>1. g.tools[k] \in Calls
    BY DEF Gots
  <2>2. g.tools[k].id \in Ids
    BY <2>1 DEF Calls
  <2> QED
    BY <2>2, CallIdsDiffer DEF Ids
<1>2. Streams!Hits(g.tools, e.id) = {}
  BY <1>1 DEF Streams!Hits
<1> QED
  BY <1>2 DEF Streams!HandleLlmStream

\* The provider comes to know the id of the call a line announces, and no other.
LEMMA KnownGrows ==
    ASSUME NEW n \in Nat, NEW line, line.index = n, line.kind = "tool", line.named
    PROVE  Streams!ProcessChunk(line, FirstIds(n), FALSE)
             = [ids |-> FirstIds(n + 1),
                events |-> <<Streams!Event("start", Streams!CallId(n), Streams!Garbled)>> \o
                  [k \in DOMAIN line.piece |->
                      Streams!Event("delta", Streams!CallId(n), line.piece[k])]]
<1> DEFINE grown == [k \in 1..(IF Len(FirstIds(n)) <= line.index THEN line.index + 1
                                ELSE Len(FirstIds(n)))
                       |-> IF k <= Len(FirstIds(n)) THEN FirstIds(n)[k] ELSE NoPiece]
           known == [grown EXCEPT ![line.index + 1] = Streams!CallId(line.index)]
<1>1. Len(FirstIds(n)) = n
  BY DEF FirstIds
<1>2. known = FirstIds(n + 1)
  <2>1. grown = [k \in 1..(n + 1) |-> IF k <= n THEN FirstIds(n)[k] ELSE NoPiece]
    BY <1>1
  <2>2. \A k \in 1..(n + 1) : known[k] = Streams!CallId(k - 1)
    BY <2>1 DEF FirstIds
  <2>3. known = [k \in 1..(n + 1) |-> known[k]]
    BY <2>1
  <2> HIDE DEF known
  <2> QED
    BY <2>2, <2>3 DEF FirstIds
<1>3. known[line.index + 1] = Streams!CallId(n)
  BY <1>2 DEF FirstIds
<1>4. Streams!ProcessChunk(line, FirstIds(n), FALSE)
        = [ids |-> known,
           events |-> <<Streams!Event("start", known[line.index + 1], Streams!Garbled)>> \o
             [k \in DOMAIN line.piece |->
                 Streams!Event("delta", known[line.index + 1], line.piece[k])]]
  BY DEF Streams!ProcessChunk, Streams!Text
<1> HIDE DEF known
<1> QED
  BY <1>2, <1>3, <1>4

LEMMA Concatenated ==
    ASSUME NEW x, NEW y
    PROVE  /\ <<x>> \o [k \in DOMAIN <<>> |-> y] = <<x>>
           /\ <<>> \o [k \in DOMAIN <<1>> |-> y] = <<y>>
           /\ <<x>> \o [k \in DOMAIN <<1>> |-> y] = <<x, y>>
<1>1. [k \in DOMAIN <<>> |-> y] = <<>>
  OBVIOUS
<1>2. [k \in DOMAIN <<1>> |-> y] = <<y>>
  OBVIOUS
<1>3. PICK S : S = {x, y}
  OBVIOUS
<1>4. <<x>> \in Seq(S) /\ <<y>> \in Seq(S) /\ <<>> \in Seq(S) /\ <<x, y>> \in Seq(S)
  BY <1>3
<1>5. <<x>> \o <<>> = <<x>> /\ <<>> \o <<y>> = <<y>>
  BY <1>4
<1>6. <<x>> \o <<y>> = <<x, y>>
  <2>1. PICK u, v, s : u = <<x>> /\ v = <<y>> /\ s = u \o v
    OBVIOUS
  <2>2. u \in Seq(S) /\ v \in Seq(S) /\ Len(u) = 1 /\ Len(v) = 1 /\ u[1] = x /\ v[1] = y
    BY <1>4, <2>1
  <2>3. s \in Seq(S) /\ Len(s) = 2 /\ s[1] = x /\ s[2] = y
    BY <2>1, <2>2
  <2>4. PICK t : t = <<x, y>>
    OBVIOUS
  <2>5. t \in Seq(S) /\ Len(t) = 2 /\ t[1] = x /\ t[2] = y
    BY <1>4, <2>4
  <2>6. s = [i \in 1..2 |-> s[i]] /\ t = [i \in 1..2 |-> t[i]]
    BY <2>3, <2>5
  <2>7. \A i \in 1..2 : s[i] = t[i]
    BY <2>3, <2>5
  <2>8. s = t
    BY <2>6, <2>7
  <2> QED
    BY <2>1, <2>4, <2>8
<1> QED
  BY <1>1, <1>2, <1>5, <1>6, Zenon

\* The calls react holds, in the chat dialect, are those of `a`.
Tally(a, g) ==
    /\ Len(g.tools) = Len(a.pieces)
    /\ \A k \in 1..Len(a.pieces) : /\ g.tools[k].id = Streams!CallId(k - 1)
                                   /\ g.tools[k].args = Streams!Numbered(a.pieces[k])

LEMMA ReadTool ==
    ASSUME NEW a \in Writings, NEW line, NEW b \in Writings, a.stage = "talking",
           NEW g, NEW ids, Holds("chat", a, g, ids), g.outcome = "open",
           WroteTool("chat", a, line, b),
           NEW r, r = Reading("chat", line, ids), NEW h, h = Streams!Assemble(g, r.events)
    PROVE  h.outcome = "open" /\ Holds("chat", b, h, r.ids)
<1> DEFINE n == Len(a.pieces)
           start == Streams!Event("start", Streams!CallId(n), Streams!Garbled)
           delta == Streams!Event("delta", Streams!CallId(n), 1)
<1>1. n \in Nat /\ a.pieces \in Seq(Nat)
  BY DEF Writings
<1>2. g \in Gots /\ g.text = Streams!Numbered(a.texts) /\ Tally(a, g) /\ ids = FirstIds(n)
  BY DEF Holds, Tally
<1>3. r = [ids |-> FirstIds(n + 1),
           events |-> <<start>> \o
             [k \in DOMAIN line.piece |->
                 Streams!Event("delta", Streams!CallId(n), line.piece[k])]]
  BY <1>1, <1>2, KnownGrows DEF Reading, WroteTool
<1>4. PICK first : first = Streams!HandleLlmStream(g, start)
  OBVIOUS
<1>5. /\ first \in Gots /\ first.text = g.text /\ first.outcome = "open"
      /\ Len(first.tools) = n + 1
      /\ \A k \in 1..n : first.tools[k] = g.tools[k]
      /\ first.tools[n + 1].id = Streams!CallId(n) /\ first.tools[n + 1].args = <<>>
  <2>1. Len(g.tools) = n /\ DOMAIN g.tools = 1..n
    BY <1>1, <1>2 DEF Tally, Gots
  <2> QED
    BY <1>1, <1>2, <1>4, <2>1, HandleStart
<1>6. /\ b.texts = a.texts /\ b.stage = "talking" /\ Len(b.pieces) = n + 1
      /\ \A k \in 1..n : b.pieces[k] = a.pieces[k]
      /\ b.pieces[n + 1] = IF line.piece = <<>> THEN 0 ELSE 1
  BY <1>1 DEF WroteTool, Writings
<1>7. h \in Gots /\ h.text = g.text /\ h.outcome = "open" /\ Tally(b, h)
  <2>1. CASE line.piece = <<>>
    <3>1. r.events = <<start>>
      BY <1>3, <2>1, Concatenated
    <3>2. h = first
      BY <1>4, <3>1, AssembleOne
    <3>3. Streams!Numbered(0) = <<>>
      BY DEF Streams!Numbered
    <3>4. \A k \in 1..(n + 1) : /\ h.tools[k].id = Streams!CallId(k - 1)
                                /\ h.tools[k].args = Streams!Numbered(b.pieces[k])
      <4> TAKE k \in 1..(n + 1)
      <4>1. CASE k \in 1..n
        BY <1>2, <1>5, <1>6, <3>2, <4>1 DEF Tally
      <4>2. CASE k = n + 1
        <5>1. k - 1 = n
          BY <1>1, <4>2
        <5> QED
          BY <1>5, <1>6, <2>1, <3>2, <3>3, <4>2, <5>1
      <4> QED
        BY <1>1, <4>1, <4>2
    <3> QED
      BY <1>5, <1>6, <3>2, <3>4 DEF Tally
  <2>2. CASE line.piece = <<1>>
    <3>1. r.events = <<start, delta>>
      <4>1. [k \in DOMAIN line.piece |->
                 Streams!Event("delta", Streams!CallId(n), line.piece[k])]
              = [k \in DOMAIN <<1>> |-> delta]
        BY <2>2
      <4> HIDE DEF delta
      <4> QED
        BY <1>3, <4>1, Concatenated
    <3>2. h = Streams!HandleLlmStream(first, delta)
      <4> HIDE DEF start, delta
      <4> QED
        BY <1>4, <3>1, AssembleTwo
    <3>3. PICK k : k = n + 1
      OBVIOUS
    <3>4. /\ k \in DOMAIN first.tools /\ k - 1 = n /\ DOMAIN first.tools = 1..(n + 1)
          /\ \A m \in DOMAIN first.tools : first.tools[m].id = Streams!CallId(m - 1)
      <4>1. k \in DOMAIN first.tools /\ k - 1 = n /\ DOMAIN first.tools = 1..(n + 1)
        BY <1>1, <1>5, <3>3 DEF Gots
      <4>2. ASSUME NEW m \in 1..(n + 1)
            PROVE  first.tools[m].id = Streams!CallId(m - 1)
        <5>1. CASE m \in 1..n
          BY <1>2, <1>5, <5>1 DEF Tally
        <5>2. CASE m = k
          BY <1>5, <3>3, <4>1, <5>2
        <5> QED
          BY <1>1, <3>3, <5>1, <5>2
      <4> QED
        BY <4>1, <4>2
    <3>5. /\ h \in Gots /\ h.text = first.text /\ h.outcome = "open"
          /\ Len(h.tools) = Len(first.tools)
          /\ \A m \in DOMAIN first.tools :
                /\ h.tools[m].id = first.tools[m].id
                /\ h.tools[m].args = IF m = k THEN Append(first.tools[m].args, 1)
                                     ELSE first.tools[m].args
      <4>1. h = Streams!HandleLlmStream(first, Streams!Event("delta", Streams!CallId(k - 1), 1))
        BY <3>2, <3>4
      <4>2. 1 \in Nat /\ first \in Gots /\ first.outcome = "open"
        BY <1>5
      <4>3. \A m \in DOMAIN first.tools : first.tools[m].id = Streams!CallId(m - 1)
        BY <3>4
      <4>4. k \in DOMAIN first.tools
        BY <3>4
      <4> HIDE DEF delta, start
      <4>5. Added(first, h, k, 1)
        BY <4>1, <4>2, <4>3, <4>4, HandleDelta
      <4> QED
        BY <4>5 DEF Added
    <3>6. Append(<<>>, 1) = Streams!Numbered(1)
      BY DEF Streams!Numbered
    <3>7. \A m \in 1..(n + 1) : /\ h.tools[m].id = Streams!CallId(m - 1)
                                /\ h.tools[m].args = Streams!Numbered(b.pieces[m])
      <4> TAKE m \in 1..(n + 1)
      <4>1. h.tools[m].id = Streams!CallId(m - 1)
        BY <3>4, <3>5
      <4>2. CASE m \in 1..n
        <5>1. m # k
          BY <1>1, <3>3, <4>2
        <5>2. h.tools[m].args = g.tools[m].args
          BY <1>5, <3>4, <3>5, <4>2, <5>1
        <5> QED
          BY <1>2, <1>6, <4>1, <4>2, <5>2 DEF Tally
      <4>3. CASE m = n + 1
        <5>1. h.tools[m].args = Append(first.tools[m].args, 1)
          BY <3>3, <3>4, <3>5, <4>3
        <5>2. b.pieces[m] = 1
          BY <1>6, <2>2, <4>3
        <5> QED
          BY <1>5, <3>6, <4>1, <4>3, <5>1, <5>2
      <4> QED
        BY <1>1, <4>2, <4>3
    <3> QED
      BY <1>5, <1>6, <3>5, <3>7 DEF Tally
  <2> QED
    BY <2>1, <2>2 DEF WroteTool
<1>8. r.ids = FirstIds(Len(b.pieces))
  BY <1>3, <1>6
<1> QED
  BY <1>2, <1>6, <1>7, <1>8 DEF Holds, Tally

LEMMA ReadPiece ==
    ASSUME NEW a \in Writings, NEW line, NEW b \in Writings, a.stage = "talking",
           NEW g, NEW ids, Holds("chat", a, g, ids), g.outcome = "open",
           WrotePiece(a, line, b),
           NEW r, r = Reading("chat", line, ids), NEW h, h = Streams!Assemble(g, r.events)
    PROVE  h.outcome = "open" /\ Holds("chat", b, h, r.ids)
<1> DEFINE n == Len(a.pieces)
<1>1. n \in Nat /\ a.pieces \in Seq(Nat)
  BY DEF Writings
<1>2. g \in Gots /\ g.text = Streams!Numbered(a.texts) /\ Tally(a, g) /\ ids = FirstIds(n)
  BY DEF Holds, Tally
<1>3. PICK k : k = line.index + 1
  OBVIOUS
<1>4. PICK piece : piece = a.pieces[k] + 1
  OBVIOUS
<1>5. /\ k \in 1..n /\ k - 1 = line.index /\ piece \in Nat /\ line.piece = <<piece>>
      /\ line.kind = "tool" /\ ~line.named
  BY <1>1, <1>3, <1>4 DEF WrotePiece
<1> DEFINE delta == Streams!Event("delta", Streams!CallId(k - 1), piece)
           grown == [j \in 1..(IF Len(ids) <= line.index THEN line.index + 1 ELSE Len(ids))
                       |-> IF j <= Len(ids) THEN ids[j] ELSE NoPiece]
<1>6. grown = ids /\ ids[line.index + 1] = Streams!CallId(k - 1)
  <2>1. Len(ids) = n /\ ~(n <= line.index)
    BY <1>1, <1>2, <1>5 DEF FirstIds
  <2>2. grown = [j \in 1..n |-> ids[j]]
    BY <1>1, <2>1
  <2>3. ids = [j \in 1..n |-> ids[j]]
    BY <1>2 DEF FirstIds
  <2>4. ids[line.index + 1] = Streams!CallId(k - 1)
    BY <1>2, <1>3, <1>5 DEF FirstIds
  <2> HIDE DEF grown
  <2> QED
    BY <2>2, <2>3, <2>4
<1>7. r = [ids |-> ids, events |-> <<delta>>]
  <2>1. Streams!ProcessChunk(line, ids, FALSE)
          = [ids |-> grown,
             events |-> <<>> \o [j \in DOMAIN line.piece |->
               Streams!Event("delta", grown[line.index + 1], line.piece[j])]]
    BY <1>5 DEF Streams!ProcessChunk, Streams!Text
  <2>2. [j \in DOMAIN line.piece |->
               Streams!Event("delta", ids[line.index + 1], line.piece[j])]
          = [j \in DOMAIN <<1>> |-> delta]
    BY <1>5, <1>6
  <2> HIDE DEF grown, delta
  <2> QED
    BY <1>6, <2>1, <2>2, Concatenated DEF Reading
<1>8. h = Streams!HandleLlmStream(g, delta)
  BY <1>7, AssembleOne
<1>9. DOMAIN g.tools = 1..n /\ \A m \in 1..n : g.tools[m].id = Streams!CallId(m - 1)
  BY <1>1, <1>2 DEF Tally, Gots
<1>10. /\ h \in Gots /\ h.text = g.text /\ h.outcome = "open"
       /\ Len(h.tools) = n
       /\ \A m \in 1..n :
             /\ h.tools[m].id = g.tools[m].id
             /\ h.tools[m].args = IF m = k THEN Append(g.tools[m].args, piece)
                                  ELSE g.tools[m].args
  <2>1. Len(g.tools) = n
    BY <1>2 DEF Tally
  <2>2. /\ k \in DOMAIN g.tools /\ g \in Gots /\ piece \in Nat
        /\ \A m \in DOMAIN g.tools : g.tools[m].id = Streams!CallId(m - 1)
    BY <1>2, <1>5, <1>9
  <2>3. h = Streams!HandleLlmStream(g, Streams!Event("delta", Streams!CallId(k - 1), piece))
    BY <1>8
  <2>4. Added(g, h, k, piece)
    BY <2>2, <2>3, HandleDelta
  <2> QED
    BY <1>9, <2>1, <2>4 DEF Added
<1>11. /\ b.texts = a.texts /\ b.stage = "talking" /\ Len(b.pieces) = n
       /\ \A m \in 1..n : b.pieces[m] = IF m = k THEN piece ELSE a.pieces[m]
  BY <1>1, <1>3, <1>4 DEF WrotePiece, Writings
<1>12. Tally(b, h)
  <2>1. ASSUME NEW m \in 1..n
        PROVE  h.tools[m].args = Streams!Numbered(b.pieces[m])
    <3>1. CASE m = k
      <4>1. a.pieces[k] \in Nat
        BY <1>1, <1>5
      <4>2. g.tools[k].args = Streams!Numbered(a.pieces[k])
        BY <1>2, <1>5 DEF Tally
      <4> QED
        BY <1>4, <1>10, <1>11, <3>1, <4>1, <4>2, NumberedGrows
    <3>2. CASE m # k
      BY <1>2, <1>10, <1>11, <3>2 DEF Tally
    <3> QED
      BY <3>1, <3>2
  <2> QED
    BY <1>9, <1>10, <1>11, <2>1 DEF Tally
<1> QED
  BY <1>2, <1>7, <1>10, <1>11, <1>12 DEF Holds, Tally

\* What a line of the Responses dialect makes of the reply.
LEMMA ReadResponses ==
    ASSUME NEW a \in Writings, NEW line, NEW b \in Writings, a.stage = "talking",
           NEW g, NEW ids, Holds("responses", a, g, ids), g.outcome = "open",
           WroteTool("responses", a, line, b) \/ WrotePiece(a, line, b)
              \/ WroteToolDone("responses", a, line, b),
           NEW r, r = Reading("responses", line, ids), NEW h, h = Streams!Assemble(g, r.events)
    PROVE  h.outcome = "open" /\ Holds("responses", b, h, r.ids)
<1>1. g \in Gots /\ g.text = Streams!Numbered(a.texts) /\ b.texts = a.texts
  BY DEF Holds, Writings, WroteTool, WrotePiece, WroteToolDone
<1>2. h \in Gots /\ h.outcome = "open" /\ h.text = g.text
  <2>1. CASE WroteTool("responses", a, line, b)
    <3>1. line.index \in Nat
      BY <2>1 DEF WroteTool, Writings
    <3>2. PICK e : e = Streams!Event("start", Streams!CallId(line.index), Streams!Garbled)
      OBVIOUS
    <3>3. r.events = <<e>>
      BY <2>1, <3>2 DEF WroteTool, Reading, Streams!HandleEvent
    <3>4. h = Streams!HandleLlmStream(g, e)
      BY <3>3, AssembleOne
    <3> QED
      BY <1>1, <3>1, <3>2, <3>4, HandleStart
  <2>2. CASE WrotePiece(a, line, b)
    <3>1. PICK e : e = Streams!Event("delta", Streams!ItemId(line.index), line.piece[1])
      OBVIOUS
    <3>2. r.events = <<e>>
      BY <2>2, <3>1 DEF WrotePiece, Reading, Streams!HandleEvent, Streams!Text
    <3>3. h = Streams!HandleLlmStream(g, e)
      BY <3>2, AssembleOne
    <3>4. e.kind \in {"delta", "end"} /\ e.id = Streams!ItemId(line.index)
      BY <3>1 DEF Streams!Event
    <3> QED
      BY <1>1, <3>3, <3>4, HandleAstray
  <2>3. CASE WroteToolDone("responses", a, line, b)
    <3>1. PICK e : e = Streams!Event("end", Streams!ItemId(line.index), Streams!Garbled)
      OBVIOUS
    <3>2. r.events = <<e>>
      BY <2>3, <3>1 DEF WroteToolDone, Reading, Streams!HandleEvent
    <3>3. h = Streams!HandleLlmStream(g, e)
      BY <3>2, AssembleOne
    <3>4. e.kind \in {"delta", "end"} /\ e.id = Streams!ItemId(line.index)
      BY <3>1 DEF Streams!Event
    <3> QED
      BY <1>1, <3>3, <3>4, HandleAstray
  <2> QED
    BY <2>1, <2>2, <2>3
<1> QED
  BY <1>1, <1>2 DEF Holds

\* A finish line ends calls, and what they hold stays.
LEMMA ReadFinish ==
    ASSUME NEW a \in Writings, NEW line, NEW b \in Writings, a.stage = "talking",
           NEW g, NEW ids, Holds("chat", a, g, ids), g.outcome = "open",
           WroteFinish("chat", a, line, b),
           NEW r, r = Reading("chat", line, ids), NEW h, h = Streams!Assemble(g, r.events)
    PROVE  h.outcome = "open" /\ Holds("chat", b, h, r.ids)
<1>1. g \in Gots /\ g.text = Streams!Numbered(a.texts) /\ Tally(a, g) /\ ids = FirstIds(Len(a.pieces))
  BY DEF Holds, Tally
<1>2. b.texts = a.texts /\ b.pieces = a.pieces /\ b.stage = "finished"
  BY DEF WroteFinish, Writings
<1>3. Same(g, h)
  <2>1. CASE line.reason = "tool_calls"
    <3>1. PICK named : named = Streams!Named(ids)
      OBVIOUS
    <3>2. named \in Seq(Ids)
      <4>1. ids \in Seq(Ids)
        <5>1. Len(a.pieces) \in Nat
          BY DEF Writings
        <5>2. ids = [k \in 1..Len(a.pieces) |-> Streams!CallId(k - 1)]
          BY <1>1 DEF FirstIds
        <5>3. \A k \in 1..Len(a.pieces) : Streams!CallId(k - 1) \in Ids
          BY <5>1 DEF Ids
        <5> QED
          BY <5>1, <5>2, <5>3
      <4> QED
        BY <3>1, <4>1, NamedIsAList
    <3>3. PICK events : events = [k \in DOMAIN named |->
                                    Streams!Event("end", named[k], Streams!Garbled)]
      OBVIOUS
    <3>4. r.events = events
      BY <2>1, <3>1, <3>3 DEF WroteFinish, Reading, Streams!ProcessChunk
    <3>5. /\ Len(events) = Len(named) /\ Len(named) \in Nat
          /\ \A k \in 1..Len(named) : events[k].kind = "end"
      <4>1. Len(named) \in Nat /\ DOMAIN named = 1..Len(named)
        BY <3>2
      <4>2. \A e, p : Streams!Event("end", e, p).kind = "end"
        BY DEF Streams!Event
      <4>3. \A k \in 1..Len(named) : events[k].kind = "end"
        BY <3>3, <4>1, <4>2
      <4>4. Len(events) = Len(named)
        BY <3>3, <4>1
      <4> QED
        BY <4>1, <4>3, <4>4
    <3> QED
      BY <1>1, <3>4, <3>5, AssembleEnds
  <2>2. CASE line.reason # "tool_calls"
    <3>1. r.events = <<>>
      BY <2>2 DEF WroteFinish, Reading, Streams!ProcessChunk
    <3>2. h = g
      BY <3>1, AssembleNothing
    <3> QED
      BY <1>1, <3>2 DEF Same
  <2> QED
    BY <2>1, <2>2
<1>4. DOMAIN g.tools = 1..Len(a.pieces)
  BY <1>1 DEF Tally, Gots
<1>5. h \in Gots /\ h.text = g.text /\ h.outcome = "open" /\ Tally(b, h)
  BY <1>1, <1>2, <1>3, <1>4 DEF Same, Tally
<1> QED
  BY <1>1, <1>2, <1>5 DEF Holds, Tally

\* The last line settles the outcome and nothing else.
LEMMA ReadLast ==
    ASSUME NEW d \in {"chat", "responses"}, NEW a \in Writings, NEW line, NEW b \in Writings,
           NEW g, NEW ids, Holds(d, a, g, ids), g.outcome = "open",
           WroteDone(d, a, line, b) \/ WroteFailure(d, a, line, b),
           NEW r, r = Reading(d, line, ids), NEW h, h = Streams!Assemble(g, r.events)
    PROVE  IF line.kind = "done" THEN h.outcome = "done" /\ Holds(d, b, h, r.ids)
           ELSE h.outcome = "error"
<1>1. g \in Gots
  BY DEF Holds
<1>2. PICK e : e = Streams!Event(IF line.kind = "done" THEN "done" ELSE "error",
                                 NoPiece, Streams!Garbled)
  OBVIOUS
<1>3. r = [ids |-> ids, events |-> <<e>>]
  BY <1>2 DEF Reading, Streams!ProcessChunk, Streams!HandleEvent, WroteDone, WroteFailure
<1>4. h = Streams!HandleLlmStream(g, e)
  BY <1>3, AssembleOne
<1>5. h = [g EXCEPT !.outcome = IF line.kind = "done" THEN "done" ELSE "error"]
  BY <1>2, <1>4 DEF Streams!HandleLlmStream, Streams!Event
<1>6. h \in Gots /\ h.text = g.text /\ h.tools = g.tools
      /\ h.outcome = IF line.kind = "done" THEN "done" ELSE "error"
  BY <1>1, <1>5 DEF Gots
<1>7. CASE line.kind = "done"
  <2>1. b.texts = a.texts /\ b.pieces = a.pieces /\ b.stage = "closed"
    BY <1>7 DEF WroteDone, WroteFailure, Writings
  <2> QED
    BY <1>6, <1>7, <2>1 DEF Holds
<1> QED
  BY <1>6, <1>7

\* Any line: the reply stays what was written, until it fails.
LEMMA ReadAnyLine ==
    ASSUME NEW d \in {"chat", "responses"}, NEW a \in Writings, NEW line, NEW b \in Writings,
           NEW g, NEW ids, Holds(d, a, g, ids), g.outcome = "open", Wrote(d, a, line, b),
           NEW r, r = Reading(d, line, ids), NEW h, h = Streams!Assemble(g, r.events)
    PROVE  \/ h.outcome = "open" /\ Holds(d, b, h, r.ids)
           \/ h.outcome = "done" /\ Holds(d, b, h, r.ids) /\ b.stage = "closed"
           \/ h.outcome = "error"
<1>1. CASE WroteText(a, line, b)
  BY <1>1, ReadText
<1>2. CASE WroteDone(d, a, line, b) \/ WroteFailure(d, a, line, b)
  <2>1. line.kind = "done" => b.stage = "closed"
    BY <1>2 DEF WroteDone, WroteFailure, Writings
  <2> QED
    BY <1>2, <2>1, ReadLast
<1>3. CASE a.stage = "talking" /\ d = "chat"
           /\ (WroteTool(d, a, line, b) \/ WrotePiece(a, line, b) \/ WroteFinish(d, a, line, b))
  BY <1>3, ReadTool, ReadPiece, ReadFinish
<1>4. CASE a.stage = "talking" /\ d = "responses"
           /\ (WroteTool(d, a, line, b) \/ WrotePiece(a, line, b) \/ WroteToolDone(d, a, line, b))
  BY <1>4, ReadResponses
<1> QED
  BY <1>1, <1>2, <1>3, <1>4 DEF Wrote, WroteToolDone, WroteFinish

-----------------------------------------------------------------------------
(* ProviderStream: the lines between the upstream and the provider *)

\* How the reply came to be what is written, from what the provider has read.
Story(st, d, w, lines) ==
    /\ st \in [0..Len(lines) -> Writings] /\ st[Len(lines)] = w
    /\ \A k \in 1..Len(lines) : Wrote(d, st[k - 1], lines[k], st[k])

LEMMA StoryBegins ==
    ASSUME NEW d, NEW w \in Writings
    PROVE  \E st : Story(st, d, w, <<>>) /\ st[0] = w
<1> DEFINE st == [k \in 0..0 |-> w]
<1>1. Len(<<>>) = 0 /\ 1..0 = {}
  OBVIOUS
<1>2. st \in [0..0 -> Writings] /\ st[0] = w
  OBVIOUS
<1> HIDE DEF st
<1>3. Story(st, d, w, <<>>)
  BY <1>1, <1>2 DEF Story
<1> QED
  BY <1>2, <1>3

LEMMA StoryContinues ==
    ASSUME NEW d, NEW lines \in Seq(Lines), NEW a \in Writings, NEW st, Story(st, d, a, lines),
           NEW line \in Lines, NEW b \in Writings, Wrote(d, a, line, b)
    PROVE  \E next : Story(next, d, b, Append(lines, line)) /\ next[0] = st[0]
<1> DEFINE n == Len(lines)
           next == [k \in 0..(n + 1) |-> IF k = n + 1 THEN b ELSE st[k]]
<1>1. n \in Nat /\ st \in [0..n -> Writings] /\ st[n] = a
  BY DEF Story
<1>2. PICK all : all = Append(lines, line)
  OBVIOUS
<1>3. Len(all) = n + 1 /\ all[n + 1] = line /\ \A k \in 1..n : all[k] = lines[k]
  BY <1>2
<1>4. /\ next \in [0..(n + 1) -> Writings] /\ next[n + 1] = b
      /\ \A k \in 0..n : next[k] = st[k]
  BY <1>1
<1> HIDE DEF next
<1>5. ASSUME NEW k \in 1..(n + 1)
      PROVE  Wrote(d, next[k - 1], all[k], next[k])
  <2>1. CASE k \in 1..n
    <3>1. next[k - 1] = st[k - 1] /\ next[k] = st[k] /\ all[k] = lines[k]
      BY <1>1, <1>3, <1>4, <2>1
    <3> QED
      BY <2>1, <3>1 DEF Story
  <2>2. CASE k = n + 1
    <3>1. k - 1 = n /\ next[n] = a
      BY <1>1, <1>4, <2>2
    <3> QED
      BY <1>3, <1>4, <2>2, <3>1
  <2> QED
    BY <1>1, <2>1, <2>2
<1>6. next[0] = st[0]
  BY <1>1, <1>4
<1>7. Story(next, d, b, all)
  <2> HIDE DEF n
  <2> QED
    BY <1>3, <1>4, <1>5 DEF Story
<1> QED
  BY <1>2, <1>6, <1>7

LEMMA StoryMovesOn ==
    ASSUME NEW d, NEW lines \in Seq(Lines), lines # <<>>, NEW w, NEW st, Story(st, d, w, lines)
    PROVE  /\ st[0] \in Writings /\ st[1] \in Writings /\ Wrote(d, st[0], Head(lines), st[1])
           /\ \E next : Story(next, d, w, Tail(lines)) /\ next[0] = st[1]
           /\ st[1].stage = "closed" => st[1] = w
<1> DEFINE n == Len(lines)
           next == [k \in 0..(n - 1) |-> st[k + 1]]
<1>1. n \in Nat /\ n # 0 /\ st \in [0..n -> Writings] /\ st[n] = w
  BY DEF Story
<1>2. PICK rest : rest = Tail(lines)
  OBVIOUS
<1>3. Len(rest) = n - 1 /\ Head(lines) = lines[1] /\ \A k \in 1..(n - 1) : rest[k] = lines[k + 1]
  BY <1>1, <1>2
<1>4. \A k \in 1..n : Wrote(d, st[k - 1], lines[k], st[k])
  BY DEF Story
<1>5. st[0] \in Writings /\ st[1] \in Writings /\ Wrote(d, st[0], lines[1], st[1])
  <2>1. 1 \in 1..n /\ 0 \in 0..n /\ 1 \in 0..n /\ 1 - 1 = 0
    BY <1>1
  <2> QED
    BY <1>1, <1>4, <2>1
<1>6. /\ next \in [0..(n - 1) -> Writings] /\ next[n - 1] = w /\ next[0] = st[1]
      /\ \A k \in 0..(n - 1) : next[k] = st[k + 1]
  BY <1>1
<1> HIDE DEF next
<1>7. ASSUME NEW k \in 1..(n - 1)
      PROVE  Wrote(d, next[k - 1], rest[k], next[k])
  <2>1. next[k - 1] = st[k] /\ next[k] = st[k + 1] /\ rest[k] = lines[k + 1]
        /\ k + 1 \in 1..n /\ k + 1 - 1 = k
    BY <1>1, <1>3, <1>6
  <2>2. Wrote(d, st[k + 1 - 1], lines[k + 1], st[k + 1])
    BY <1>4, <2>1
  <2> QED
    BY <2>1, <2>2
<1>8. Story(next, d, w, rest)
  <2> HIDE DEF n
  <2> QED
    BY <1>3, <1>6, <1>7 DEF Story
<1>9. ASSUME st[1].stage = "closed"
      PROVE  st[1] = w
  <2>1. CASE n = 1
    BY <1>1, <2>1
  <2>2. CASE n # 1
    <3>1. 2 \in 1..n /\ 2 - 1 = 1
      BY <1>1, <2>2
    <3>2. Wrote(d, st[1], lines[2], st[2])
      BY <1>4, <3>1
    <3>3. st[1].stage = "talking" \/ st[1].stage = "finished"
      BY <3>2 DEF Wrote
    <3> QED
      BY <1>9, <3>3
  <2> QED
    BY <2>1, <2>2
<1> QED
  BY <1>2, <1>3, <1>5, <1>6, <1>8, <1>9

\* Before the reply is settled, what react holds is what the lines read so far
\* said, and the lines not yet read tell the rest; once react takes it for
\* finished, it holds what was written and nothing more is.
RepliesFit ==
    /\ api \in {"chat", "responses"} /\ written \in Writings /\ wire \in Seq(Lines)
    /\ mangled \in BOOLEAN
    /\ ~mangled /\ running /\ got.outcome = "open" =>
          \E st : Story(st, api, written, wire) /\ Holds(api, st[0], got, active)
    /\ ~mangled /\ got.outcome = "done" =>
          written.stage = "closed" /\ Holds(api, written, got, active)

LEMMA RepliesBegin ==
    ASSUME Apis \subseteq {"chat", "responses"}, Streams!Init
    PROVE  RepliesFit
<1>1. written \in Writings /\ written.texts = 0 /\ written.pieces = <<>>
  <2>1. <<>> \in Seq(Nat) /\ {} \in SUBSET Nat
    OBVIOUS
  <2> QED
    BY <2>1 DEF Streams!Init, Writings
<1>2. Holds(api, written, got, active)
  <2>1. Streams!Numbered(0) = <<>> /\ FirstIds(0) = <<>> /\ Len(<<>>) = 0 /\ 1..0 = {}
    BY DEF Streams!Numbered, FirstIds
  <2>2. got \in Gots /\ got.text = <<>> /\ got.tools = <<>> /\ active = <<>>
    <3>1. <<>> \in Seq(Nat) /\ <<>> \in Seq(Calls)
      OBVIOUS
    <3> QED
      BY <3>1 DEF Streams!Init, Gots
  <2> QED
    BY <1>1, <2>1, <2>2 DEF Holds
<1>3. \E st : Story(st, api, written, wire) /\ Holds(api, st[0], got, active)
  BY <1>1, <1>2, StoryBegins DEF Streams!Init
<1>4. wire \in Seq(Lines) /\ api \in {"chat", "responses"} /\ mangled \in BOOLEAN
      /\ got.outcome = "open"
  <2>1. <<>> \in Seq(Lines)
    OBVIOUS
  <2> QED
    BY <2>1 DEF Streams!Init
<1> QED
  BY <1>1, <1>3, <1>4 DEF RepliesFit

\* A line is written.
LEMMA RepliesWritten ==
    ASSUME RepliesFit, NEW line \in Lines, Streams!Write(line), written' \in Writings,
           Wrote(api, written, line, written')
    PROVE  RepliesFit'
<1>1. /\ running /\ wire' = Append(wire, line)
      /\ UNCHANGED <<api, partial, active, running, got, mangled>>
  BY DEF Streams!Write
<1>2. wire' \in Seq(Lines)
  BY <1>1 DEF RepliesFit
<1>3. ASSUME ~mangled', got'.outcome = "open"
      PROVE  \E st : Story(st, api', written', wire') /\ Holds(api', st[0], got', active')
  <2>1. PICK st : Story(st, api, written, wire) /\ Holds(api, st[0], got, active)
    BY <1>1, <1>3 DEF RepliesFit
  <2>2. PICK b, next : b = written' /\ Story(next, api, b, Append(wire, line)) /\ next[0] = st[0]
    <3>1. PICK b : b = written'
      OBVIOUS
    <3> QED
      BY <2>1, <3>1, StoryContinues DEF RepliesFit
  <2> QED
    BY <1>1, <2>1, <2>2
<1>4. ~(~mangled /\ got.outcome = "done")
  <2>1. written.stage # "closed"
    BY DEF Wrote
  <2> QED
    BY <2>1 DEF RepliesFit
<1> QED
  BY <1>1, <1>2, <1>3, <1>4 DEF RepliesFit

\* What the upstream writes, line by line.
LEMMA UpstreamWrites ==
    ASSUME MaxTools \in Nat, RepliesFit,
           \/ Streams!WriteText
           \/ \E first \in BOOLEAN : Streams!WriteTool(first)
           \/ \E i \in Streams!Tools : Streams!WritePiece(i) \/ Streams!WriteToolDone(i)
           \/ \E reason \in {"tool_calls", "other"} : Streams!WriteFinish(reason)
           \/ \E kind \in {"done", "failed"} : Streams!WriteLast(kind)
           \/ Streams!WriteBroken
    PROVE  RepliesFit'
<1>1. PICK a, b : a = written /\ b = written'
  OBVIOUS
<1>2. a \in Writings /\ a.texts \in Nat /\ a.pieces \in Seq(Nat) /\ a.ended \in SUBSET Nat
      /\ api \in {"chat", "responses"}
  BY <1>1 DEF RepliesFit, Writings
<1>3. CASE Streams!WriteText
  <2>1. PICK line : line = [kind |-> "text", piece |-> a.texts + 1]
    OBVIOUS
  <2>2. Streams!Write(line) /\ line \in Lines /\ a.stage = "talking"
    BY <1>1, <1>2, <1>3, <2>1 DEF Streams!WriteText, Lines
  <2>3. b = [a EXCEPT !.texts = a.texts + 1]
    BY <1>1, <1>3 DEF Streams!WriteText
  <2>4. b \in Writings
    BY <1>2, <2>3 DEF Writings
  <2>5. WroteText(a, line, b)
    BY <2>1, <2>3 DEF WroteText
  <2> QED
    BY <1>1, <2>2, <2>4, <2>5, RepliesWritten DEF Wrote
<1>4. CASE \E first \in BOOLEAN : Streams!WriteTool(first)
  <2>1. PICK first \in BOOLEAN : Streams!WriteTool(first)
    BY <1>4
  <2>2. PICK line : line = [kind |-> "tool", index |-> Len(a.pieces), named |-> TRUE,
                            piece |-> IF first THEN <<1>> ELSE <<>>]
    OBVIOUS
  <2>3. /\ Streams!Write(line) /\ a.stage = "talking" /\ (first => api = "chat")
        /\ b = [a EXCEPT !.pieces = Append(a.pieces, IF first THEN 1 ELSE 0)]
    BY <1>1, <2>1, <2>2 DEF Streams!WriteTool
  <2>4. line \in Lines
    <3>1. <<1>> \in Seq(Nat) /\ <<>> \in Seq(Nat) /\ Len(a.pieces) \in Nat
      BY <1>2
    <3>2. line.piece \in Seq(Nat)
      BY <2>2, <3>1
    <3>3. line \in [kind : {"tool"}, index : Nat, named : BOOLEAN, piece : Seq(Nat)]
      BY <2>2, <3>1, <3>2
    <3> QED
      BY <3>3 DEF Lines
  <2>5. line.piece = (IF first THEN <<1>> ELSE <<>>) /\ (line.piece = <<>> <=> ~first)
    <3>1. <<1>> # <<>>
      OBVIOUS
    <3> QED
      BY <2>2, <3>1
  <2>6. b \in Writings
    <3>1. Append(a.pieces, IF first THEN 1 ELSE 0) \in Seq(Nat)
      BY <1>2
    <3> QED
      BY <1>2, <2>3, <3>1 DEF Writings
  <2>7. b = [a EXCEPT !.pieces = Append(a.pieces, IF line.piece = <<>> THEN 0 ELSE 1)]
    BY <2>3, <2>5
  <2>8. WroteTool(api, a, line, b)
    BY <2>2, <2>3, <2>5, <2>7 DEF WroteTool
  <2> QED
    BY <1>1, <2>3, <2>4, <2>6, <2>8, RepliesWritten DEF Wrote
<1>5. CASE \E i \in Streams!Tools : Streams!WritePiece(i)
  <2>1. PICK i \in Streams!Tools : Streams!WritePiece(i)
    BY <1>5
  <2>2. PICK line : line = [kind |-> "tool", index |-> i, named |-> FALSE,
                            piece |-> <<a.pieces[i + 1] + 1>>]
    OBVIOUS
  <2>3. /\ Streams!Write(line) /\ a.stage = "talking" /\ i < Len(a.pieces)
        /\ b = [a EXCEPT !.pieces = [a.pieces EXCEPT ![i + 1] = a.pieces[i + 1] + 1]]
    BY <1>1, <2>1, <2>2 DEF Streams!WritePiece
  <2>4. i \in Nat /\ i + 1 \in DOMAIN a.pieces /\ a.pieces[i + 1] + 1 \in Nat
    <3>1. i \in Nat
      BY DEF Streams!Tools
    <3>2. i + 1 \in DOMAIN a.pieces
      BY <1>2, <2>3, <3>1
    <3> QED
      BY <1>2, <3>1, <3>2
  <2>5. line \in Lines
    <3>1. line.piece \in Seq(Nat)
      BY <2>2, <2>4
    <3>2. line \in [kind : {"tool"}, index : Nat, named : BOOLEAN, piece : Seq(Nat)]
      BY <2>2, <2>4, <3>1
    <3> QED
      BY <3>2 DEF Lines
  <2>6. b \in Writings
    <3>1. [a.pieces EXCEPT ![i + 1] = a.pieces[i + 1] + 1] \in Seq(Nat)
      BY <1>2, <2>4
    <3> QED
      BY <1>2, <2>3, <3>1 DEF Writings
  <2>7. WrotePiece(a, line, b)
    BY <2>2, <2>3, <2>4 DEF WrotePiece
  <2> QED
    BY <1>1, <2>3, <2>5, <2>6, <2>7, RepliesWritten DEF Wrote
<1>6. CASE \E i \in Streams!Tools : Streams!WriteToolDone(i)
  <2>1. PICK i \in Streams!Tools : Streams!WriteToolDone(i)
    BY <1>6
  <2>2. PICK line : line = [kind |-> "tool_done", index |-> i]
    OBVIOUS
  <2>3. i \in Nat
    BY DEF Streams!Tools
  <2>4. /\ Streams!Write(line) /\ a.stage = "talking" /\ api = "responses"
        /\ b = [a EXCEPT !.ended = a.ended \cup {i}]
    BY <1>1, <2>1, <2>2 DEF Streams!WriteToolDone
  <2>5. line \in Lines
    BY <2>2, <2>3 DEF Lines
  <2>6. b \in Writings /\ b = [a EXCEPT !.ended = b.ended]
    BY <1>2, <2>3, <2>4 DEF Writings
  <2>7. WroteToolDone(api, a, line, b)
    BY <2>2, <2>4, <2>6 DEF WroteToolDone
  <2> QED
    BY <1>1, <2>4, <2>5, <2>6, <2>7, RepliesWritten DEF Wrote
<1>7. CASE \E reason \in {"tool_calls", "other"} : Streams!WriteFinish(reason)
  <2>1. PICK reason \in {"tool_calls", "other"} : Streams!WriteFinish(reason)
    BY <1>7
  <2>2. PICK line : line = [kind |-> "finish", reason |-> reason]
    OBVIOUS
  <2>3. /\ Streams!Write(line) /\ a.stage = "talking" /\ api = "chat"
        /\ b = [a EXCEPT !.stage = "finished"]
    BY <1>1, <2>1, <2>2 DEF Streams!WriteFinish
  <2>4. line \in Lines
    BY <2>2 DEF Lines
  <2>5. b \in Writings
    BY <1>2, <2>3 DEF Writings
  <2>6. WroteFinish(api, a, line, b)
    BY <2>2, <2>3 DEF WroteFinish
  <2> QED
    BY <1>1, <2>3, <2>4, <2>5, <2>6, RepliesWritten DEF Wrote
<1>8. CASE (\E kind \in {"done", "failed"} : Streams!WriteLast(kind)) \/ Streams!WriteBroken
  <2>1. PICK line : /\ line \in [kind : {"done", "failed", "broken"}] /\ Streams!Write(line)
                    /\ \/ WroteDone(api, a, line, b)
                          /\ a.stage = (IF api = "chat" THEN "finished" ELSE "talking")
                       \/ WroteFailure(api, a, line, b) /\ a.stage = "talking"
    <3>1. CASE \E kind \in {"done", "failed"} : Streams!WriteLast(kind)
      <4>1. PICK kind \in {"done", "failed"} : Streams!WriteLast(kind)
        BY <3>1
      <4>2. PICK line : line = [kind |-> kind]
        OBVIOUS
      <4>3. Streams!Write(line) /\ line \in [kind : {"done", "failed", "broken"}]
        BY <4>1, <4>2 DEF Streams!WriteLast
      <4>4. \/ WroteDone(api, a, line, b)
               /\ a.stage = (IF api = "chat" THEN "finished" ELSE "talking")
            \/ WroteFailure(api, a, line, b) /\ a.stage = "talking"
        BY <1>1, <1>2, <4>1, <4>2 DEF Streams!WriteLast, WroteDone, WroteFailure
      <4> QED
        BY <4>3, <4>4
    <3>2. CASE Streams!WriteBroken
      <4>1. PICK line : line = [kind |-> "broken"]
        OBVIOUS
      <4>2. Streams!Write(line) /\ line \in [kind : {"done", "failed", "broken"}]
        BY <3>2, <4>1 DEF Streams!WriteBroken
      <4>3. WroteFailure(api, a, line, b) /\ a.stage = "talking"
        BY <1>1, <3>2, <4>1 DEF Streams!WriteBroken, WroteFailure
      <4> QED
        BY <4>2, <4>3
    <3> QED
      BY <1>8, <3>1, <3>2
  <2>2. b \in Writings
    BY <1>2, <2>1 DEF WroteDone, WroteFailure, Writings
  <2>3. line \in Lines
    BY <2>1 DEF Lines
  <2>4. Wrote(api, a, line, b)
    BY <2>1 DEF Wrote
  <2> QED
    BY <1>1, <2>1, <2>2, <2>3, <2>4, RepliesWritten
<1> QED
  BY <1>3, <1>4, <1>5, <1>6, <1>7, <1>8

\* A line is read.
LEMMA RepliesRead ==
    ASSUME RepliesFit, Streams!ReadLine
    PROVE  RepliesFit'
<1>a. PICK spoilt \in BOOLEAN :
         LET line == Head(wire)
             step == IF api = "chat" THEN Streams!ProcessChunk(line, active, spoilt)
                     ELSE [ids |-> active, events |-> Streams!HandleEvent(line, spoilt)]
         IN  /\ mangled' = (mangled \/ spoilt) /\ active' = step.ids
             /\ got' = Streams!Assemble(got, step.events)
             /\ running' = ~(api = "chat" /\ line.kind \in {"done", "broken"})
  BY DEF Streams!ReadLine
<1>b. PICK line, step :
         /\ line = Head(wire)
         /\ step = IF api = "chat" THEN Streams!ProcessChunk(line, active, spoilt)
                   ELSE [ids |-> active, events |-> Streams!HandleEvent(line, spoilt)]
  OBVIOUS
<1>1. /\ line = Head(wire)
      /\ step = IF api = "chat" THEN Streams!ProcessChunk(line, active, spoilt)
                ELSE [ids |-> active, events |-> Streams!HandleEvent(line, spoilt)]
      /\ mangled' = (mangled \/ spoilt) /\ active' = step.ids
      /\ got' = Streams!Assemble(got, step.events)
      /\ running /\ wire # <<>> /\ wire' = Tail(wire) /\ api' = api /\ written' = written
      /\ running' = ~(api = "chat" /\ line.kind \in {"done", "broken"})
  BY <1>a, <1>b DEF Streams!ReadLine
<1>2. wire' \in Seq(Lines) /\ mangled' \in BOOLEAN
  BY <1>1 DEF RepliesFit
<1>3. SUFFICES ASSUME ~mangled'
               PROVE  /\ running' /\ got'.outcome = "open" =>
                            \E st : Story(st, api', written', wire') /\ Holds(api', st[0], got', active')
                      /\ got'.outcome = "done" =>
                            written'.stage = "closed" /\ Holds(api', written', got', active')
  BY <1>1, <1>2 DEF RepliesFit
<1>4. ~mangled /\ spoilt = FALSE /\ step = Reading(api, line, active)
  BY <1>1, <1>3 DEF Reading, RepliesFit
<1>5. PICK h : h = got'
  OBVIOUS
<1>6. CASE got.outcome = "open"
  <2>1. PICK st : Story(st, api, written, wire) /\ Holds(api, st[0], got, active)
    BY <1>1, <1>4, <1>6 DEF RepliesFit
  <2>2. /\ st[0] \in Writings /\ st[1] \in Writings /\ Wrote(api, st[0], line, st[1])
        /\ \E next : Story(next, api, written, Tail(wire)) /\ next[0] = st[1]
        /\ st[1].stage = "closed" => st[1] = written
    BY <1>1, <2>1, StoryMovesOn DEF RepliesFit
  <2>3. PICK next : Story(next, api, written, Tail(wire)) /\ next[0] = st[1]
    BY <2>2
  <2>4. \/ h.outcome = "open" /\ Holds(api, st[1], h, step.ids)
        \/ h.outcome = "done" /\ Holds(api, st[1], h, step.ids) /\ st[1].stage = "closed"
        \/ h.outcome = "error"
    <3>1. PICK a, b, g, ids : a = st[0] /\ b = st[1] /\ g = got /\ ids = active
      OBVIOUS
    <3>2. h = Streams!Assemble(g, step.events) /\ step = Reading(api, line, ids)
      BY <1>1, <1>4, <1>5, <3>1
    <3> QED
      BY <1>6, <2>1, <2>2, <3>1, <3>2, ReadAnyLine DEF RepliesFit
  <2> QED
    BY <1>1, <1>5, <2>2, <2>3, <2>4
<1>7. CASE got.outcome # "open"
  <2>1. Len(step.events) \in Nat
    OBVIOUS
  <2>2. got' = got
    <3>1. PICK g : g = got
      OBVIOUS
    <3>2. Streams!Assemble(g, step.events) = g
      BY <1>7, <2>1, <3>1, ClosedStays
    <3> QED
      BY <1>1, <3>1, <3>2
  <2>3. ASSUME got.outcome = "done"
        PROVE  Holds(api, written, got, active')
    BY <1>4, <2>3 DEF RepliesFit, Holds
  <2> QED
    BY <1>1, <1>4, <1>7, <2>2, <2>3 DEF RepliesFit
<1> QED
  BY <1>6, <1>7

LEMMA RepliesStep ==
    ASSUME MaxTools \in Nat, RepliesFit, [Streams!Next]_(Streams!vars)
    PROVE  RepliesFit'
<1>1. CASE UNCHANGED Streams!vars
  <2>1. UNCHANGED <<api, written, wire, active, running, got, mangled>>
    BY <1>1 DEF Streams!vars
  <2> QED
    BY <2>1 DEF RepliesFit
<1>2. CASE Streams!ReadLine
  BY <1>2, RepliesRead
<1>3. CASE Streams!ReadPart
  <2>1. UNCHANGED <<api, written, wire, active, running, got, mangled>>
    BY <1>3 DEF Streams!ReadPart
  <2> QED
    BY <2>1 DEF RepliesFit
<1>4. CASE Streams!RequestFails \/ Streams!StreamCloses \/ Streams!StreamBreaks
  <2>1. /\ UNCHANGED <<api, written, active, mangled>>
        /\ running /\ ~running' /\ (wire' = wire \/ wire' = <<>>)
        /\ \/ got' = got
           \/ got' = Streams!HandleLlmStream(got, Streams!Event("error", NoPiece, Streams!Garbled))
    BY <1>4 DEF Streams!RequestFails, Streams!StreamCloses, Streams!StreamBreaks
  <2>2. got.outcome # "open" => got' = got
    BY <2>1 DEF Streams!HandleLlmStream
  <2>3. ASSUME ~mangled, got.outcome = "open"
        PROVE  got'.outcome # "done"
    <3>1. got \in Gots
      BY <2>1, <2>3 DEF RepliesFit, Holds
    <3>2. \/ got' = got
          \/ got' = [got EXCEPT !.outcome = "error"]
      BY <2>1, <2>3 DEF Streams!HandleLlmStream, Streams!Event
    <3> QED
      BY <2>3, <3>1, <3>2 DEF Gots
  <2>4. wire' \in Seq(Lines)
    <3>1. <<>> \in Seq(Lines)
      OBVIOUS
    <3> QED
      BY <2>1, <3>1 DEF RepliesFit
  <2> QED
    BY <2>1, <2>2, <2>3, <2>4 DEF RepliesFit
<1> QED
  BY <1>1, <1>2, <1>3, <1>4, UpstreamWrites DEF Streams!Next

LEMMA RepliesFitMeansWhole ==
    ASSUME RepliesFit
    PROVE  Streams!FinishedRepliesAreWhole
<1>1. SUFFICES ASSUME got.outcome = "done", ~mangled
               PROVE  /\ written.stage = "closed" /\ got.text = Streams!Numbered(written.texts)
                      /\ api = "chat" => Streams!CallsWhole
  BY DEF Streams!FinishedRepliesAreWhole
<1>2. written.stage = "closed" /\ Holds(api, written, got, active)
  BY <1>1 DEF RepliesFit
<1>3. ASSUME api = "chat"
      PROVE  Streams!CallsWhole
  <2>1. DOMAIN got.tools = 1..Len(written.pieces)
    BY <1>2, <1>3 DEF Holds, Gots
  <2> QED
    BY <1>2, <1>3, <2>1 DEF Holds, Streams!CallsWhole
<1> QED
  BY <1>2, <1>3 DEF Holds

(* A reply that react takes for finished is the whole reply (capsule-openai-
   compat process_chunk, capsule-openai handle_event, react handle_llm_stream):
   however many tool calls it makes, in whatever order their pieces come and
   wherever the chunks cut its lines, unless one cuts a character.            *)
THEOREM FinishedRepliesHold ==
    ASSUME Apis \subseteq {"chat", "responses"}, MaxTools \in Nat
    PROVE  Streams!Spec => []Streams!FinishedRepliesAreWhole
<1>1. Streams!Init => RepliesFit
  BY RepliesBegin
<1>2. RepliesFit /\ [Streams!Next]_(Streams!vars) => RepliesFit'
  BY RepliesStep
<1>3. RepliesFit => Streams!FinishedRepliesAreWhole
  BY RepliesFitMeansWhole
<1> QED
  BY <1>1, <1>2, <1>3, PTL DEF Streams!Spec

-----------------------------------------------------------------------------
(* ProviderStream: types, characters cut or not *)

\* The names react knows a call by, what it holds, and the events it is sent.
Names == {Streams!CallId(i) : i \in Streams!Tools} \cup {NoPiece}
HeardCalls == [id : Names, args : Seq(Nat), complete : BOOLEAN]
Heard == [text : Seq(Nat), tools : Seq(HeardCalls), outcome : {"open", "done", "error"}]
Events ==
    [kind : {"start"}, id : Names, piece : Nat]
    \cup [kind : {"text", "delta", "end", "done", "error"},
          id : Names \cup {Streams!ItemId(i) : i \in Nat}, piece : Nat]

LEMMA HeardKept ==
    ASSUME NEW g \in Heard, NEW e \in Events
    PROVE  Streams!HandleLlmStream(g, e) \in Heard
<1>a. PICK h : h = Streams!HandleLlmStream(g, e)
  OBVIOUS
<1>1. g.tools \in Seq(HeardCalls) /\ g.text \in Seq(Nat) /\ e.piece \in Nat
      /\ (e.kind = "start" => e.id \in Names)
      /\ e.kind \in {"start", "text", "delta", "end", "done", "error"}
  BY DEF Heard, Events
<1>b. SUFFICES h \in Heard
  BY <1>a
<1>2. CASE g.outcome # "open" \/ (e.kind \in {"delta", "end"} /\ Streams!Hits(g.tools, e.id) = {})
  BY <1>a, <1>2 DEF Streams!HandleLlmStream
<1>3. CASE ~(g.outcome # "open" \/ (e.kind \in {"delta", "end"} /\ Streams!Hits(g.tools, e.id) = {}))
  <2>1. CASE e.kind = "text"
    <3>1. h = [g EXCEPT !.text = Append(g.text, e.piece)]
      BY <1>a, <1>3, <2>1 DEF Streams!HandleLlmStream
    <3>2. Append(g.text, e.piece) \in Seq(Nat)
      BY <1>1
    <3> QED
      BY <3>1, <3>2 DEF Heard
  <2>2. CASE e.kind = "start"
    <3>1. PICK c : c = [id |-> e.id, args |-> <<>>, complete |-> FALSE]
      OBVIOUS
    <3>2. h = [g EXCEPT !.tools = Append(g.tools, c)]
      BY <1>a, <1>3, <2>2, <3>1 DEF Streams!HandleLlmStream
    <3>3. c \in HeardCalls
      <4>1. <<>> \in Seq(Nat)
        OBVIOUS
      <4> QED
        BY <1>1, <2>2, <3>1, <4>1 DEF HeardCalls
    <3>4. Append(g.tools, c) \in Seq(HeardCalls)
      BY <1>1, <3>3
    <3> QED
      BY <3>2, <3>4 DEF Heard
  <2>3. CASE e.kind \in {"delta", "end"}
    <3>1. PICK k : k = Streams!FirstHit(g.tools, e.id)
      OBVIOUS
    <3>2. k \in DOMAIN g.tools
      <4>1. Streams!Hits(g.tools, e.id) # {}
        BY <1>a, <1>3, <2>3
      <4>2. g.tools \in Seq(HeardCalls)
        BY <1>1
      <4>3. Streams!FirstHit(g.tools, e.id) \in DOMAIN g.tools
        BY <4>1, <4>2, HitIsFirst, Zenon
      <4> QED
        BY <3>1, <4>3
    <3>3. g.tools[k] \in HeardCalls
      BY <1>1, <3>2
    <3>4. PICK c : c = IF e.kind = "delta"
                       THEN [g.tools[k] EXCEPT !.args = Append(g.tools[k].args, e.piece)]
                       ELSE [g.tools[k] EXCEPT !.complete = TRUE]
      OBVIOUS
    <3>5. c \in HeardCalls
      <4>1. Append(g.tools[k].args, e.piece) \in Seq(Nat)
        BY <1>1, <3>3 DEF HeardCalls
      <4> QED
        BY <3>3, <3>4, <4>1 DEF HeardCalls
    <3>6. h = [g EXCEPT !.tools = [g.tools EXCEPT ![k] = c]]
      <4>1. CASE e.kind = "delta"
        <5>1. h = [g EXCEPT !.tools[k].args = Append(@, e.piece)]
          BY <1>a, <1>3, <3>1, <4>1 DEF Streams!HandleLlmStream
        <5>2. c = [g.tools[k] EXCEPT !.args = Append(g.tools[k].args, e.piece)]
          BY <3>4, <4>1
        <5> QED
          BY <5>1, <5>2
      <4>2. CASE e.kind = "end"
        <5>1. h = [g EXCEPT !.tools[k].complete = TRUE]
          BY <1>a, <1>3, <3>1, <4>2 DEF Streams!HandleLlmStream
        <5>2. c = [g.tools[k] EXCEPT !.complete = TRUE]
          BY <3>4, <4>2
        <5> QED
          BY <5>1, <5>2
      <4> QED
        BY <2>3, <4>1, <4>2
    <3>7. PICK tools : tools = [g.tools EXCEPT ![k] = c]
      OBVIOUS
    <3>8. tools \in Seq(HeardCalls)
      BY <1>1, <3>2, <3>5, <3>7
    <3>9. h = [g EXCEPT !.tools = tools]
      BY <3>6, <3>7
    <3> QED
      BY <3>8, <3>9 DEF Heard
  <2>4. CASE e.kind = "done"
    <3>1. h = [g EXCEPT !.outcome = "done"]
      BY <1>a, <1>3, <2>4 DEF Streams!HandleLlmStream
    <3> QED
      BY <3>1 DEF Heard
  <2>5. CASE e.kind = "error"
    <3>1. h = [g EXCEPT !.outcome = "error"]
      BY <1>a, <1>3, <2>5 DEF Streams!HandleLlmStream
    <3> QED
      BY <3>1 DEF Heard
  <2> QED
    BY <1>1, <2>1, <2>2, <2>3, <2>4, <2>5
<1> QED
  BY <1>2, <1>3

LEMMA AssembleHeard ==
    ASSUME NEW g \in Heard, NEW events \in Seq(Events)
    PROVE  Streams!Assemble(g, events) \in Heard
<1> DEFINE n == Len(events)
           step == [k \in 1..n |-> [h \in Heard |-> Streams!HandleLlmStream(h, events[k])]]
<1>1. n \in Nat /\ \A k \in 1..n : events[k] \in Events
  OBVIOUS
<1>2. ASSUME NEW k \in 1..n, NEW h \in Heard
      PROVE  Streams!HandleLlmStream(h, events[k]) \in Heard
  BY <1>1, HeardKept
<1>3. step \in [1..n -> [Heard -> Heard]]
  BY <1>2
<1>4. PICK f \in [0..n -> Heard] : f[0] = g /\ \A k \in 1..n : f[k] = step[k][f[k - 1]]
  <2> HIDE DEF step, n
  <2>1. Recursive(n, Heard, g, step)
    BY <1>1, <1>3, RecursionExists
  <2> QED
    BY <2>1 DEF Recursive
<1>5. \A k \in 1..n : f[k] = Streams!HandleLlmStream(f[k - 1], events[k])
  <2>1. \A k \in 1..n : f[k - 1] \in Heard
    <3> HIDE DEF step, n
    <3> QED
      BY <1>1, <1>4
  <2> QED
    BY <1>4, <2>1
<1>6. Runs(f, g, events)
  <2> HIDE DEF step
  <2>1. f = [k \in 0..n |-> f[k]]
    BY <1>4
  <2>2. \A k \in 0..n : f[k] = IF k = 0 THEN g ELSE Streams!HandleLlmStream(f[k - 1], events[k])
    <3> TAKE k \in 0..n
    <3>1. CASE k = 0
      BY <1>4, <3>1
    <3>2. CASE k # 0
      <4>1. k \in 1..n
        BY <1>1, <3>2
      <4> QED
        BY <1>5, <3>2, <4>1
    <3> QED
      BY <3>1, <3>2
  <2> QED
    BY <2>1, <2>2, Zenon DEF Runs
<1>7. PICK h : Runs(h, g, events) /\ Streams!Assemble(g, events) = h[n]
  BY <1>6, AssembleIsARun
<1>8. h[0] = g /\ \A k \in 1..n : h[k] = Streams!HandleLlmStream(h[k - 1], events[k])
  BY <1>1, <1>7 DEF Runs
<1> DEFINE Good == {k \in 0..n : h[k] \in Heard}
<1>9. \A k \in 0..n : k \in Good
  <2> HIDE DEF n
  <2>1. 0 \in Good
    BY <1>1, <1>8
  <2>2. \A k \in 1..n : k - 1 \in Good => k \in Good
    BY <1>1, <1>2, <1>8
  <2> HIDE DEF Good
  <2> QED
    BY <1>1, <2>1, <2>2, AlongPositions
<1>10. n \in 0..n
  BY <1>1
<1> QED
  BY <1>7, <1>9, <1>10

LEMMA OneEvent ==
    ASSUME NEW kind \in {"start", "text", "delta", "end", "done", "error"}, NEW id, NEW piece \in Nat,
           id \in Names \/ (kind # "start" /\ id \in {Streams!ItemId(i) : i \in Nat})
    PROVE  Streams!Event(kind, id, piece) \in Events
<1>1. Streams!Event(kind, id, piece) = [kind |-> kind, id |-> id, piece |-> piece]
  BY DEF Streams!Event
<1>2. CASE kind = "start"
  BY <1>1, <1>2 DEF Events
<1>3. CASE kind # "start"
  BY <1>1, <1>3 DEF Events
<1> QED
  BY <1>2, <1>3

LEMMA TextIsANumber ==
    ASSUME NEW piece \in Nat, NEW spoilt
    PROVE  Streams!Text(piece, spoilt) \in Nat
  BY DEF Streams!Text, Streams!Garbled

\* A line of this reply: calls are numbered below the bound, and a line that does
\* not announce one has a piece.
Said == {line \in Lines : line.kind = "tool" =>
            line.index \in Streams!Tools /\ (line.named \/ line.piece # <<>>)}

\* What the chat dialect makes of a line: the ids it knows are names, and so are
\* those of the calls its events start.
LEMMA ChunkIsTyped ==
    ASSUME MaxTools \in Nat, NEW line \in Said, NEW ids \in Seq(Names), NEW spoilt \in BOOLEAN
    PROVE  /\ Streams!ProcessChunk(line, ids, spoilt).ids \in Seq(Names)
           /\ Streams!ProcessChunk(line, ids, spoilt).events \in Seq(Events)
<1>1. PICK step : step = Streams!ProcessChunk(line, ids, spoilt)
  OBVIOUS
<1>2. SUFFICES step.ids \in Seq(Names) /\ step.events \in Seq(Events)
  BY <1>1
<1>3. NoPiece \in Names /\ Streams!Garbled \in Nat /\ <<>> \in Seq(Names) /\ <<>> \in Seq(Events)
  BY DEF Names, Streams!Garbled
<1>4. CASE line.kind = "text"
  <2>1. line.piece \in Nat
    BY <1>4 DEF Said, Lines
  <2>2. PICK e : e = Streams!Event("text", NoPiece, Streams!Text(line.piece, spoilt))
    OBVIOUS
  <2>3. e \in Events
    BY <1>3, <2>1, <2>2, TextIsANumber, OneEvent
  <2>4. step = [ids |-> ids, events |-> <<e>>]
    BY <1>1, <1>4, <2>2 DEF Streams!ProcessChunk
  <2>5. <<e>> \in Seq(Events)
    BY <2>3
  <2> QED
    BY <2>4, <2>5
<1>5. CASE line.kind = "tool"
  <2> DEFINE grown == [k \in 1..(IF Len(ids) <= line.index THEN line.index + 1 ELSE Len(ids))
                        |-> IF k <= Len(ids) THEN ids[k] ELSE NoPiece]
             known == IF line.named
                      THEN [grown EXCEPT ![line.index + 1] = Streams!CallId(line.index)] ELSE grown
             id == known[line.index + 1]
             starts == IF line.named THEN <<Streams!Event("start", id, Streams!Garbled)>> ELSE <<>>
             pieces == [k \in DOMAIN line.piece |->
                          Streams!Event("delta", id, Streams!Text(line.piece[k], spoilt))]
  <2>1. step = [ids |-> known, events |-> starts \o pieces]
    BY <1>1, <1>5 DEF Streams!ProcessChunk
  <2>2. /\ line.index \in Nat /\ Streams!CallId(line.index) \in Names
        /\ line.piece \in Seq(Nat) /\ Len(ids) \in Nat
    <3>1. line.index \in Streams!Tools /\ line.piece \in Seq(Nat)
      BY <1>5 DEF Said, Lines
    <3>2. line.index \in Nat
      BY <3>1 DEF Streams!Tools
    <3> QED
      BY <3>1, <3>2 DEF Names
  <2>3. PICK m \in Nat : m = (IF Len(ids) <= line.index THEN line.index + 1 ELSE Len(ids))
    BY <2>2
  <2>4. grown \in [1..m -> Names]
    BY <1>3, <2>2, <2>3
  <2>5. line.index + 1 \in 1..m
    BY <2>2, <2>3
  <2>6. known \in [1..m -> Names]
    <3> HIDE DEF grown
    <3> QED
      BY <2>2, <2>4
  <2> HIDE DEF known, grown
  <2>7. known \in Seq(Names) /\ id \in Names
    BY <2>5, <2>6
  <2> HIDE DEF id
  <2>8. starts \in Seq(Events)
    <3>1. Streams!Event("start", id, Streams!Garbled) \in Events
      BY <1>3, <2>7, OneEvent
    <3> QED
      BY <1>3, <3>1
  <2>9. pieces \in Seq(Events)
    <3>1. \A k \in DOMAIN line.piece :
             Streams!Event("delta", id, Streams!Text(line.piece[k], spoilt)) \in Events
      <4> TAKE k \in DOMAIN line.piece
      <4>1. line.piece[k] \in Nat
        BY <2>2
      <4>2. Streams!Text(line.piece[k], spoilt) \in Nat
        BY <4>1, TextIsANumber
      <4> QED
        BY <2>7, <4>2, OneEvent
    <3>2. DOMAIN line.piece = 1..Len(line.piece) /\ Len(line.piece) \in Nat
      BY <2>2
    <3>3. pieces \in [1..Len(line.piece) -> Events]
      BY <3>1, <3>2
    <3> QED
      BY <3>2, <3>3
  <2> HIDE DEF starts, pieces
  <2> QED
    BY <2>1, <2>7, <2>8, <2>9
<1>6. CASE line.kind = "finish" /\ line.reason = "tool_calls"
  <2>1. PICK named : named = Streams!Named(ids)
    OBVIOUS
  <2>2. named \in Seq(Names)
    BY <2>1, NamedIsAList
  <2>3. step = [ids |-> <<>>, events |->
                 [k \in DOMAIN named |-> Streams!Event("end", named[k], Streams!Garbled)]]
    BY <1>1, <1>6, <2>1 DEF Streams!ProcessChunk
  <2>4. \A k \in DOMAIN named : Streams!Event("end", named[k], Streams!Garbled) \in Events
    <3> TAKE k \in DOMAIN named
    <3>1. named[k] \in Names
      BY <2>2
    <3> QED
      BY <1>3, <3>1, OneEvent
  <2>5. DOMAIN named = 1..Len(named) /\ Len(named) \in Nat
    BY <2>2
  <2>6. step.events \in [1..Len(named) -> Events] /\ step.ids = <<>>
    BY <2>3, <2>4, <2>5
  <2> QED
    BY <1>3, <2>5, <2>6
<1>7. CASE line.kind \in {"done", "broken"}
  <2>1. PICK e : e = Streams!Event(IF line.kind = "done" THEN "done" ELSE "error",
                                   NoPiece, Streams!Garbled)
    OBVIOUS
  <2>2. e \in Events
    BY <1>3, <2>1, OneEvent
  <2>3. step = [ids |-> ids, events |-> <<e>>]
    BY <1>1, <1>7, <2>1 DEF Streams!ProcessChunk
  <2>4. <<e>> \in Seq(Events)
    BY <2>2
  <2> QED
    BY <2>3, <2>4
<1>8. CASE ~(line.kind \in {"text", "tool", "done", "broken"}
             \/ (line.kind = "finish" /\ line.reason = "tool_calls"))
  <2>1. step = [ids |-> ids, events |-> <<>>]
    BY <1>1, <1>8 DEF Streams!ProcessChunk
  <2> QED
    BY <1>3, <2>1
<1> QED
  BY <1>4, <1>5, <1>6, <1>7, <1>8

\* ... and the Responses dialect.
LEMMA EventIsTyped ==
    ASSUME MaxTools \in Nat, NEW line \in Said, NEW spoilt \in BOOLEAN
    PROVE  Streams!HandleEvent(line, spoilt) \in Seq(Events)
<1>1. PICK events : events = Streams!HandleEvent(line, spoilt)
  OBVIOUS
<1>2. SUFFICES \/ events = <<>> \/ \E e \in Events : events = <<e>>
  <2>1. <<>> \in Seq(Events) /\ \A e \in Events : <<e>> \in Seq(Events)
    OBVIOUS
  <2> QED
    BY <1>1, <1>2, <2>1
<1>3. NoPiece \in Names /\ Streams!Garbled \in Nat
  BY DEF Names, Streams!Garbled
<1>4. CASE line.kind = "text"
  <2>1. line.piece \in Nat
    BY <1>4 DEF Said, Lines
  <2>2. Streams!Event("text", NoPiece, Streams!Text(line.piece, spoilt)) \in Events
    BY <1>3, <2>1, TextIsANumber, OneEvent
  <2>3. events = <<Streams!Event("text", NoPiece, Streams!Text(line.piece, spoilt))>>
    BY <1>1, <1>4 DEF Streams!HandleEvent
  <2> QED
    BY <2>2, <2>3
<1>5. CASE line.kind = "tool"
  <2>1. line.index \in Streams!Tools /\ line.index \in Nat /\ line.named \in BOOLEAN
    BY <1>5 DEF Said, Lines, Streams!Tools
  <2>2. CASE line.named
    <3>1. Streams!Event("start", Streams!CallId(line.index), Streams!Garbled) \in Events
      <4>1. Streams!CallId(line.index) \in Names
        BY <2>1 DEF Names
      <4> QED
        BY <1>3, <4>1, OneEvent
    <3>2. events = <<Streams!Event("start", Streams!CallId(line.index), Streams!Garbled)>>
      BY <1>1, <1>5, <2>2 DEF Streams!HandleEvent
    <3> QED
      BY <3>1, <3>2
  <2>3. CASE ~line.named
    <3>1. events = <<Streams!Event("delta", Streams!ItemId(line.index),
                                   Streams!Text(line.piece[1], spoilt))>>
      BY <1>1, <1>5, <2>3 DEF Streams!HandleEvent
    <3>2. Streams!Text(line.piece[1], spoilt) \in Nat
      <4>1. line.piece \in Seq(Nat) /\ line.piece # <<>>
        BY <1>5, <2>3 DEF Said, Lines
      <4>2. line.piece[1] \in Nat
        BY <4>1
      <4> QED
        BY <4>2, TextIsANumber
    <3> QED
      BY <2>1, <3>1, <3>2, OneEvent
  <2> QED
    BY <2>1, <2>2, <2>3
<1>6. CASE line.kind = "tool_done"
  <2>1. line.index \in Nat
    BY <1>6 DEF Said, Lines
  <2>2. Streams!Event("end", Streams!ItemId(line.index), Streams!Garbled) \in Events
    BY <1>3, <2>1, OneEvent
  <2>3. events = <<Streams!Event("end", Streams!ItemId(line.index), Streams!Garbled)>>
    BY <1>1, <1>6 DEF Streams!HandleEvent
  <2> QED
    BY <2>2, <2>3
<1>7. CASE line.kind \in {"done", "failed"}
  <2>1. PICK e : e = Streams!Event(IF line.kind = "done" THEN "done" ELSE "error",
                                   NoPiece, Streams!Garbled)
    OBVIOUS
  <2>2. e \in Events
    BY <1>3, <2>1, OneEvent
  <2>3. events = <<e>>
    BY <1>1, <1>7, <2>1 DEF Streams!HandleEvent
  <2> QED
    BY <2>2, <2>3
<1>8. CASE line.kind \notin {"text", "tool", "tool_done", "done", "failed"}
  <2>1. events = <<>>
    BY <1>1, <1>8 DEF Streams!HandleEvent
  <2> QED
    BY <2>1
<1> QED
  BY <1>4, <1>5, <1>6, <1>7, <1>8

RepliesTyped ==
    /\ got \in Heard /\ active \in Seq(Names)
    /\ wire \in Seq(Said) /\ Len(wire) <= MaxWire
    /\ partial \in BOOLEAN /\ (partial => wire # <<>>)

\* A line is put on the wire.
LEMMA LineIsSaid ==
    ASSUME MaxTools \in Nat, MaxWire \in Nat, RepliesFit', RepliesTyped,
           \/ Streams!WriteText
           \/ \E first \in BOOLEAN : Streams!WriteTool(first)
           \/ \E i \in Streams!Tools : Streams!WritePiece(i) \/ Streams!WriteToolDone(i)
           \/ \E reason \in {"tool_calls", "other"} : Streams!WriteFinish(reason)
           \/ \E kind \in {"done", "failed"} : Streams!WriteLast(kind)
           \/ Streams!WriteBroken
    PROVE  RepliesTyped'
<1> DEFINE Fits(line) == /\ Streams!Write(line)
                         /\ line.kind = "tool" =>
                              line.index \in Streams!Tools /\ (line.named \/ line.piece # <<>>)
<1>1. \E line : Fits(line)
  <2>1. CASE Streams!WriteText
    <3>1. PICK line : line = [kind |-> "text", piece |-> written.texts + 1]
      OBVIOUS
    <3>2. Streams!Write(line)
      BY <2>1, <3>1 DEF Streams!WriteText
    <3> QED
      BY <3>1, <3>2
  <2>2. ASSUME NEW first \in BOOLEAN, Streams!WriteTool(first)
        PROVE  \E line : Fits(line)
    <3>1. PICK line : line = [kind |-> "tool", index |-> Len(written.pieces), named |-> TRUE,
                              piece |-> IF first THEN <<1>> ELSE <<>>]
      OBVIOUS
    <3>2. Streams!Write(line) /\ Len(written.pieces) \in Streams!Tools
      BY <2>2, <3>1 DEF Streams!WriteTool
    <3> QED
      BY <3>1, <3>2
  <2>3. ASSUME NEW i \in Streams!Tools, Streams!WritePiece(i)
        PROVE  \E line : Fits(line)
    <3>1. PICK line : line = [kind |-> "tool", index |-> i, named |-> FALSE,
                              piece |-> <<written.pieces[i + 1] + 1>>]
      OBVIOUS
    <3>2. Streams!Write(line)
      BY <2>3, <3>1 DEF Streams!WritePiece
    <3>3. line.piece # <<>>
      BY <3>1
    <3> QED
      BY <3>1, <3>2, <3>3
  <2>4. ASSUME NEW i \in Streams!Tools, Streams!WriteToolDone(i)
        PROVE  \E line : Fits(line)
    <3>1. PICK line : line = [kind |-> "tool_done", index |-> i]
      OBVIOUS
    <3>2. Streams!Write(line)
      BY <2>4, <3>1 DEF Streams!WriteToolDone
    <3> QED
      BY <3>1, <3>2
  <2>5. ASSUME NEW reason, Streams!WriteFinish(reason)
        PROVE  \E line : Fits(line)
    <3>1. PICK line : line = [kind |-> "finish", reason |-> reason]
      OBVIOUS
    <3>2. Streams!Write(line)
      BY <2>5, <3>1 DEF Streams!WriteFinish
    <3> QED
      BY <3>1, <3>2
  <2>6. ASSUME NEW kind \in {"done", "failed"}, Streams!WriteLast(kind)
        PROVE  \E line : Fits(line)
    <3>1. PICK line : line = [kind |-> kind]
      OBVIOUS
    <3>2. Streams!Write(line)
      BY <2>6, <3>1 DEF Streams!WriteLast
    <3> QED
      BY <3>1, <3>2
  <2>7. CASE Streams!WriteBroken
    <3>1. PICK line : line = [kind |-> "broken"]
      OBVIOUS
    <3>2. Streams!Write(line)
      BY <2>7, <3>1 DEF Streams!WriteBroken
    <3> QED
      BY <3>1, <3>2
  <2> HIDE DEF Fits
  <2> QED
    BY <2>1, <2>2, <2>3, <2>4, <2>5, <2>6, <2>7
<1>2. PICK line : Fits(line)
  BY <1>1
<1>3. /\ Len(wire) < MaxWire /\ wire' = Append(wire, line)
      /\ UNCHANGED <<partial, active, got>>
  BY <1>2 DEF Streams!Write
<1>4. wire \in Seq(Said) /\ Len(wire) \in Nat
  BY DEF RepliesTyped
<1>5. line \in Lines
  <2>1. wire' \in Seq(Lines)
    BY DEF RepliesFit
  <2>2. Len(wire') = Len(wire) + 1 /\ wire'[Len(wire) + 1] = line
    BY <1>3, <1>4
  <2> QED
    BY <1>4, <2>1, <2>2
<1>6. line \in Said
  BY <1>2, <1>5 DEF Said
<1>7. wire' \in Seq(Said) /\ Len(wire') = Len(wire) + 1 /\ wire' # <<>>
  BY <1>3, <1>4, <1>6
<1> QED
  BY <1>3, <1>4, <1>7 DEF RepliesTyped

LEMMA RepliesTypedKept ==
    ASSUME MaxTools \in Nat, MaxWire \in Nat, RepliesFit, RepliesFit', RepliesTyped,
           [Streams!Next]_(Streams!vars)
    PROVE  RepliesTyped'
<1>1. wire \in Seq(Said) /\ Len(wire) \in Nat /\ <<>> \in Seq(Said) /\ Len(<<>>) = 0
  BY DEF RepliesTyped
<1>2. CASE UNCHANGED Streams!vars
  BY <1>2 DEF Streams!vars, RepliesTyped
<1>3. CASE Streams!ReadPart
  BY <1>3 DEF Streams!ReadPart, RepliesTyped
<1>4. CASE Streams!ReadLine
  <2>a. PICK spoilt \in BOOLEAN :
           LET line == Head(wire)
               step == IF api = "chat" THEN Streams!ProcessChunk(line, active, spoilt)
                       ELSE [ids |-> active, events |-> Streams!HandleEvent(line, spoilt)]
           IN  active' = step.ids /\ got' = Streams!Assemble(got, step.events)
    BY <1>4 DEF Streams!ReadLine
  <2>b. PICK line, step :
           /\ line = Head(wire)
           /\ step = IF api = "chat" THEN Streams!ProcessChunk(line, active, spoilt)
                     ELSE [ids |-> active, events |-> Streams!HandleEvent(line, spoilt)]
    OBVIOUS
  <2>1. /\ line = Head(wire)
        /\ step = IF api = "chat" THEN Streams!ProcessChunk(line, active, spoilt)
                  ELSE [ids |-> active, events |-> Streams!HandleEvent(line, spoilt)]
        /\ active' = step.ids /\ got' = Streams!Assemble(got, step.events)
    BY <2>a, <2>b
  <2>2. wire # <<>> /\ wire' = Tail(wire) /\ partial' = FALSE
    BY <1>4 DEF Streams!ReadLine
  <2>3. line \in Said
    BY <1>1, <2>1, <2>2
  <2>4. step.ids \in Seq(Names) /\ step.events \in Seq(Events)
    <3>1. active \in Seq(Names)
      BY DEF RepliesTyped
    <3>2. CASE api = "chat"
      BY <2>1, <2>3, <3>1, <3>2, ChunkIsTyped
    <3>3. CASE api # "chat"
      BY <2>1, <2>3, <3>1, <3>3, EventIsTyped
    <3> QED
      BY <3>2, <3>3
  <2>5. got' \in Heard
    <3>1. PICK g, events : g = got /\ events = step.events
      OBVIOUS
    <3>2. g \in Heard /\ events \in Seq(Events)
      BY <2>4, <3>1 DEF RepliesTyped
    <3> QED
      BY <2>1, <3>1, <3>2, AssembleHeard
  <2>6. wire' \in Seq(Said) /\ Len(wire') <= Len(wire) /\ Len(wire') \in Nat
    BY <1>1, <2>2
  <2>7. Len(wire') <= MaxWire
    BY <1>1, <2>6 DEF RepliesTyped
  <2>8. active' \in Seq(Names)
    BY <2>1, <2>4
  <2> QED
    BY <2>2, <2>5, <2>6, <2>7, <2>8 DEF RepliesTyped
<1>5. CASE Streams!RequestFails \/ Streams!StreamCloses \/ Streams!StreamBreaks
  <2>1. /\ \/ got' = got
           \/ got' = Streams!HandleLlmStream(got, Streams!Event("error", NoPiece, Streams!Garbled))
        /\ UNCHANGED active
        /\ UNCHANGED <<wire, partial>> \/ (wire' = <<>> /\ partial' = FALSE)
    BY <1>5 DEF Streams!RequestFails, Streams!StreamCloses, Streams!StreamBreaks
  <2>2. Streams!Event("error", NoPiece, Streams!Garbled) \in Events
    BY OneEvent DEF Names, Streams!Garbled
  <2>3. got' \in Heard
    <3>1. PICK g, e : g = got /\ e = Streams!Event("error", NoPiece, Streams!Garbled)
      OBVIOUS
    <3>2. g \in Heard /\ e \in Events
      BY <2>2, <3>1 DEF RepliesTyped
    <3>3. Streams!HandleLlmStream(g, e) \in Heard
      BY <3>2, HeardKept
    <3> QED
      BY <2>1, <3>1, <3>2, <3>3
  <2>4. CASE UNCHANGED <<wire, partial>>
    BY <2>1, <2>3, <2>4 DEF RepliesTyped
  <2>5. CASE wire' = <<>> /\ partial' = FALSE
    <3>1. wire' \in Seq(Said)
      BY <1>1, <2>5
    <3>2. Len(wire') <= MaxWire
      BY <1>1, <2>5
    <3>3. active' \in Seq(Names)
      BY <2>1 DEF RepliesTyped
    <3> QED
      BY <2>3, <2>5, <3>1, <3>2, <3>3 DEF RepliesTyped
  <2> QED
    BY <2>1, <2>4, <2>5
<1> QED
  BY <1>2, <1>3, <1>4, <1>5, LineIsSaid DEF Streams!Next

\* What react assembles is open, done or failed, and its calls have ids of the upstream's
\* or none; part of a line is held only while there is a line
\* (capsule-openai-compat lib.rs process_chunk, capsule-react handle_llm_stream):
\* whether or not a chunk has cut a character.
THEOREM RepliesAreTyped ==
    ASSUME Apis \subseteq {"chat", "responses"}, MaxTools \in Nat, MaxWire \in Nat
    PROVE  Streams!Spec => []Streams!TypeOK
<1> DEFINE I == RepliesFit /\ RepliesTyped
<1>1. Streams!Init => I
  <2>1. ASSUME Streams!Init
        PROVE  RepliesTyped
    <3>1. <<>> \in Seq(Nat) /\ <<>> \in Seq(HeardCalls) /\ <<>> \in Seq(Names)
          /\ <<>> \in Seq(Said) /\ Len(<<>>) = 0
      OBVIOUS
    <3>2. got \in Heard
      BY <2>1, <3>1 DEF Streams!Init, Heard
    <3>3. wire = <<>> /\ active = <<>> /\ partial = FALSE
      BY <2>1 DEF Streams!Init
    <3>4. wire \in Seq(Said) /\ active \in Seq(Names)
      BY <3>1, <3>3
    <3>5. Len(wire) <= MaxWire
      BY <3>1, <3>3
    <3>6. partial \in BOOLEAN /\ ~partial
      BY <3>3
    <3> QED
      BY <3>2, <3>4, <3>5, <3>6 DEF RepliesTyped
  <2> QED
    BY <2>1, RepliesBegin
<1>2. I /\ [Streams!Next]_(Streams!vars) => I'
  BY RepliesStep, RepliesTypedKept
<1>3. I => Streams!TypeOK
  <2>1. SUFFICES ASSUME RepliesTyped
                 PROVE  Streams!TypeOK
    OBVIOUS
  <2>2. got \in Heard
    BY <2>1 DEF RepliesTyped
  <2>3. got.tools \in Seq(HeardCalls) /\ got.outcome \in {"open", "done", "error"}
    BY <2>2 DEF Heard
  <2>4. ASSUME NEW k \in DOMAIN got.tools
        PROVE  got.tools[k].id \in Names
    <3>1. got.tools[k] \in HeardCalls
      BY <2>3
    <3> QED
      BY <3>1 DEF HeardCalls
  <2> QED
    BY <2>1, <2>3, <2>4 DEF Streams!TypeOK, RepliesTyped, Names
<1> QED
  BY <1>1, <1>2, <1>3, PTL DEF Streams!Spec

-----------------------------------------------------------------------------
(* Compaction: estimates, and parts of a history *)

\* A message of a history; what its identifier is does not matter.
Messages(ids) == [id : ids, len : Nat]

\* f[n] is the estimate of the first n messages, as far as their positions are in `at`.
Sums(f, messages, at) ==
    /\ f \in [0..Len(messages) -> Nat] /\ f[0] = 0
    /\ Engine!EstimateTotal(messages, at) = f[Len(messages)]
    /\ \A n \in 1..Len(messages) :
          f[n] = IF n \in at THEN f[n - 1] + Engine!EstimateTokens(messages[n]) ELSE f[n - 1]

LEMMA EstimateIsASum ==
    ASSUME NEW ids, NEW messages \in Seq(Messages(ids)), NEW at
    PROVE  \E f : Sums(f, messages, at)
<1> DEFINE size == Len(messages)
           Next(n, sum) == IF n \in at THEN sum + Engine!EstimateTokens(messages[n]) ELSE sum
           step == [n \in 1..size |-> [sum \in Nat |-> Next(n, sum)]]
           Is(f) == f = [n \in 0..size |-> IF n = 0 THEN 0 ELSE Next(n, f[n - 1])]
<1>1. size \in Nat /\ 0 \in Nat
  OBVIOUS
<1>2. ASSUME NEW n \in 1..size, NEW sum \in Nat
      PROVE  Next(n, sum) \in Nat
  <2>1. messages[n] \in Messages(ids)
    OBVIOUS
  <2>2. Engine!EstimateTokens(messages[n]) \in Nat
    BY <2>1 DEF Messages, Engine!EstimateTokens
  <2> QED
    BY <2>2
<1>3. step \in [1..size -> [Nat -> Nat]] /\ \A n \in 1..size, sum \in Nat : step[n][sum] = Next(n, sum)
  <2> HIDE DEF Next
  <2> QED
    BY <1>2
<1>4. PICK f \in [0..size -> Nat] : f[0] = 0 /\ \A n \in 1..size : f[n] = step[n][f[n - 1]]
  <2> HIDE DEF step, size
  <2>1. Recursive(size, Nat, 0, step)
    BY <1>1, <1>3, RecursionExists
  <2> QED
    BY <2>1 DEF Recursive
<1>5. \A n \in 1..size : f[n - 1] \in Nat /\ f[n] = Next(n, f[n - 1])
  <2> HIDE DEF Next, step, size
  <2>1. \A n \in 1..size : n - 1 \in 0..size
    BY <1>1
  <2> QED
    BY <1>3, <1>4, <2>1
<1>6. Is(f)
  <2> HIDE DEF Next, step, size
  <2>1. f = [n \in 0..size |-> f[n]]
    BY <1>4
  <2>2. \A n \in 0..size : f[n] = IF n = 0 THEN 0 ELSE Next(n, f[n - 1])
    BY <1>1, <1>4, <1>5
  <2> QED
    BY <2>1, <2>2, Zenon
<1>7. Engine!EstimateTotal(messages, at) = (CHOOSE h : Is(h))[size]
  BY Zenon DEF Engine!EstimateTotal
<1>8. PICK h : Is(h) /\ Engine!EstimateTotal(messages, at) = h[size]
  <2> HIDE DEF Is
  <2>1. Is(CHOOSE h : Is(h))
    BY <1>6
  <2> QED
    BY <1>7, <2>1
<1> DEFINE Good == {n \in 0..size : h[n] = f[n]}
<1>9. \A n \in 0..size : n \in Good
  <2> HIDE DEF Next, step, size
  <2>1. h[0] = 0 /\ \A n \in 1..size : h[n] = Next(n, h[n - 1])
    BY <1>1, <1>8
  <2>2. 0 \in Good
    BY <1>1, <1>4, <2>1
  <2>3. \A n \in 1..size : n - 1 \in Good => n \in Good
    BY <1>1, <1>5, <2>1
  <2> HIDE DEF Good
  <2> QED
    BY <1>1, <2>2, <2>3, AlongPositions
<1>10. Engine!EstimateTotal(messages, at) = f[size]
  BY <1>1, <1>8, <1>9
<1> QED
  BY <1>4, <1>5, <1>10 DEF Sums

\* More messages are not estimated at less.
LEMMA EstimatesGrow ==
    ASSUME NEW ids, NEW messages \in Seq(Messages(ids)), NEW few, NEW many, few \subseteq many
    PROVE  /\ Engine!EstimateTotal(messages, few) \in Nat
           /\ Engine!EstimateTotal(messages, many) \in Nat
           /\ Engine!EstimateTotal(messages, few) <= Engine!EstimateTotal(messages, many)
<1> DEFINE size == Len(messages)
<1>1. PICK f : Sums(f, messages, few)
  BY EstimateIsASum
<1>2. PICK g : Sums(g, messages, many)
  BY EstimateIsASum
<1>3. size \in Nat /\ \A n \in 1..size : Engine!EstimateTokens(messages[n]) \in Nat
  <2>1. \A n \in 1..size : messages[n] \in Messages(ids)
    OBVIOUS
  <2>2. \A m \in Messages(ids) : Engine!EstimateTokens(m) \in Nat
    BY DEF Messages, Engine!EstimateTokens
  <2> QED
    BY <2>1, <2>2
<1> HIDE DEF size
<1> DEFINE Good == {n \in 0..size : f[n] <= g[n]}
<1>4. \A n \in 0..size : n \in Good
  <2>1. 0 \in Good
    BY <1>1, <1>2, <1>3 DEF Sums, size
  <2>2. ASSUME NEW n \in 1..size, n - 1 \in Good
        PROVE  n \in Good
    <3>1. n - 1 \in 0..size /\ n \in 0..size /\ f[n - 1] <= g[n - 1]
      BY <1>3, <2>2
    <3>2. f[n - 1] \in Nat /\ g[n - 1] \in Nat /\ Engine!EstimateTokens(messages[n]) \in Nat
      BY <1>1, <1>2, <1>3, <3>1 DEF Sums, size
    <3>3. /\ f[n] = IF n \in few THEN f[n - 1] + Engine!EstimateTokens(messages[n]) ELSE f[n - 1]
          /\ g[n] = IF n \in many THEN g[n - 1] + Engine!EstimateTokens(messages[n]) ELSE g[n - 1]
      BY <1>1, <1>2 DEF Sums, size
    <3>4. f[n] <= g[n]
      BY <3>1, <3>2, <3>3
    <3> QED
      BY <3>1, <3>4
  <2> HIDE DEF Good
  <2> QED
    BY <1>3, <2>1, <2>2, AlongPositions
<1>5. size \in 0..size
  BY <1>3
<1> QED
  BY <1>1, <1>2, <1>3, <1>4, <1>5 DEF Sums, size

\* All the messages of a history are the history.
LEMMA SubOfAll ==
    ASSUME NEW S, NEW messages \in Seq(S)
    PROVE  Engine!Picked(messages, DOMAIN messages) = messages
<1> DEFINE size == Len(messages)
           all == DOMAIN messages
           first == [n \in 0..size |-> [k \in 1..n |-> messages[k]]]
           Is(f) == f = [n \in 0..size |-> IF n = 0 THEN <<>>
                           ELSE IF n \in all THEN Append(f[n - 1], messages[n]) ELSE f[n - 1]]
<1>1. size \in Nat /\ all = 1..size
  OBVIOUS
<1>2. ASSUME NEW n \in 1..size
      PROVE  Append(first[n - 1], messages[n]) = first[n]
  <2>1. PICK s : s = [k \in 1..(n - 1) |-> messages[k]]
    OBVIOUS
  <2>2. s \in Seq(S) /\ Len(s) = n - 1
    BY <2>1
  <2>3. messages[n] \in S
    OBVIOUS
  <2>4. Append(s, messages[n]) = [k \in 1..n |-> IF k = n THEN messages[n] ELSE s[k]]
    BY <2>2, <2>3
  <2>5. [k \in 1..n |-> IF k = n THEN messages[n] ELSE s[k]] = [k \in 1..n |-> messages[k]]
    BY <2>1
  <2>6. first[n - 1] = s /\ first[n] = [k \in 1..n |-> messages[k]]
    BY <1>1, <2>1
  <2> QED
    BY <2>4, <2>5, <2>6
<1>3. Is(first)
  <2>1. first[0] = <<>>
    BY <1>1
  <2> HIDE DEF size, all
  <2>2. first = [n \in 0..size |-> first[n]]
    OBVIOUS
  <2> HIDE DEF first
  <2>3. ASSUME NEW n \in 0..size
        PROVE  first[n] = IF n = 0 THEN <<>>
                          ELSE IF n \in all THEN Append(first[n - 1], messages[n]) ELSE first[n - 1]
    <3>1. CASE n = 0
      BY <2>1, <3>1
    <3>2. CASE n # 0
      <4>1. n \in 1..size /\ n \in all
        BY <1>1, <3>2
      <4>2. Append(first[n - 1], messages[n]) = first[n]
        BY <1>2, <4>1
      <4> QED
        BY <3>2, <4>1, <4>2
    <3> QED
      BY <3>1, <3>2
  <2> QED
    BY <2>2, <2>3, Zenon
<1>4. Engine!Picked(messages, all) = (CHOOSE h : Is(h))[size]
  BY Zenon DEF Engine!Picked
<1>5. PICK h : Is(h) /\ Engine!Picked(messages, all) = h[size]
  <2> HIDE DEF Is
  <2>1. Is(CHOOSE h : Is(h))
    BY <1>3
  <2> QED
    BY <1>4, <2>1
<1> DEFINE Good == {n \in 0..size : h[n] = first[n]}
<1>6. \A n \in 0..size : n \in Good
  <2> HIDE DEF size, all, first
  <2>1. h[0] = <<>> /\ \A n \in 1..size : h[n] = Append(h[n - 1], messages[n])
    <3>1. 0 \in 0..size /\ \A n \in 1..size : n \in 0..size /\ n # 0 /\ n \in all
      BY <1>1
    <3>2. h = [n \in 0..size |-> IF n = 0 THEN <<>>
                 ELSE IF n \in all THEN Append(h[n - 1], messages[n]) ELSE h[n - 1]]
      BY <1>5
    <3> QED
      BY <3>1, <3>2
  <2>2. first[0] = <<>>
    BY <1>1 DEF first
  <2>3. 0 \in Good
    BY <1>1, <2>1, <2>2
  <2>4. ASSUME NEW n \in 1..size, n - 1 \in Good
        PROVE  n \in Good
    <3>1. n \in 0..size /\ h[n - 1] = first[n - 1]
      BY <1>1, <2>4
    <3>2. h[n] = first[n]
      BY <1>2, <2>1, <3>1
    <3> QED
      BY <3>1, <3>2
  <2> HIDE DEF Good
  <2> QED
    BY <1>1, <2>3, <2>4, AlongPositions
<1>7. first[size] = messages
  BY <1>1
<1>8. size \in 0..size
  BY <1>1
<1> HIDE DEF size, first
<1> QED
  BY <1>5, <1>6, <1>7, <1>8

-----------------------------------------------------------------------------
(* Compaction: what is removed *)

\* What summarize_and_truncate keeps is what it must.
LEMMA TruncationFits ==
    ASSUME NEW ids, NEW messages \in Seq(Messages(ids)), NEW target \in Nat, NEW protected,
           KeepRecent \in Nat
    PROVE  \E kept \in SUBSET DOMAIN messages :
              /\ Engine!SummarizeAndTruncate(messages, target, protected, KeepRecent)
                    = Engine!Picked(messages, kept)
              /\ Engine!Fits(kept, messages, target, protected)
<1> DEFINE all == DOMAIN messages
           removable == Engine!Removable(messages, protected, KeepRecent)
           total(at) == Engine!EstimateTotal(messages, at)
           before(i) == all \ {j \in removable : j < i}
           gone == {i \in removable : total(before(i)) > target}
           kept == all \ gone
<1>1. removable \subseteq all /\ all \subseteq Nat
  BY DEF Engine!Removable
<1>2. Engine!SummarizeAndTruncate(messages, target, protected, KeepRecent)
        = Engine!Picked(messages, kept)
  BY DEF Engine!SummarizeAndTruncate, Engine!LeftAt
<1>3. \A few, many : few \subseteq many =>
         total(few) \in Nat /\ total(many) \in Nat /\ total(few) <= total(many)
  BY EstimatesGrow
<1>4. gone \subseteq removable /\ all \ kept = gone
  BY <1>1
<1> HIDE DEF total, removable, all
<1>5. ASSUME NEW i \in removable, NEW j \in gone, i < j
      PROVE  i \in gone
  <2>1. before(j) \subseteq before(i)
    <3>1. i \in Nat /\ j \in Nat
      BY <1>1, <1>4, <1>5
    <3>2. \A k \in removable : k < i => k < j
      BY <1>1, <1>5, <3>1
    <3> QED
      BY <3>2
  <2>2. total(before(j)) <= total(before(i)) /\ total(before(j)) \in Nat /\ total(before(i)) \in Nat
    BY <1>3, <2>1
  <2> QED
    BY <1>5, <2>2
<1>6. ASSUME gone # removable
      PROVE  total(kept) <= target
  <2> DEFINE K == removable \ gone
  <2>1. PICK i \in K : \A other \in K : i <= other
    <3>1. K \subseteq Nat /\ K # {}
      BY <1>1, <1>4, <1>6
    <3> HIDE DEF K
    <3> QED
      BY <3>1, FirstPosition
  <2>2. \A j \in removable : j < i => j \in gone
    BY <1>1, <1>4, <2>1
  <2>3. kept \subseteq before(i)
    BY <2>2
  <2>4. total(kept) <= total(before(i)) /\ total(kept) \in Nat /\ total(before(i)) \in Nat
    BY <1>3, <2>3
  <2>5. ~(total(before(i)) > target)
    BY <2>1
  <2> QED
    BY <2>4, <2>5
<1>7. ASSUME NEW j \in gone, \A i \in gone : i <= j
      PROVE  total(kept \cup {j}) > target
  <2>1. \A i \in removable : i < j <=> i \in gone /\ i # j
    BY <1>1, <1>4, <1>5, <1>7
  <2>2. kept \cup {j} = before(j)
    BY <1>1, <1>4, <2>1
  <2> QED
    BY <2>2
<1>8. Engine!Fits(kept, messages, target, protected)
  <2> HIDE DEF gone, kept
  <2>1. /\ gone \subseteq removable
        /\ \A i \in removable, j \in gone : i < j => i \in gone
        /\ total(kept) <= target \/ gone = removable
        /\ \A j \in gone : (\A i \in gone : i <= j) => total(kept \cup {j}) > target
    BY <1>4, <1>5, <1>6, <1>7
  <2>2. all \ kept = gone
    BY <1>4
  <2> QED
    BY <2>1, <2>2, Zenon DEF Engine!Fits, total, removable, all
<1>9. kept \subseteq all
  OBVIOUS
<1> QED
  BY <1>2, <1>8, <1>9 DEF all

-----------------------------------------------------------------------------
(* Compaction: a call and its reply *)

\* What the caller asks, and a reply that answers it.
Asked == [session : Callers, messages : Histories, budget : Budgets]

Answers(c, messages, rs) ==
    \E kept \in SUBSET DOMAIN c.messages :
       /\ messages = Engine!Picked(c.messages, kept)
       /\ IF Engine!Skipped(rs) THEN kept = DOMAIN c.messages
          ELSE Engine!Fits(kept, c.messages, Engine!Least(c.budget[2], c.budget[1]),
                           Engine!Pinned(rs))

\* As long as no call was given up, the open call is in one place: among the
\* requests, in the engine, or answered.
CallIsSomewhere ==
    /\ asking = None => requests = <<>> /\ engine = None /\ replies = <<>>
    /\ asking # None =>
          /\ asking \in Asked
          /\ \/ requests = <<asking>> /\ engine = None /\ replies = <<>>
             \/ requests = <<>> /\ engine = asking /\ replies = <<>>
             \/ /\ requests = <<>> /\ engine = None
                /\ \E back : /\ replies = <<back>>
                              /\ Answers(asking, back.messages, back.responses)

CompactionFits ==
    /\ ~orphaned => CallIsSomewhere
    /\ orphaned \in BOOLEAN
    /\ Engine!CompactionKeepsWhatItMust

\* The histories are sequences of messages, the budgets pairs of numbers.
Sized(ids) == Histories \subseteq Seq(Messages(ids)) /\ Budgets \subseteq Nat \X Nat

LEMMA ReplyAnswers ==
    ASSUME KeepRecent \in Nat, NEW ids, Sized(ids), NEW c \in Asked, NEW rs
    PROVE  Answers(c, IF Engine!Skipped(rs) THEN c.messages
                      ELSE Engine!SummarizeAndTruncate(c.messages,
                             Engine!Least(c.budget[2], c.budget[1]), Engine!Pinned(rs), KeepRecent),
                   rs)
<1>1. c.messages \in Seq(Messages(ids)) /\ c.budget \in Nat \X Nat
  BY DEF Asked, Sized
<1>2. Engine!Least(c.budget[2], c.budget[1]) \in Nat
  BY <1>1 DEF Engine!Least
<1>3. CASE Engine!Skipped(rs)
  <2>1. Engine!Picked(c.messages, DOMAIN c.messages) = c.messages
    BY <1>1, SubOfAll
  <2> QED
    BY <1>3, <2>1 DEF Answers
<1>4. CASE ~Engine!Skipped(rs)
  BY <1>1, <1>2, <1>4, TruncationFits DEF Answers
<1> QED
  BY <1>3, <1>4

LEMMA CompactionStep ==
    ASSUME KeepRecent \in Nat, NEW ids, Sized(ids), None \notin Asked,
           CompactionFits, [Engine!Next]_(Engine!vars)
    PROVE  CompactionFits'
<1>1. CASE UNCHANGED Engine!vars
  <2>1. UNCHANGED <<asking, requests, engine, replies, sent, orphaned>>
    BY <1>1 DEF Engine!vars
  <2> QED
    BY <2>1 DEF CompactionFits, CallIsSomewhere, Engine!CompactionKeepsWhatItMust
<1>2. CASE \E s \in Callers : Engine!Compact(s)
  <2>1. PICK s \in Callers, h \in Histories, b \in Budgets :
           /\ asking = None /\ asking' = [session |-> s, messages |-> h, budget |-> b]
           /\ requests' = Append(requests, asking')
           /\ UNCHANGED <<engine, replies, sent, orphaned>>
    BY <1>2 DEF Engine!Compact
  <2>2. asking' \in Asked
    BY <2>1 DEF Asked
  <2>3. ASSUME ~orphaned
        PROVE  CallIsSomewhere'
    <3>1. requests = <<>> /\ engine = None /\ replies = <<>>
      BY <2>1, <2>3 DEF CompactionFits, CallIsSomewhere
    <3>2. requests' = <<asking'>>
      BY <2>1, <3>1
    <3> QED
      BY <2>1, <2>2, <3>1, <3>2 DEF CallIsSomewhere
  <2> QED
    BY <2>1, <2>3 DEF CompactionFits, Engine!CompactionKeepsWhatItMust
<1>3. CASE Engine!CompactTimesOut
  BY <1>3 DEF Engine!CompactTimesOut, CompactionFits, Engine!CompactionKeepsWhatItMust
<1>4. CASE Engine!CompactReturns
  <2>1. /\ asking # None /\ replies # <<>>
        /\ sent' = [call |-> asking, messages |-> Head(replies).messages, reply |-> Head(replies)]
        /\ asking' = None /\ replies' = <<>>
        /\ UNCHANGED <<requests, engine, orphaned>>
    BY <1>4 DEF Engine!CompactReturns
  <2>2. ASSUME ~orphaned
        PROVE  CallIsSomewhere' /\ Engine!CompactionKeepsWhatItMust'
    <3>1. PICK back : /\ replies = <<back>> /\ requests = <<>> /\ engine = None
                       /\ Answers(asking, back.messages, back.responses)
      BY <2>1, <2>2 DEF CompactionFits, CallIsSomewhere
    <3>2. sent' = [call |-> asking, messages |-> back.messages, reply |-> back]
      BY <2>1, <3>1
    <3>3. Answers(sent'.call, sent'.messages, sent'.reply.responses)
      BY <3>1, <3>2
    <3>4. Engine!CompactionKeepsWhatItMust'
      BY <3>3 DEF Engine!CompactionKeepsWhatItMust, Answers
    <3> QED
      BY <2>1, <3>1, <3>4 DEF CallIsSomewhere
  <2> QED
    BY <2>1, <2>2 DEF CompactionFits, Engine!CompactionKeepsWhatItMust
<1>5. CASE Engine!HandleCompact
  <2>1. /\ engine = None /\ requests # <<>> /\ engine' = Head(requests)
        /\ requests' = Tail(requests) /\ UNCHANGED <<asking, replies, sent, orphaned>>
    BY <1>5 DEF Engine!HandleCompact
  <2>2. ASSUME ~orphaned
        PROVE  CallIsSomewhere'
    <3>1. asking # None /\ asking \in Asked /\ requests = <<asking>> /\ replies = <<>>
      BY <2>1, <2>2 DEF CompactionFits, CallIsSomewhere
    <3>2. Head(<<asking>>) = asking /\ Tail(<<asking>>) = <<>>
      OBVIOUS
    <3> QED
      BY <2>1, <3>1, <3>2 DEF CallIsSomewhere
  <2> QED
    BY <2>1, <2>2 DEF CompactionFits, Engine!CompactionKeepsWhatItMust
<1>6. CASE (\E p \in Plugins : Engine!PluginAnswers(p)) \/ Engine!CollectResponses
  <2>1. UNCHANGED <<asking, requests, engine, replies, sent, orphaned>>
    BY <1>6 DEF Engine!PluginAnswers, Engine!CollectResponses
  <2> QED
    BY <2>1 DEF CompactionFits, CallIsSomewhere, Engine!CompactionKeepsWhatItMust
<1>7. CASE Engine!FinishCompact
  <2>1. PICK result, back :
           /\ result = IF Engine!Skipped(responses) THEN engine.messages
                       ELSE Engine!SummarizeAndTruncate(engine.messages,
                              Engine!Least(engine.budget[2], engine.budget[1]),
                              Engine!Pinned(responses), KeepRecent)
           /\ back = [messages |-> result, responses |-> responses]
           /\ engine # None /\ engine' = None
           /\ replies' = IF asking = None THEN <<>> ELSE Append(replies, back)
           /\ UNCHANGED <<asking, requests, sent, orphaned>>
    BY <1>7 DEF Engine!FinishCompact
  <2>2. ASSUME ~orphaned
        PROVE  CallIsSomewhere'
    <3>1. asking # None /\ asking \in Asked /\ engine = asking /\ requests = <<>> /\ replies = <<>>
      BY <2>1, <2>2 DEF CompactionFits, CallIsSomewhere
    <3>2. replies' = <<back>>
      BY <2>1, <3>1
    <3>3. Answers(asking, result, responses)
      <4>1. PICK c, rs : c = asking /\ rs = responses
        OBVIOUS
      <4> QED
        BY <2>1, <3>1, <4>1, ReplyAnswers
    <3>4. back.messages = result /\ back.responses = responses
      BY <2>1
    <3> QED
      BY <2>1, <3>1, <3>2, <3>3, <3>4 DEF CallIsSomewhere
  <2> QED
    BY <2>1, <2>2 DEF CompactionFits, Engine!CompactionKeepsWhatItMust
<1> QED
  BY <1>1, <1>2, <1>3, <1>4, <1>5, <1>6, <1>7 DEF Engine!Next

(* A session's compacted history is its own, less the oldest unprotected
   messages and no more of them than the budget asks for
   (capsule-context-engine summarize_and_truncate, react compact_messages), as
   long as no call was ever given up: for histories and budgets of any size,
   whatever the plugins answer and how many of their answers are collected.   *)
THEOREM CompactionHolds ==
    ASSUME KeepRecent \in Nat, NEW ids, Sized(ids), None \notin Asked
    PROVE  Engine!Spec => []Engine!CompactionKeepsWhatItMust
<1>1. Engine!Init => CompactionFits
  BY DEF Engine!Init, CompactionFits, CallIsSomewhere, Engine!CompactionKeepsWhatItMust
<1>2. CompactionFits /\ [Engine!Next]_(Engine!vars) => CompactionFits'
  BY CompactionStep
<1>3. CompactionFits => Engine!CompactionKeepsWhatItMust
  BY DEF CompactionFits
<1> QED
  BY <1>1, <1>2, <1>3, PTL DEF Engine!Spec

-----------------------------------------------------------------------------
(* Compaction: types *)

LEMMA HistoryPicked ==
    ASSUME NEW V, NEW list \in Seq(V), NEW at
    PROVE  /\ Engine!Picked(list, at) \in Seq(V)
           /\ Len(Engine!Picked(list, at)) <= Len(list)
<1> DEFINE size == Len(list)
           Next(n, s) == IF n \in at THEN Append(s, list[n]) ELSE s
           step == [n \in 1..size |-> [s \in Seq(V) |-> Next(n, s)]]
           Is(f) == f = [n \in 0..size |-> IF n = 0 THEN <<>>
                           ELSE IF n \in at THEN Append(f[n - 1], list[n]) ELSE f[n - 1]]
<1>1. size \in Nat /\ <<>> \in Seq(V) /\ \A n \in 1..size : n - 1 \in 0..size /\ n \in 0..size /\ n # 0
  OBVIOUS
<1>2. ASSUME NEW n \in 1..size, NEW s \in Seq(V)
      PROVE  Next(n, s) \in Seq(V)
  <2>1. list[n] \in V
    OBVIOUS
  <2> QED
    BY <2>1
<1>3. step \in [1..size -> [Seq(V) -> Seq(V)]] /\ \A n \in 1..size, s \in Seq(V) : step[n][s] = Next(n, s)
  <2> HIDE DEF Next
  <2> QED
    BY <1>2
<1>4. PICK h \in [0..size -> Seq(V)] : h[0] = <<>> /\ \A n \in 1..size : h[n] = step[n][h[n - 1]]
  <2> HIDE DEF step, size
  <2>1. Recursive(size, Seq(V), <<>>, step)
    BY <1>1, <1>3, RecursionExists
  <2> QED
    BY <2>1 DEF Recursive
<1>5. \A n \in 1..size : h[n - 1] \in Seq(V) /\ h[n] = Next(n, h[n - 1])
  <2> HIDE DEF Next, step, size
  <2> QED
    BY <1>1, <1>3, <1>4
<1>6. Is(h)
  <2> HIDE DEF step, size
  <2>1. h = [n \in 0..size |-> h[n]]
    BY <1>4
  <2>2. \A n \in 0..size : n = 0 \/ n \in 1..size
    BY <1>1
  <2>3. \A n \in 0..size : h[n] = IF n = 0 THEN <<>>
                             ELSE IF n \in at THEN Append(h[n - 1], list[n]) ELSE h[n - 1]
    BY <1>1, <1>4, <1>5, <2>2
  <2> QED
    BY <2>1, <2>3, Zenon
<1>7. Engine!Picked(list, at) = (CHOOSE g : Is(g))[size]
  BY Zenon DEF Engine!Picked
<1>8. PICK g : Is(g) /\ Engine!Picked(list, at) = g[size]
  <2> HIDE DEF Is
  <2>1. Is(CHOOSE g : Is(g))
    BY <1>6
  <2> QED
    BY <1>7, <2>1
<1>9. g[0] = <<>> /\ \A n \in 1..size : g[n] = IF n \in at THEN Append(g[n - 1], list[n]) ELSE g[n - 1]
  <2> HIDE DEF size
  <2>1. 0 \in 0..size
    BY <1>1
  <2>2. g = [n \in 0..size |-> IF n = 0 THEN <<>>
                ELSE IF n \in at THEN Append(g[n - 1], list[n]) ELSE g[n - 1]]
    BY <1>8
  <2>3. \A n \in 0..size : g[n] = IF n = 0 THEN <<>>
                ELSE IF n \in at THEN Append(g[n - 1], list[n]) ELSE g[n - 1]
    BY <2>2
  <2> QED
    BY <1>1, <2>1, <2>3
<1> DEFINE Good == {n \in 0..size : g[n] \in Seq(V) /\ Len(g[n]) <= n}
<1>10. 0 \in Good
  <2>1. 0 \in 0..size /\ g[0] \in Seq(V) /\ Len(g[0]) <= 0
    BY <1>1, <1>9
  <2> QED
    BY <2>1
<1>11. ASSUME NEW n \in 1..size, n - 1 \in Good
       PROVE  n \in Good
  <2>1. g[n - 1] \in Seq(V) /\ Len(g[n - 1]) <= n - 1 /\ list[n] \in V /\ n \in 0..size
    BY <1>1, <1>11
  <2>2. g[n] = IF n \in at THEN Append(g[n - 1], list[n]) ELSE g[n - 1]
    BY <1>9
  <2> DEFINE before == g[n - 1]
  <2>3. before \in Seq(V) /\ Len(before) <= n - 1 /\ Len(before) \in Nat
    BY <2>1
  <2>4. g[n] = IF n \in at THEN Append(before, list[n]) ELSE before
    BY <2>2
  <2> HIDE DEF before, size
  <2>5. Append(before, list[n]) \in Seq(V) /\ Len(Append(before, list[n])) = Len(before) + 1
    BY <2>1, <2>3
  <2>6. g[n] \in Seq(V) /\ Len(g[n]) <= n
    BY <1>1, <2>1, <2>3, <2>4, <2>5
  <2> QED
    BY <2>1, <2>6
<1>12. size \in Good
  <2> HIDE DEF size, Good
  <2>1. \A k \in 0..size : k \in Good
    BY <1>1, <1>10, <1>11, AlongPositions
  <2> QED
    BY <1>1, <2>1
<1> QED
  BY <1>8, <1>12

Pinning == [skip : {None, TRUE, FALSE}, pins : Pins \cup {{}}]

\* A plugin is asked once for each request, so what is collected and what is on its
\* way come from plugins that are not asked any more.
EngineTyped ==
    /\ requests \in Seq(Asked)
    /\ calls \in 0..MaxCalls /\ orphaned \in BOOLEAN
    /\ asked \subseteq Plugins
    /\ answers \in Seq(Pinning) /\ responses \in Seq(Pinning)
    /\ Len(responses) + Len(answers) + Cardinality(asked) <= Cardinality(Plugins)
    /\ engine = None => asked = {} /\ answers = <<>> /\ responses = <<>>

LEMMA EngineTypedKept ==
    ASSUME IsFiniteSet(Plugins), MaxCalls \in Nat, None \notin Asked,
           EngineTyped, [Engine!Next]_(Engine!vars)
    PROVE  EngineTyped'
<1>1. Cardinality(Plugins) \in Nat /\ Cardinality({}) = 0 /\ Len(<<>>) = 0
  BY FS_CardinalityType, FS_EmptySet
<1>2. CASE \E s \in Callers : Engine!Compact(s)
  <2>1. PICK s \in Callers, h \in Histories, b \in Budgets :
           /\ asking' = [session |-> s, messages |-> h, budget |-> b]
           /\ requests' = Append(requests, asking')
           /\ calls < MaxCalls /\ calls' = calls + 1
           /\ UNCHANGED <<engine, asked, answers, responses, orphaned>>
    BY <1>2 DEF Engine!Compact
  <2>2. asking' \in Asked
    BY <2>1 DEF Asked
  <2>3. requests' \in Seq(Asked)
    BY <2>1, <2>2 DEF EngineTyped
  <2>4. calls' \in 0..MaxCalls
    BY <2>1 DEF EngineTyped
  <2> QED
    BY <2>1, <2>3, <2>4 DEF EngineTyped
<1>3. CASE Engine!CompactTimesOut \/ Engine!CompactReturns
  <2>1. /\ UNCHANGED <<requests, engine, asked, answers, responses, calls>>
        /\ orphaned' \in BOOLEAN
    BY <1>3 DEF Engine!CompactTimesOut, Engine!CompactReturns, EngineTyped
  <2> QED
    BY <2>1 DEF EngineTyped
<1>4. CASE Engine!HandleCompact
  <2>1. /\ engine = None /\ requests # <<>> /\ engine' = Head(requests)
        /\ requests' = Tail(requests) /\ asked' = Plugins
        /\ UNCHANGED <<answers, responses, calls, orphaned>>
    BY <1>4 DEF Engine!HandleCompact
  <2>2. engine' \in Asked /\ requests' \in Seq(Asked)
    BY <2>1, TailElements DEF EngineTyped
  <2>3. answers = <<>> /\ responses = <<>>
    BY <2>1 DEF EngineTyped
  <2>4. Len(responses') + Len(answers') + Cardinality(asked') <= Cardinality(Plugins)
    BY <1>1, <2>1, <2>3
  <2> QED
    BY <2>1, <2>2, <2>4 DEF EngineTyped
<1>5. ASSUME NEW p \in Plugins, Engine!PluginAnswers(p)
      PROVE  EngineTyped'
  <2>1. PICK skip \in {None, TRUE, FALSE}, pins \in Pins \cup {{}} :
           /\ answers' = Append(answers, [skip |-> skip, pins |-> pins])
           /\ p \in asked /\ asked' = asked \ {p}
           /\ UNCHANGED <<requests, engine, responses, calls, orphaned>>
    BY <1>5 DEF Engine!PluginAnswers
  <2> DEFINE answer == [skip |-> skip, pins |-> pins]
  <2>2. answer \in Pinning
    BY DEF Pinning
  <2> HIDE DEF answer
  <2>3. answers' \in Seq(Pinning) /\ Len(answers') = Len(answers) + 1 /\ Len(answers) \in Nat
    BY <2>1, <2>2 DEF EngineTyped, answer
  <2>4. /\ IsFiniteSet(asked) /\ Cardinality(asked) \in Nat
        /\ Cardinality(asked') = Cardinality(asked) - 1
    BY <2>1, FS_Subset, FS_CardinalityType, FS_RemoveElement DEF EngineTyped
  <2>5. Len(responses) \in Nat
    BY DEF EngineTyped
  <2>6. Len(responses') + Len(answers') + Cardinality(asked') <= Cardinality(Plugins)
    BY <1>1, <2>1, <2>3, <2>4, <2>5 DEF EngineTyped
  <2>7. engine' # None
    BY <2>1 DEF EngineTyped
  <2> QED
    BY <2>1, <2>3, <2>6, <2>7 DEF EngineTyped
<1>6. CASE Engine!CollectResponses
  <2> DEFINE taken == Engine!Picked(answers,
                         {i \in DOMAIN answers : Engine!HasAnyField(answers[i])})
  <2>1. /\ responses' = responses \o taken /\ answers' = <<>> /\ engine # None
        /\ UNCHANGED <<requests, engine, asked, calls, orphaned>>
    BY <1>6 DEF Engine!CollectResponses
  <2>2. taken \in Seq(Pinning) /\ Len(taken) <= Len(answers)
    BY HistoryPicked DEF EngineTyped
  <2> HIDE DEF taken
  <2>3. /\ responses' \in Seq(Pinning) /\ Len(responses') = Len(responses) + Len(taken)
        /\ Len(responses) \in Nat /\ Len(taken) \in Nat /\ Len(answers) \in Nat
    BY <2>1, <2>2 DEF EngineTyped
  <2>4. Cardinality(asked) \in Nat
    BY FS_Subset, FS_CardinalityType DEF EngineTyped
  <2>5. Len(responses') + Len(answers') + Cardinality(asked') <= Cardinality(Plugins)
    BY <1>1, <2>1, <2>2, <2>3, <2>4 DEF EngineTyped
  <2> QED
    BY <2>1, <2>3, <2>5 DEF EngineTyped
<1>7. CASE Engine!FinishCompact
  <2>1. /\ asked' = {} /\ answers' = <<>> /\ responses' = <<>>
        /\ UNCHANGED <<requests, calls, orphaned>>
    BY <1>7 DEF Engine!FinishCompact
  <2>2. Len(responses') + Len(answers') + Cardinality(asked') <= Cardinality(Plugins)
    BY <1>1, <2>1
  <2> QED
    BY <2>1, <2>2 DEF EngineTyped
<1>8. CASE UNCHANGED Engine!vars
  BY <1>8 DEF Engine!vars, EngineTyped
<1> QED
  BY <1>2, <1>3, <1>4, <1>5, <1>6, <1>7, <1>8 DEF Engine!Next

LEMMA EngineBegins ==
    ASSUME IsFiniteSet(Plugins), MaxCalls \in Nat, None \notin Asked, Engine!Init
    PROVE  EngineTyped
<1>1. Cardinality(Plugins) \in Nat /\ Cardinality({}) = 0 /\ Len(<<>>) = 0
  BY FS_CardinalityType, FS_EmptySet
<1>2. /\ requests = <<>> /\ asked = {} /\ answers = <<>> /\ responses = <<>>
      /\ calls = 0 /\ orphaned = FALSE
  BY DEF Engine!Init
<1>3. requests \in Seq(Asked) /\ answers \in Seq(Pinning) /\ responses \in Seq(Pinning)
  BY <1>2
<1>4. Len(responses) + Len(answers) + Cardinality(asked) <= Cardinality(Plugins)
  BY <1>1, <1>2
<1>5. orphaned \in BOOLEAN /\ asked \subseteq Plugins
  BY <1>2
<1>6. calls \in 0..MaxCalls
  BY <1>2
<1> QED
  BY <1>2, <1>3, <1>4, <1>5, <1>6 DEF EngineTyped, Engine!Init

\* No plugin is heard twice on one request, and an engine that serves none holds no
\* answer over for the next (capsule-context-engine lib.rs:483-581).
THEOREM CompactionIsTyped ==
    ASSUME IsFiniteSet(Plugins), MaxCalls \in Nat, None \notin Asked
    PROVE  Engine!Spec => []Engine!TypeOK
<1>1. Engine!Init => EngineTyped
  BY EngineBegins
<1>2. EngineTyped /\ [Engine!Next]_(Engine!vars) => EngineTyped'
  BY EngineTypedKept
<1>3. EngineTyped => Engine!TypeOK
  <2> SUFFICES ASSUME EngineTyped
               PROVE  Engine!TypeOK
    OBVIOUS
  <2>1. Cardinality(asked) \in Nat /\ Cardinality(Plugins) \in Nat
    BY FS_Subset, FS_CardinalityType DEF EngineTyped
  <2>2. Len(responses) \in Nat /\ Len(answers) \in Nat
    BY DEF EngineTyped
  <2>3. Engine!Cardinality(Plugins) = Cardinality(Plugins)
    BY DEF Cardinality, Engine!Cardinality
  <2>4. Len(responses) + Len(answers) <= Engine!Cardinality(Plugins)
    BY <2>1, <2>2, <2>3 DEF EngineTyped
  <2> QED
    BY <2>4 DEF EngineTyped, Engine!TypeOK
<1> QED
  BY <1>1, <1>2, <1>3, PTL DEF Engine!Spec

-----------------------------------------------------------------------------
(* ChatProxy: the text of a reply *)

Texts == Seq(Nat \X Nat)
Bus == [to : Principals, session : Sessions, n : Nat, text : Texts, full : Texts]
Shown == [n : Nat, text : Texts, full : Texts, final : Texts]
TurnStates == [n : Nat, sent : Nat, from : Nat]
Connections == [up : BOOLEAN, principal : Principals \cup {None}, session : Sessions \cup {None},
            joined : Nat, screen : Texts, shown : {None} \cup Shown]

\* The first k chunks of turn n.
Text(n, k) == Chats!Chunks(n, 1, k)

LEMMA ListsOfLength ==
    ASSUME NEW S, NEW k \in Nat, NEW f \in [1..k -> S]
    PROVE  f \in Seq(S) /\ Len(f) = k
  OBVIOUS

LEMMA Joined ==
    ASSUME NEW S, NEW s \in Seq(S), NEW t \in Seq(S)
    PROVE  /\ s \o t \in Seq(S) /\ Len(s \o t) = Len(s) + Len(t)
           /\ \A j \in 1..(Len(s) + Len(t)) :
                 (s \o t)[j] = IF j <= Len(s) THEN s[j] ELSE t[j - Len(s)]
           /\ s \o t = [j \in 1..(Len(s) + Len(t)) |-> (s \o t)[j]]
<1>1. s \o t \in Seq(S) /\ Len(s \o t) = Len(s) + Len(t)
  OBVIOUS
<1>2. \A j \in 1..(Len(s) + Len(t)) :
         (s \o t)[j] = IF j <= Len(s) THEN s[j] ELSE t[j - Len(s)]
  OBVIOUS
<1>3. PICK u, size : u = s \o t /\ size = Len(s) + Len(t)
  OBVIOUS
<1>4. u \in Seq(S) /\ Len(u) = size
  BY <1>1, <1>3
<1>5. u = [j \in 1..size |-> u[j]]
  BY <1>4
<1> QED
  BY <1>1, <1>2, <1>3, <1>5

LEMMA ChunksAreText ==
    ASSUME NEW n \in Nat, NEW i \in Nat, NEW k \in Nat
    PROVE  /\ Chats!Chunks(n, i + 1, k) \in Texts /\ Len(Chats!Chunks(n, i + 1, k)) <= k
           /\ Text(n, k) \in Texts /\ Len(Text(n, k)) = k
           /\ Text(n, 0) = <<>> /\ (Text(n, k) = <<>> => k = 0)
<1>1. PICK size, f : size = k - (i + 1) + 1 /\ f = Chats!Chunks(n, i + 1, k)
  OBVIOUS
<1>2. f \in Texts /\ Len(f) <= k
  <2>1. size \in Int /\ f = [j \in 1..size |-> <<n, i + 1 + j - 1>>]
    BY <1>1 DEF Chats!Chunks
  <2>2. \A j \in 1..size : <<n, i + 1 + j - 1>> \in Nat \X Nat
    BY <2>1
  <2>3. f \in [1..size -> Nat \X Nat]
    BY <2>1, <2>2
  <2>4. CASE size \in Nat
    <3>1. f \in Texts /\ Len(f) = size
      BY <2>3, <2>4, ListsOfLength DEF Texts
    <3> QED
      BY <1>1, <3>1
  <2>5. CASE size \notin Nat
    <3>1. 1..size = 1..0
      BY <2>1, <2>5
    <3>2. f \in Texts /\ Len(f) = 0
      BY <2>3, <3>1, ListsOfLength DEF Texts
    <3> QED
      BY <3>2
  <2> QED
    BY <2>4, <2>5
<1>3. Text(n, k) = [j \in 1..k |-> <<n, j>>]
  BY DEF Text, Chats!Chunks
<1>4. Text(n, k) \in Texts /\ Len(Text(n, k)) = k /\ (Text(n, k) = <<>> => k = 0)
  <2>1. PICK t : t = Text(n, k)
    OBVIOUS
  <2>2. \A j \in 1..k : <<n, j>> \in Nat \X Nat
    OBVIOUS
  <2>3. t \in [1..k -> Nat \X Nat]
    BY <1>3, <2>1, <2>2
  <2>4. t \in Texts /\ Len(t) = k
    BY <2>3, ListsOfLength DEF Texts
  <2>5. Len(<<>>) = 0
    OBVIOUS
  <2> QED
    BY <2>1, <2>4, <2>5
<1>5. Text(n, 0) = <<>>
  BY DEF Text, Chats!Chunks
<1> QED
  BY <1>1, <1>2, <1>4, <1>5

LEMMA FailureIsText ==
    ASSUME NEW n \in Nat
    PROVE  Chats!Chunks(n, 0, 0) \in Texts /\ Len(Chats!Chunks(n, 0, 0)) = 1
<1>1. PICK f : f = Chats!Chunks(n, 0, 0)
  OBVIOUS
<1>2. f = [j \in 1..1 |-> <<n, 0 + j - 1>>]
  BY <1>1 DEF Chats!Chunks
<1>3. \A j \in 1..1 : <<n, 0 + j - 1>> \in Nat \X Nat
  OBVIOUS
<1>4. f \in [1..1 -> Nat \X Nat]
  BY <1>2, <1>3
<1> QED
  BY <1>1, <1>4, ListsOfLength DEF Texts

LEMMA TextGrows ==
    ASSUME NEW n \in Nat, NEW k \in Nat
    PROVE  Text(n, k) \o Chats!Chunks(n, k + 1, k + 1) = Text(n, k + 1)
<1>1. Text(n, k) = [j \in 1..k |-> <<n, j>>] /\ Text(n, k + 1) = [j \in 1..(k + 1) |-> <<n, j>>]
  BY DEF Text, Chats!Chunks
<1>2. Chats!Chunks(n, k + 1, k + 1) = [j \in 1..1 |-> <<n, k + j>>]
  <2>1. k + 1 - (k + 1) + 1 = 1 /\ \A j \in 1..1 : k + 1 + j - 1 = k + j
    OBVIOUS
  <2> QED
    BY <2>1 DEF Chats!Chunks
<1>3. PICK s, t, u : /\ s = Text(n, k) /\ t = Chats!Chunks(n, k + 1, k + 1) /\ u = s \o t
  OBVIOUS
<1>4. s \in Texts /\ Len(s) = k
  BY <1>3, ChunksAreText
<1>5. t \in Texts /\ Len(t) = 1 /\ t[1] = <<n, k + 1>>
  <2>1. \A j \in 1..1 : <<n, k + j>> \in Nat \X Nat
    OBVIOUS
  <2>2. t \in [1..1 -> Nat \X Nat]
    BY <1>2, <1>3, <2>1
  <2>3. t[1] = <<n, k + 1>>
    BY <1>2, <1>3
  <2> QED
    BY <2>2, <2>3, ListsOfLength DEF Texts
<1>6. /\ u = [j \in 1..(k + 1) |-> u[j]]
      /\ \A j \in 1..(k + 1) : u[j] = IF j <= k THEN s[j] ELSE t[j - k]
  <2>1. s \in Seq(Nat \X Nat) /\ t \in Seq(Nat \X Nat) /\ Len(s) + Len(t) = k + 1
    BY <1>4, <1>5 DEF Texts
  <2>2. /\ u = [j \in 1..(Len(s) + Len(t)) |-> u[j]]
        /\ \A j \in 1..(Len(s) + Len(t)) : u[j] = IF j <= Len(s) THEN s[j] ELSE t[j - Len(s)]
    BY <1>3, <2>1, Joined
  <2> QED
    BY <1>4, <2>1, <2>2
<1>7. \A j \in 1..k : s[j] = <<n, j>>
  BY <1>1, <1>3
<1>8. ASSUME NEW j \in 1..(k + 1)
      PROVE  u[j] = <<n, j>>
  <2>1. CASE j <= k
    BY <1>6, <1>7, <2>1
  <2>2. CASE ~(j <= k)
    <3>1. j = k + 1 /\ j - k = 1
      BY <2>2
    <3> QED
      BY <1>5, <1>6, <2>2, <3>1
  <2> QED
    BY <2>1, <2>2
<1>9. u = [j \in 1..(k + 1) |-> <<n, j>>]
  BY <1>6, <1>8
<1> QED
  BY <1>1, <1>3, <1>9

LEMMA Remainders ==
    ASSUME NEW full \in Texts, NEW streamed \in Texts
    PROVE  /\ Chats!Remainder(streamed, full) \in Texts
           /\ Chats!Remainder(<<>>, full) = full
           /\ full \o Chats!Remainder(full, full) = full
           /\ <<>> \o full = full
<1>1. <<>> \o full = full /\ full \o <<>> = full
  BY DEF Texts
<1>2. Chats!Remainder(streamed, full) \in Texts
  BY DEF Chats!Remainder, Texts
<1>3. Chats!Remainder(<<>>, full) = full
  <2>1. Chats!IsPrefix(<<>>, full)
    BY DEF Chats!IsPrefix, Texts
  <2>2. SubSeq(full, Len(<<>>) + 1, Len(full)) = full
    BY DEF Texts
  <2> QED
    BY <2>1, <2>2 DEF Chats!Remainder
<1>4. Chats!Remainder(full, full) = <<>>
  <2>1. Chats!IsPrefix(full, full)
    BY DEF Chats!IsPrefix, Texts
  <2>2. SubSeq(full, Len(full) + 1, Len(full)) = <<>>
    BY DEF Texts
  <2> QED
    BY <2>1, <2>2 DEF Chats!Remainder
<1> QED
  BY <1>1, <1>2, <1>3, <1>4

\* A final response no longer than what was streamed adds nothing to it.
LEMMA NothingRemains ==
    ASSUME NEW full \in Texts, NEW streamed \in Texts, Len(full) <= Len(streamed)
    PROVE  Chats!Remainder(streamed, full) = <<>>
<1>1. SubSeq(full, Len(streamed) + 1, Len(full)) = <<>>
  BY DEF Texts
<1> QED
  BY <1>1 DEF Chats!Remainder

-----------------------------------------------------------------------------
(* ChatProxy: the stream of a session *)

ChatTypes ==
    /\ conn \in [Conns -> Connections] /\ turn \in [Chats!Pairs -> TurnStates]
    /\ deltas \in Seq(Bus) /\ finals \in Seq(Bus) /\ accum \in [Sessions -> Texts]
    /\ between \in BOOLEAN /\ count \in Nat

\* A connection has a session only under a principal; turns are numbered by count.
Orderly ==
    /\ \A c \in Conns :
          /\ conn[c].session # None => conn[c].up /\ conn[c].principal # None
          /\ conn[c].shown # None => conn[c].shown.n <= count
    /\ \A ps \in Chats!Pairs : turn[ps].n <= count /\ (turn[ps].n = 0 => turn[ps].sent = 0)
    /\ \A j \in DOMAIN finals : finals[j].n <= count

\* The session's stream was not disturbed.
Quiet(s) == s \notin dirty
NoFinal(s) == \A j \in DOMAIN finals : finals[j].session # s
FirstFinal(s, j) ==
    /\ j \in DOMAIN finals /\ finals[j].session = s
    /\ \A i \in DOMAIN finals : i < j => finals[i].session # s

\* A turn's number and the chunks it streamed.
Sends(w, n, k) == w.n = n /\ w.sent = k

\* st[i] chunks of turn n were streamed once the first i deltas queued are read.
Queued(s, q, n, st) ==
    /\ st \in [0..Len(deltas) -> Nat] /\ accum[s] = Text(n, st[0])
    /\ \A i \in 1..Len(deltas) :
          IF deltas[i].session = s
          THEN /\ st[i] = st[i - 1] + 1 /\ deltas[i].to = q
               /\ deltas[i].text = Chats!Chunks(n, st[i - 1] + 1, st[i - 1] + 1)
          ELSE st[i] = st[i - 1]
    /\ \A i \in 0..Len(deltas) : st[0] <= st[i] /\ st[i] <= st[Len(deltas)]
    /\ between => st[0] = st[Len(deltas)]

\* A final response of a turn that streamed k chunks: they are all there is to show.
Closes(m, n, k) == m.full = Text(n, k) /\ Chats!Remainder(Text(n, k), m.text) = <<>>

\* The k chunks streamed are those of a turn in progress, or of the turn next to be
\* finished, whose final response adds nothing; a turn in progress that has streamed is
\* this one, and other final responses follow no streamed text.
Turned(s, q, n, k) ==
    /\ n <= count
    /\ k # 0 => \/ NoFinal(s) /\ Sends(turn[<<q, s>>], n, k)
                \/ \E j \in DOMAIN finals : /\ FirstFinal(s, j) /\ finals[j].to = q
                                            /\ finals[j].n = n /\ Closes(finals[j], n, k)
    /\ \A r \in Principals : turn[<<r, s>>].sent # 0 =>
          r = q /\ Sends(turn[<<r, s>>], n, k) /\ NoFinal(s)
    /\ \A j \in DOMAIN finals : finals[j].session = s =>
          finals[j].full = finals[j].text \/ (k # 0 /\ FirstFinal(s, j))

\* A screen that was on the session when the turn began shows what was read of it.
OnScreens(s, q, n, a) ==
    \A c \in Conns : conn[c].session = s =>
       IF conn[c].principal # q \/ a = 0 THEN conn[c].screen = <<>>
       ELSE conn[c].joined < n => conn[c].screen = Text(n, a)

Streamed(s, q, n, st) ==
    Queued(s, q, n, st) /\ Turned(s, q, n, st[Len(deltas)]) /\ OnScreens(s, q, n, st[0])

OneTurn(s) ==
    \A q, r \in Principals : turn[<<q, s>>].n # 0 /\ turn[<<r, s>>].n # 0 => q = r

InStep(s) == OneTurn(s) /\ \E q \in Principals, n \in Nat : \E st : Streamed(s, q, n, st)

ChatsFit ==
    /\ ChatTypes /\ Orderly
    /\ \A s \in Sessions : Quiet(s) => InStep(s)
    /\ Chats!UndisturbedRepliesRenderOnce

\* The constants: "default" is a principal, and None neither a session nor one.
ChatConstants ==
    /\ Chats!Default \in Principals
    /\ None \notin Principals /\ None \notin Sessions

LEMMA QuietGrows ==
    ASSUME NEW s, dirty \subseteq dirty', Quiet(s)'
    PROVE  Quiet(s)
  BY DEF Quiet

\* What a session's stream looks like depends on these only.
LEMMA StreamStays ==
    ASSUME NEW s \in Sessions, NEW q, NEW n, NEW st, Streamed(s, q, n, st), count \in Nat, n \in Nat,
           UNCHANGED <<deltas, finals, accum, between>>, count' \in Nat, count <= count',
           \A r \in Principals :
              \/ Sends(turn'[<<r, s>>], turn[<<r, s>>].n, turn[<<r, s>>].sent)
              \/ turn[<<r, s>>].sent = 0 /\ turn'[<<r, s>>].sent = 0,
           q \in Principals, OnScreens(s, q, n, st[0])'
    PROVE  Streamed(s, q, n, st)'
<1>1. Queued(s, q, n, st)'
  BY DEF Streamed, Queued
<1>2. Turned(s, q, n, st[Len(deltas)])'
  <2>1. PICK k : k = st[Len(deltas)]
    OBVIOUS
  <2>2. Turned(s, q, n, k)
    BY <2>1 DEF Streamed
  <2>3. NoFinal(s)' = NoFinal(s) /\ \A j : FirstFinal(s, j)' = FirstFinal(s, j)
    BY DEF NoFinal, FirstFinal
  <2>4. n <= count'
    BY <2>2 DEF Turned
  <2>5. ASSUME k # 0
        PROVE  \/ NoFinal(s)' /\ Sends(turn'[<<q, s>>], n, k)
               \/ \E j \in DOMAIN finals' : /\ FirstFinal(s, j)' /\ finals'[j].to = q
                                            /\ finals'[j].n = n /\ Closes(finals'[j], n, k)
    <3>1. CASE NoFinal(s) /\ Sends(turn[<<q, s>>], n, k)
      <4>1. turn[<<q, s>>].sent # 0
        BY <2>5, <3>1 DEF Sends
      <4> QED
        BY <2>3, <3>1, <4>1 DEF Sends
    <3>2. CASE \E j \in DOMAIN finals : /\ FirstFinal(s, j) /\ finals[j].to = q
                                        /\ finals[j].n = n /\ Closes(finals[j], n, k)
      BY <2>3, <3>2
    <3> QED
      BY <2>2, <2>5, <3>1, <3>2 DEF Turned
  <2>6. ASSUME NEW r \in Principals, turn'[<<r, s>>].sent # 0
        PROVE  r = q /\ Sends(turn'[<<r, s>>], n, k) /\ NoFinal(s)'
    BY <2>2, <2>3, <2>6 DEF Turned, Sends
  <2>7. Turned(s, q, n, k)'
    BY <2>2, <2>3, <2>4, <2>5, <2>6 DEF Turned
  <2> QED
    BY <2>1, <2>7
<1> QED
  BY <1>1, <1>2 DEF Streamed

LEMMA ChatsBegin ==
    ASSUME ChatConstants, Chats!Init
    PROVE  ChatsFit
<1>1. ChatTypes
  <2>1. <<>> \in Texts /\ <<>> \in Seq(Bus)
    BY DEF Texts
  <2>2. Chats!Down \in Connections
    BY <2>1 DEF Chats!Down, Connections
  <2>3. Chats!NoTurn \in TurnStates
    BY DEF Chats!NoTurn, TurnStates
  <2> QED
    BY <2>1, <2>2, <2>3 DEF Chats!Init, ChatTypes
<1>2. \A c \in Conns : conn[c].session = None /\ conn[c].shown = None
  BY DEF Chats!Init, Chats!Down
<1>3. \A ps \in Chats!Pairs : turn[ps].n = 0 /\ turn[ps].sent = 0
  BY DEF Chats!Init, Chats!NoTurn
<1>4. Orderly
  BY <1>2, <1>3 DEF Chats!Init, Orderly
<1>5. ASSUME NEW s \in Sessions
      PROVE  InStep(s)
  <2>1. PICK q \in Principals : q = Chats!Default
    BY DEF ChatConstants
  <2>2. PICK st : st = [i \in 0..0 |-> 0]
    OBVIOUS
  <2>3. \A r \in Principals : <<r, s>> \in Chats!Pairs
    BY DEF Chats!Pairs
  <2>4. Len(deltas) = 0 /\ 1..0 = {} /\ accum[s] = <<>> /\ count = 0 /\ ~between
    BY DEF Chats!Init
  <2>5. Queued(s, q, 0, st)
    BY <2>2, <2>4, ChunksAreText DEF Queued
  <2>6. Turned(s, q, 0, st[Len(deltas)])
    <3>1. DOMAIN finals = {}
      BY DEF Chats!Init
    <3> QED
      BY <1>3, <2>2, <2>3, <2>4, <3>1 DEF Turned
  <2>7. OnScreens(s, q, 0, st[0])
    BY <1>2 DEF OnScreens, ChatConstants
  <2>8. OneTurn(s)
    BY <1>3, <2>3 DEF OneTurn
  <2>9. 0 \in Nat
    OBVIOUS
  <2> QED
    BY <2>5, <2>6, <2>7, <2>8, <2>9 DEF InStep, Streamed
<1>6. Chats!UndisturbedRepliesRenderOnce
  BY <1>2 DEF Chats!UndisturbedRepliesRenderOnce, Chats!Whole
<1> QED
  BY <1>1, <1>4, <1>5, <1>6 DEF ChatsFit

\* A connection comes or goes.
LEMMA ChatsConnect ==
    ASSUME ChatConstants, ChatsFit, NEW c \in Conns, Chats!Connect(c) \/ Chats!Disconnect(c)
    PROVE  ChatsFit'
<1>1. PICK d : d = IF Chats!Connect(c) THEN [Chats!Down EXCEPT !.up = TRUE] ELSE Chats!Down
  OBVIOUS
<1>2. /\ conn' = [conn EXCEPT ![c] = d]
      /\ UNCHANGED <<turn, deltas, finals, accum, between, count, dirty>>
  BY <1>1 DEF Chats!Connect, Chats!Disconnect
<1>3. d \in Connections /\ d.session = None /\ d.shown = None
  <2>1. <<>> \in Texts
    BY DEF Texts
  <2> QED
    BY <1>1, <2>1 DEF Chats!Down, Connections
<1>4. /\ conn' \in [Conns -> Connections] /\ conn'[c] = d
      /\ \A e \in Conns \ {c} : conn'[e] = conn[e]
  BY <1>2, <1>3 DEF ChatsFit, ChatTypes
<1>5. ChatTypes'
  BY <1>2, <1>4 DEF ChatsFit, ChatTypes
<1>6. Orderly'
  BY <1>2, <1>3, <1>4 DEF ChatsFit, Orderly
<1>7. ASSUME NEW s \in Sessions, Quiet(s)'
      PROVE  InStep(s)'
  <2>1. Quiet(s)
    BY <1>2, <1>7 DEF Quiet
  <2>a. PICK q \in Principals, n \in Nat : \E st : OneTurn(s) /\ Streamed(s, q, n, st)
    BY <2>1 DEF ChatsFit, InStep
  <2>2. PICK st : OneTurn(s) /\ Streamed(s, q, n, st)
    BY <2>a
  <2>3. OnScreens(s, q, n, st[0])'
    <3>1. conn'[c].session # s
      BY <1>3, <1>4 DEF ChatConstants
    <3> QED
      BY <1>4, <2>2, <3>1 DEF Streamed, OnScreens
  <2>b. \A r \in Principals : Sends(turn'[<<r, s>>], turn[<<r, s>>].n, turn[<<r, s>>].sent)
    BY <1>2 DEF Sends
  <2>c. count \in Nat /\ count' \in Nat /\ count <= count'
    BY <1>2 DEF ChatsFit, ChatTypes
  <2>4. Streamed(s, q, n, st)'
    BY <1>2, <2>2, <2>3, <2>b, <2>c, StreamStays
  <2>5. OneTurn(s)'
    BY <1>2, <2>2 DEF OneTurn
  <2> QED
    BY <2>4, <2>5 DEF InStep
<1>8. Chats!UndisturbedRepliesRenderOnce'
  <2>1. ASSUME NEW e \in Conns, conn'[e].session \notin dirty'
        PROVE  conn'[e].shown = None \/ conn'[e].shown.n <= conn'[e].joined
               \/ conn'[e].shown.text = conn'[e].shown.full
    <3>1. CASE e = c
      BY <1>3, <1>4, <3>1
    <3>2. CASE e # c
      BY <1>2, <1>4, <2>1, <3>2 DEF ChatsFit, Chats!UndisturbedRepliesRenderOnce,
         Chats!Whole
    <3> QED
      BY <3>1, <3>2
  <2> QED
    BY <2>1 DEF Chats!UndisturbedRepliesRenderOnce, Chats!Whole
<1> QED
  BY <1>5, <1>6, <1>7, <1>8 DEF ChatsFit

\* A connection keeps its principal.
LEMMA PrincipalStays ==
    ASSUME ChatConstants, NEW bound \in Principals \cup {None},
           NEW claimed \in Principals \cup {None, Chats!Malformed},
           NEW p, p = Chats!DecideIngress(bound, claimed), p # None
    PROVE  p \in Principals /\ (bound # None => p = bound)
  BY DEF Chats!DecideIngress, ChatConstants

\* A message of a client.
LEMMA ChatsIngress ==
    ASSUME ChatConstants, ChatsFit, NEW c \in Conns, Chats!HandleIngress(c)
    PROVE  ChatsFit'
<1>1. PICK p \in Principals, s \in Sessions, joins \in BOOLEAN, starts \in BOOLEAN :
         /\ conn[c].up /\ (conn[c].principal # None => p = conn[c].principal)
         /\ joins => s # conn[c].session
         /\ starts => turn[<<p, s>>].n = 0
         /\ conn' = [conn EXCEPT ![c].principal = p,
                       ![c].session = IF joins THEN s ELSE @,
                       ![c].joined = IF joins THEN count ELSE @,
                       ![c].screen = IF joins THEN <<>> ELSE @]
         /\ joins \/ ~starts \/ s = conn[c].session
         /\ count' = IF starts THEN count + 1 ELSE count
         /\ turn' = IF starts THEN [turn EXCEPT ![<<p, s>>].n = count + 1] ELSE turn
         /\ dirty' = IF starts /\ \E q \in Principals \ {p} : turn[<<q, s>>].n # 0
                     THEN dirty \cup {s} ELSE dirty
         /\ UNCHANGED <<deltas, finals, accum, between>>
  <2>a. PICK claimed \in Principals \cup {None, Chats!Malformed},
             what \in {"prompt", "other"}, s \in Sessions :
           LET p == Chats!DecideIngress(conn[c].principal, claimed)
               joins == what = "prompt" /\ s # conn[c].session
               starts == what = "prompt" /\ turn[<<p, s>>].n = 0
           IN  /\ p # None
               /\ starts => count < MaxTurns
               /\ conn' = [conn EXCEPT ![c].principal = p,
                     ![c].session = IF joins THEN s ELSE @,
                     ![c].joined = IF joins THEN count ELSE @,
                     ![c].screen = IF joins THEN <<>> ELSE @]
               /\ count' = IF starts THEN count + 1 ELSE count
               /\ turn' = IF starts THEN [turn EXCEPT ![<<p, s>>].n = count + 1] ELSE turn
               /\ dirty' = IF starts /\ \E q \in Principals \ {p} : turn[<<q, s>>].n # 0
                           THEN dirty \cup {s} ELSE dirty
    BY Zenon DEF Chats!HandleIngress
  <2>b. PICK p : p = Chats!DecideIngress(conn[c].principal, claimed)
    OBVIOUS
  <2>c. PICK joins \in BOOLEAN, starts \in BOOLEAN :
           /\ joins = (what = "prompt" /\ s # conn[c].session)
           /\ starts = (what = "prompt" /\ turn[<<p, s>>].n = 0)
    OBVIOUS
  <2>d. conn[c].up /\ UNCHANGED <<deltas, finals, accum, between>>
    BY DEF Chats!HandleIngress
  <2>1. /\ p # None /\ conn[c].up
        /\ conn' = [conn EXCEPT ![c].principal = p,
                    ![c].session = IF joins THEN s ELSE @,
                    ![c].joined = IF joins THEN count ELSE @,
                    ![c].screen = IF joins THEN <<>> ELSE @]
        /\ count' = IF starts THEN count + 1 ELSE count
        /\ turn' = IF starts THEN [turn EXCEPT ![<<p, s>>].n = count + 1] ELSE turn
        /\ dirty' = IF starts /\ \E q \in Principals \ {p} : turn[<<q, s>>].n # 0
                    THEN dirty \cup {s} ELSE dirty
        /\ UNCHANGED <<deltas, finals, accum, between>>
    BY <2>a, <2>b, <2>c, <2>d
  <2>2. conn[c].principal \in Principals \cup {None}
    BY DEF ChatsFit, ChatTypes, Connections
  <2>3. p \in Principals /\ (conn[c].principal # None => p = conn[c].principal)
    <3>1. PICK bound : bound = conn[c].principal
      OBVIOUS
    <3> QED
      BY <2>1, <2>2, <2>b, <3>1, PrincipalStays
  <2>4. joins \/ ~starts \/ s = conn[c].session
    BY <2>c
  <2> QED
    BY <2>1, <2>3, <2>4, <2>c
<1>2. /\ count \in Nat /\ conn \in [Conns -> Connections] /\ conn[c] \in Connections
      /\ turn \in [Chats!Pairs -> TurnStates]
      /\ <<p, s>> \in Chats!Pairs
  BY DEF ChatsFit, ChatTypes, Chats!Pairs
<1>3. PICK d : d = [conn[c] EXCEPT !.principal = p,
                      !.session = IF joins THEN s ELSE conn[c].session,
                      !.joined = IF joins THEN count ELSE conn[c].joined,
                      !.screen = IF joins THEN <<>> ELSE conn[c].screen]
  OBVIOUS
<1>4. /\ d \in Connections /\ d.principal = p /\ d.up /\ d.shown = conn[c].shown
      /\ d.session = IF joins THEN s ELSE conn[c].session
      /\ d.joined = IF joins THEN count ELSE conn[c].joined
      /\ d.screen = IF joins THEN <<>> ELSE conn[c].screen
  <2>1. <<>> \in Texts
    BY DEF Texts
  <2> QED
    BY <1>1, <1>2, <1>3, <2>1 DEF Connections
<1>5. conn' = [conn EXCEPT ![c] = d]
  BY <1>1, <1>2, <1>3 DEF Connections
<1>6. /\ conn' \in [Conns -> Connections] /\ conn'[c] = d
      /\ \A e \in Conns \ {c} : conn'[e] = conn[e]
  BY <1>2, <1>4, <1>5
<1>7. /\ count' \in Nat /\ count <= count'
      /\ \A ps \in Chats!Pairs : turn'[ps] = IF starts /\ ps = <<p, s>>
                                           THEN [turn[ps] EXCEPT !.n = count + 1] ELSE turn[ps]
      /\ turn' \in [Chats!Pairs -> TurnStates]
  <2>1. count' \in Nat /\ count <= count'
    BY <1>1, <1>2
  <2>2. PICK w : w = [turn[<<p, s>>] EXCEPT !.n = count + 1]
    OBVIOUS
  <2>3. w \in TurnStates
    <3>1. turn[<<p, s>>] \in TurnStates /\ count + 1 \in Nat
      BY <1>2
    <3> QED
      BY <2>2, <3>1 DEF TurnStates
  <2>4. turn' = IF starts THEN [turn EXCEPT ![<<p, s>>] = w] ELSE turn
    BY <1>1, <2>2
  <2>5. \A ps \in Chats!Pairs : turn'[ps] = IF starts /\ ps = <<p, s>> THEN w ELSE turn[ps]
    BY <1>2, <2>4
  <2>6. turn' \in [Chats!Pairs -> TurnStates]
    BY <1>2, <2>3, <2>4
  <2> QED
    BY <2>1, <2>2, <2>5, <2>6
<1>8. ChatTypes'
  BY <1>1, <1>6, <1>7 DEF ChatsFit, ChatTypes
<1>9. \A e \in Conns : conn'[e].session # None =>
         conn'[e].up /\ conn'[e].principal # None
  BY <1>1, <1>4, <1>6 DEF ChatsFit, Orderly, ChatConstants
<1>10. \A e \in Conns : conn'[e].shown = conn[e].shown
                        /\ (conn[e].shown # None => conn[e].shown \in Shown)
  BY <1>2, <1>4, <1>6 DEF Connections
<1>11. Orderly'
  <2>1. \A e \in Conns : conn'[e].shown # None => conn'[e].shown.n <= count'
    BY <1>2, <1>7, <1>10 DEF ChatsFit, Orderly, Shown
  <2>2. \A ps \in Chats!Pairs : turn'[ps].n <= count' /\ (turn'[ps].n = 0 => turn'[ps].sent = 0)
    <3> TAKE ps \in Chats!Pairs
    <3>1. CASE starts /\ ps = <<p, s>>
      BY <1>1, <1>2, <1>7, <3>1 DEF TurnStates
    <3>2. CASE ~(starts /\ ps = <<p, s>>)
      <4>1. turn'[ps] = turn[ps] /\ turn[ps].n \in Nat
        BY <1>2, <1>7, <3>2 DEF TurnStates
      <4> QED
        BY <1>2, <1>7, <4>1 DEF ChatsFit, Orderly
    <3> QED
      BY <3>1, <3>2
  <2>3. \A j \in DOMAIN finals : finals[j].n <= count'
    <3>1. \A j \in DOMAIN finals : finals[j].n \in Nat
      <4>1. \A j \in DOMAIN finals : finals[j] \in Bus
        BY DEF ChatsFit, ChatTypes
      <4> QED
        BY <4>1 DEF Bus
    <3> QED
      BY <1>2, <1>7, <3>1 DEF ChatsFit, Orderly
  <2> QED
    BY <1>1, <1>9, <2>1, <2>2, <2>3 DEF Orderly
<1>12. dirty \subseteq dirty'
  BY <1>1
<1>13. ASSUME NEW t \in Sessions, Quiet(t)'
       PROVE  InStep(t)'
  <2>1. Quiet(t) /\ t \notin dirty'
    BY <1>12, <1>13, QuietGrows DEF Quiet
  <2>a. PICK q \in Principals, n \in Nat : \E st : OneTurn(t) /\ Streamed(t, q, n, st)
    BY <2>1 DEF ChatsFit, InStep
  <2>2. PICK st : OneTurn(t) /\ Streamed(t, q, n, st)
    BY <2>a
  <2>3. n <= count
    BY <2>2 DEF Streamed, Turned
  <2>4. OnScreens(t, q, n, st[0])'
    <3>1. ASSUME NEW e \in Conns, conn'[e].session = t
          PROVE  IF conn'[e].principal # q \/ st[0] = 0 THEN conn'[e].screen = <<>>
                 ELSE conn'[e].joined < n => conn'[e].screen = Text(n, st[0])
      <4>1. CASE e # c
        BY <1>6, <2>2, <3>1, <4>1 DEF Streamed, OnScreens
      <4>2. CASE e = c /\ joins
        <5>1. ~(count < n)
          BY <1>2, <2>3
        <5> QED
          BY <1>4, <1>6, <4>2, <5>1
      <4>3. CASE e = c /\ ~joins
        <5>1. conn[c].session = t /\ t # None
          BY <1>4, <1>6, <3>1, <4>3 DEF ChatConstants
        <5>2. p = conn[c].principal
          BY <1>1, <5>1 DEF ChatsFit, Orderly
        <5>3. /\ conn'[e].principal = conn[c].principal /\ conn'[e].screen = conn[c].screen
              /\ conn'[e].joined = conn[c].joined
          BY <1>4, <1>6, <4>3, <5>2
        <5> QED
          BY <2>2, <5>1, <5>3 DEF Streamed, OnScreens
      <4> QED
        BY <1>1, <4>1, <4>2, <4>3
    <3> QED
      BY <3>1 DEF OnScreens
  <2>5. \A r \in Principals : \/ Sends(turn'[<<r, t>>], turn[<<r, t>>].n, turn[<<r, t>>].sent)
                              \/ turn[<<r, t>>].sent = 0 /\ turn'[<<r, t>>].sent = 0
    <3> TAKE r \in Principals
    <3>1. <<r, t>> \in Chats!Pairs
      BY DEF Chats!Pairs
    <3>2. CASE starts /\ <<r, t>> = <<p, s>>
      <4>1. turn[<<r, t>>].n = 0
        BY <1>1, <3>2
      <4>2. turn[<<r, t>>].sent = 0
        BY <3>1, <4>1 DEF ChatsFit, Orderly
      <4>3. turn'[<<r, t>>] = [turn[<<r, t>>] EXCEPT !.n = count + 1]
        BY <1>7, <3>1, <3>2
      <4>4. turn[<<r, t>>] \in TurnStates
        BY <1>2, <3>1
      <4> QED
        BY <4>2, <4>3, <4>4 DEF TurnStates
    <3>3. CASE ~(starts /\ <<r, t>> = <<p, s>>)
      BY <1>7, <3>1, <3>3 DEF Sends
    <3> QED
      BY <3>2, <3>3
  <2>6. Streamed(t, q, n, st)'
    <3>1. UNCHANGED <<deltas, finals, accum, between>>
      BY <1>1
    <3> QED
      BY <1>2, <1>7, <2>2, <2>4, <2>5, <3>1, StreamStays
  <2>7. OneTurn(t)'
    <3>1. CASE starts /\ t = s
      <4>1. \A r \in Principals \ {p} : turn[<<r, s>>].n = 0
        BY <1>1, <2>1, <3>1
      <4>2. \A r \in Principals \ {p} : turn'[<<r, s>>].n = 0
        <5>1. \A r \in Principals \ {p} : <<r, s>> \in Chats!Pairs /\ <<r, s>> # <<p, s>>
          BY DEF Chats!Pairs
        <5> QED
          BY <1>7, <4>1, <5>1
      <4> QED
        BY <3>1, <4>2 DEF OneTurn
    <3>2. CASE ~(starts /\ t = s)
      <4>1. \A r \in Principals : turn'[<<r, t>>] = turn[<<r, t>>]
        <5>1. \A r \in Principals : <<r, t>> \in Chats!Pairs /\ (<<r, t>> = <<p, s>> => t = s)
          BY DEF Chats!Pairs
        <5> QED
          BY <1>7, <3>2, <5>1
      <4> QED
        BY <2>2, <4>1 DEF OneTurn
    <3> QED
      BY <3>1, <3>2
  <2> QED
    BY <2>6, <2>7 DEF InStep
<1>14. Chats!UndisturbedRepliesRenderOnce'
  <2>1. ASSUME NEW e \in Conns, conn'[e].session \notin dirty'
        PROVE  conn'[e].shown = None \/ conn'[e].shown.n <= conn'[e].joined
               \/ conn'[e].shown.text = conn'[e].shown.full
    <3>1. CASE e = c /\ joins
      BY <1>4, <1>6, <1>10, <3>1 DEF ChatsFit, Orderly
    <3>2. CASE ~(e = c /\ joins)
      <4>1. conn'[e].session = conn[e].session /\ conn'[e].joined = conn[e].joined
        BY <1>1, <1>4, <1>6, <3>2
      <4>2. conn[e].session \notin dirty
        BY <1>12, <2>1, <4>1
      <4> QED
        BY <1>10, <4>1, <4>2 DEF ChatsFit, Chats!UndisturbedRepliesRenderOnce, Chats!Whole
    <3> QED
      BY <3>1, <3>2
  <2> QED
    BY <2>1 DEF Chats!UndisturbedRepliesRenderOnce, Chats!Whole
<1> QED
  BY <1>8, <1>11, <1>13, <1>14 DEF ChatsFit

\* A turn in progress whose session has no reply waiting is the one being streamed.
LEMMA TurnIsStreamed ==
    ASSUME ChatTypes, Orderly, NEW s \in Sessions, InStep(s), NoFinal(s),
           NEW r \in Principals, turn[<<r, s>>].n # 0
    PROVE  \E st : /\ Streamed(s, r, turn[<<r, s>>].n, st)
                   /\ st[Len(deltas)] = turn[<<r, s>>].sent
<1>a. PICK q \in Principals, n \in Nat : \E st : OneTurn(s) /\ Streamed(s, q, n, st)
  BY DEF InStep
<1>1. PICK st : OneTurn(s) /\ Streamed(s, q, n, st)
  BY <1>a
<1>2. PICK k, w : k = st[Len(deltas)] /\ w = turn[<<r, s>>]
  OBVIOUS
<1>3. w \in TurnStates /\ w.n <= count
  BY <1>2 DEF ChatTypes, Orderly, Chats!Pairs
<1>4. CASE w.sent # 0
  <2>1. r = q /\ Sends(w, n, k)
    BY <1>1, <1>2, <1>4 DEF Streamed, Turned
  <2> QED
    BY <1>1, <1>2, <2>1 DEF Sends
<1>5. CASE w.sent = 0
  <2>1. k = 0
    <3>1. SUFFICES ASSUME k # 0
                   PROVE  FALSE
      OBVIOUS
    <3>2. Sends(turn[<<q, s>>], n, k)
      BY <1>1, <1>2, <3>1 DEF Streamed, Turned, FirstFinal, NoFinal
    <3>3. turn[<<q, s>>].n # 0
      BY <3>1, <3>2 DEF Orderly, Chats!Pairs, Sends
    <3>4. q = r
      BY <1>1, <3>3 DEF OneTurn
    <3> QED
      BY <1>2, <1>5, <3>1, <3>2, <3>4 DEF Sends
  <2>2. st \in [0..Len(deltas) -> Nat] /\ Len(deltas) \in Nat
    BY <1>1 DEF Streamed, Queued, ChatTypes
  <2>3. \A i \in 0..Len(deltas) : st[i] = 0
    BY <1>1, <1>2, <2>1, <2>2 DEF Streamed, Queued
  <2>4. 0 \in 0..Len(deltas)
    BY <2>2
  <2>5. \A i \in 1..Len(deltas) : deltas[i].session # s
    <3>1. SUFFICES ASSUME NEW i \in 1..Len(deltas), deltas[i].session = s
                   PROVE  FALSE
      OBVIOUS
    <3>2. st[i] = st[i - 1] + 1
      BY <1>1, <3>1 DEF Streamed, Queued
    <3>3. i \in 0..Len(deltas) /\ i - 1 \in 0..Len(deltas)
      BY <2>2
    <3> QED
      BY <2>3, <3>2, <3>3
  <2>6. accum[s] = Text(w.n, 0)
    <3>1. accum[s] = Text(n, 0)
      BY <1>1, <2>3, <2>4 DEF Streamed, Queued
    <3> QED
      BY <1>3, <3>1, ChunksAreText DEF TurnStates
  <2>7. Queued(s, r, w.n, st)
    BY <1>1, <2>3, <2>4, <2>5, <2>6 DEF Streamed, Queued
  <2>8. Turned(s, r, w.n, k)
    <3>1. ASSUME NEW p \in Principals, turn[<<p, s>>].sent # 0
          PROVE  FALSE
      <4>1. Sends(turn[<<p, s>>], n, k)
        BY <1>1, <1>2, <3>1 DEF Streamed, Turned
      <4> QED
        BY <2>1, <3>1, <4>1 DEF Sends
    <3> QED
      BY <1>3, <2>1, <3>1 DEF Turned, NoFinal
  <2>9. OnScreens(s, r, w.n, st[0])
    BY <1>1, <2>3, <2>4 DEF Streamed, OnScreens
  <2> QED
    BY <1>2, <1>5, <2>1, <2>7, <2>8, <2>9 DEF Streamed
<1> QED
  BY <1>4, <1>5

\* A chunk joins the queue.
LEMMA DeltaQueued ==
    ASSUME NEW s, NEW q, NEW n, NEW st, Queued(s, q, n, st), deltas \in Seq(Bus), NEW m \in Bus,
           deltas' = Append(deltas, m), accum' = accum, between' = between,
           m.session = s => /\ ~between /\ m.to = q
                            /\ m.text = Chats!Chunks(n, st[Len(deltas)] + 1, st[Len(deltas)] + 1)
    PROVE  \E next : /\ Queued(s, q, n, next)' /\ next[0] = st[0]
                     /\ next[Len(deltas')] = IF m.session = s THEN st[Len(deltas)] + 1
                                             ELSE st[Len(deltas)]
<1>1. PICK size, k, last : /\ size = Len(deltas) /\ k = st[size]
                           /\ last = IF m.session = s THEN k + 1 ELSE k
  OBVIOUS
<1>2. size \in Nat /\ st \in [0..size -> Nat] /\ k \in Nat /\ last \in Nat /\ k <= last
  BY <1>1 DEF Queued
<1>3. PICK next : next = [i \in 0..(size + 1) |-> IF i = size + 1 THEN last ELSE st[i]]
  OBVIOUS
<1>4. /\ next \in [0..(size + 1) -> Nat] /\ next[size + 1] = last
      /\ \A i \in 0..size : next[i] = st[i]
  BY <1>2, <1>3
<1>5. PICK all : all = deltas'
  OBVIOUS
<1>6. Len(all) = size + 1 /\ all[size + 1] = m /\ \A i \in 1..size : all[i] = deltas[i]
  BY <1>1, <1>5
<1>7. ASSUME NEW i \in 1..(size + 1)
      PROVE  IF all[i].session = s
             THEN /\ next[i] = next[i - 1] + 1 /\ all[i].to = q
                  /\ all[i].text = Chats!Chunks(n, next[i - 1] + 1, next[i - 1] + 1)
             ELSE next[i] = next[i - 1]
  <2>1. CASE i \in 1..size
    <3>1. next[i] = st[i] /\ next[i - 1] = st[i - 1] /\ all[i] = deltas[i]
      <4>1. i \in 0..size /\ i - 1 \in 0..size
        BY <1>2, <2>1
      <4> QED
        BY <1>4, <1>6, <2>1, <4>1
    <3> QED
      BY <1>1, <2>1, <3>1 DEF Queued
  <2>2. CASE i = size + 1
    <3>1. next[i] = last /\ next[i - 1] = k /\ all[i] = m
      BY <1>1, <1>2, <1>4, <1>6, <2>2
    <3> QED
      BY <1>1, <1>2, <3>1
  <2> QED
    BY <1>2, <2>1, <2>2
<1>8. ASSUME NEW i \in 0..(size + 1)
      PROVE  next[0] <= next[i] /\ next[i] <= next[size + 1]
  <2>1. 0 \in 0..size /\ size \in 0..size /\ next[0] = st[0] /\ st[0] \in Nat
    BY <1>2, <1>4
  <2>2. st[0] <= k
    BY <1>1, <2>1 DEF Queued
  <2>3. CASE i \in 0..size
    <3>1. st[0] <= st[i] /\ st[i] <= k /\ next[i] = st[i] /\ st[i] \in Nat
      BY <1>1, <1>2, <1>4, <2>3 DEF Queued
    <3> QED
      BY <1>2, <1>4, <2>1, <3>1
  <2>4. CASE i = size + 1
    BY <1>2, <1>4, <2>1, <2>2, <2>4
  <2> QED
    BY <1>2, <2>3, <2>4
<1>9. next[0] = st[0]
  BY <1>2, <1>4
<1>10. between => next[0] = next[size + 1]
  BY <1>1, <1>2, <1>4, <1>9 DEF Queued
<1>11. Queued(s, q, n, next)'
  <2>1. accum'[s] = Text(n, next[0])
    BY <1>9 DEF Queued
  <2> QED
    BY <1>4, <1>5, <1>6, <1>7, <1>8, <1>10, <2>1 DEF Queued
<1> QED
  BY <1>1, <1>4, <1>5, <1>6, <1>9, <1>11

\* A turn moves on: its session's stream, and what it leaves of the others.
LEMMA TurnMoves ==
    ASSUME ChatsFit, NEW r \in Principals, NEW s \in Sessions, NEW w \in TurnStates,
           turn[<<r, s>>].n # 0, turn' = [turn EXCEPT ![<<r, s>>] = w],
           w.n = turn[<<r, s>>].n \/ w = Chats!NoTurn, w.n = 0 => w.sent = 0,
           UNCHANGED <<conn, accum, between, count>>, dirty \subseteq dirty',
           \/ finals' = finals /\ deltas' = deltas
           \/ finals' = finals /\ \E m \in Bus : deltas' = Append(deltas, m) /\ m.session = s
           \/ deltas' = deltas /\ \E m \in Bus : /\ finals' = Append(finals, m)
                                                 /\ m.session = s /\ m.n <= count,
           Quiet(s)' => \E q \in Principals, n \in Nat : \E st : Streamed(s, q, n, st)'
    PROVE  ChatsFit'
<1>1. /\ ChatTypes /\ <<r, s>> \in Chats!Pairs
      /\ turn \in [Chats!Pairs -> TurnStates]
  BY DEF ChatsFit, ChatTypes, Chats!Pairs
<1>2. /\ turn' \in [Chats!Pairs -> TurnStates] /\ turn'[<<r, s>>] = w
      /\ \A ps \in Chats!Pairs \ {<<r, s>>} : turn'[ps] = turn[ps]
  BY <1>1
<1>3. ChatTypes'
  <2>1. deltas \in Seq(Bus) /\ finals \in Seq(Bus)
    BY <1>1 DEF ChatTypes
  <2>2. PICK S : S = Seq(Bus)
    OBVIOUS
  <2>3. \A queue \in S, m \in Bus : Append(queue, m) \in S
    BY <2>2
  <2>4. deltas' \in Seq(Bus)
    BY <2>1, <2>2, <2>3
  <2>5. finals' \in Seq(Bus)
    BY <2>1, <2>2, <2>3
  <2> QED
    BY <1>1, <1>2, <2>4, <2>5 DEF ChatTypes
<1>4. Orderly'
  <2>1. \A ps \in Chats!Pairs : turn'[ps].n <= count' /\ (turn'[ps].n = 0 => turn'[ps].sent = 0)
    <3> TAKE ps \in Chats!Pairs
    <3>1. CASE ps = <<r, s>>
      <4>1. w.n <= count
        BY <1>1 DEF ChatsFit, Orderly, Chats!NoTurn, ChatTypes, TurnStates
      <4> QED
        BY <1>2, <3>1, <4>1
    <3>2. CASE ps # <<r, s>>
      BY <1>2, <3>2 DEF ChatsFit, Orderly
    <3> QED
      BY <3>1, <3>2
  <2>2. \A j \in DOMAIN finals' : finals'[j].n <= count'
    <3>1. CASE finals' = finals
      BY <3>1 DEF ChatsFit, Orderly
    <3>2. CASE \E m \in Bus : /\ finals' = Append(finals, m) /\ m.session = s /\ m.n <= count
      <4>1. PICK m \in Bus : finals' = Append(finals, m) /\ m.n <= count
        BY <3>2
      <4>2. PICK all : all = finals'
        OBVIOUS
      <4>3. \A j \in DOMAIN all : all[j] = m \/ (j \in DOMAIN finals /\ all[j] = finals[j])
        BY <1>1, <4>1, <4>2 DEF ChatTypes
      <4> QED
        BY <4>1, <4>2, <4>3 DEF ChatsFit, Orderly
    <3> QED
      BY <3>1, <3>2
  <2> QED
    BY <2>1, <2>2 DEF ChatsFit, Orderly
<1>5. ASSUME NEW t \in Sessions, Quiet(t)'
      PROVE  InStep(t)'
  <2>1. Quiet(t)
    BY <1>5, QuietGrows
  <2>a. PICK q \in Principals, n \in Nat : \E st : OneTurn(t) /\ Streamed(t, q, n, st)
    BY <2>1 DEF ChatsFit, InStep
  <2>2. PICK st : OneTurn(t) /\ Streamed(t, q, n, st)
    BY <2>a
  <2>3. OneTurn(t)'
    <3>1. \A p \in Principals : <<p, t>> \in Chats!Pairs
      BY DEF Chats!Pairs
    <3>2. \A p \in Principals : turn'[<<p, t>>].n # 0 => turn[<<p, t>>].n # 0
      BY <1>2, <3>1
    <3> QED
      BY <2>2, <3>2 DEF OneTurn
  <2>4. CASE t = s
    BY <1>5, <2>3, <2>4 DEF InStep
  <2>5. CASE t # s
    <3>1. \A p \in Principals : turn'[<<p, t>>] = turn[<<p, t>>]
      <4>1. \A p \in Principals : <<p, t>> \in Chats!Pairs /\ <<p, t>> # <<r, s>>
        BY <2>5 DEF Chats!Pairs
      <4> QED
        BY <1>2, <4>1
    <3>2. PICK k : k = st[Len(deltas)]
      OBVIOUS
    <3>3. PICK next : /\ Queued(t, q, n, next)' /\ next[0] = st[0] /\ next[Len(deltas')] = k
      <4>1. CASE deltas' = deltas
        <5>1. Queued(t, q, n, st)'
          BY <2>2, <4>1 DEF Streamed, Queued
        <5> QED
          BY <3>2, <4>1, <5>1
      <4>2. CASE \E m \in Bus : deltas' = Append(deltas, m) /\ m.session = s
        <5>1. PICK m \in Bus : deltas' = Append(deltas, m) /\ m.session # t
          BY <2>5, <4>2
        <5> QED
          BY <1>1, <2>2, <3>2, <5>1, DeltaQueued DEF Streamed, ChatTypes
      <4> QED
        BY <4>1, <4>2
    <3>4. /\ NoFinal(t) => NoFinal(t)'
          /\ \A j \in DOMAIN finals : FirstFinal(t, j) =>
                j \in DOMAIN finals' /\ finals'[j] = finals[j] /\ FirstFinal(t, j)'
          /\ \A j \in DOMAIN finals' : finals'[j].session = t =>
                j \in DOMAIN finals /\ finals'[j] = finals[j]
      <4>1. CASE finals' = finals
        BY <4>1 DEF NoFinal, FirstFinal
      <4>2. CASE \E m \in Bus : finals' = Append(finals, m) /\ m.session = s
        <5>1. PICK m \in Bus : finals' = Append(finals, m) /\ m.session # t
          BY <2>5, <4>2
        <5>2. PICK all : all = finals'
          OBVIOUS
        <5>3. /\ \A j \in DOMAIN all : all[j] = m \/ (j \in DOMAIN finals /\ all[j] = finals[j])
              /\ \A j \in DOMAIN finals : j \in DOMAIN all /\ all[j] = finals[j]
          BY <1>1, <5>1, <5>2 DEF ChatTypes
        <5> QED
          BY <5>1, <5>2, <5>3 DEF NoFinal, FirstFinal
      <4> QED
        BY <4>1, <4>2
    <3>5. Turned(t, q, n, k)
      BY <2>2, <3>2 DEF Streamed
    <3>6. Turned(t, q, n, k)'
      <4>1. n <= count'
        BY <3>5 DEF Turned
      <4>2. ASSUME k # 0
            PROVE  \/ NoFinal(t)' /\ Sends(turn'[<<q, t>>], n, k)
                   \/ \E j \in DOMAIN finals' : /\ FirstFinal(t, j)' /\ finals'[j].to = q
                                                /\ finals'[j].n = n
                                                /\ Closes(finals'[j], n, k)
        <5>1. CASE NoFinal(t) /\ Sends(turn[<<q, t>>], n, k)
          BY <3>1, <3>4, <5>1
        <5>2. CASE \E j \in DOMAIN finals : /\ FirstFinal(t, j) /\ finals[j].to = q
                                            /\ finals[j].n = n /\ Closes(finals[j], n, k)
          BY <3>4, <5>2
        <5> QED
          BY <3>5, <4>2, <5>1, <5>2 DEF Turned
      <4>3. ASSUME NEW p \in Principals, turn'[<<p, t>>].sent # 0
            PROVE  p = q /\ Sends(turn'[<<p, t>>], n, k) /\ NoFinal(t)'
        BY <3>1, <3>4, <3>5, <4>3 DEF Turned
      <4>4. ASSUME NEW j \in DOMAIN finals', finals'[j].session = t
            PROVE  finals'[j].full = finals'[j].text \/ (k # 0 /\ FirstFinal(t, j)')
        <5>1. j \in DOMAIN finals /\ finals'[j] = finals[j] /\ finals[j].session = t
          BY <3>4, <4>4
        <5>2. finals[j].full = finals[j].text \/ (k # 0 /\ FirstFinal(t, j))
          BY <3>5, <5>1 DEF Turned
        <5> QED
          BY <3>4, <5>1, <5>2
      <4> QED
        BY <4>1, <4>2, <4>3, <4>4 DEF Turned
    <3>7. OnScreens(t, q, n, next[0])'
      BY <2>2, <3>3 DEF Streamed, OnScreens
    <3>8. Streamed(t, q, n, next)'
      BY <3>3, <3>6, <3>7 DEF Streamed
    <3> QED
      BY <2>3, <3>8 DEF InStep
  <2> QED
    BY <2>4, <2>5
<1>6. Chats!UndisturbedRepliesRenderOnce'
  BY DEF ChatsFit, Chats!UndisturbedRepliesRenderOnce, Chats!Whole
<1> QED
  BY <1>3, <1>4, <1>5, <1>6 DEF ChatsFit

\* The messages of a turn.
LEMMA MessagesOfATurn ==
    ASSUME NEW r \in Principals, NEW s \in Sessions, NEW n \in Nat, NEW text \in Texts,
           NEW full \in Texts, NEW m, m = Chats!Message(<<r, s>>, n, text, full)
    PROVE  /\ m \in Bus /\ m.to = r /\ m.session = s /\ m.n = n /\ m.text = text
           /\ m.full = full
  BY DEF Chats!Message, Bus

LEMMA ChatsDelta ==
    ASSUME ChatsFit, NEW ps \in Chats!Pairs, Chats!StreamDelta(ps)
    PROVE  ChatsFit'
<1>1. PICK r \in Principals, s \in Sessions : ps = <<r, s>> /\ ps[1] = r /\ ps[2] = s
  BY DEF Chats!Pairs
<1>2. PICK n, k, i, m, w :
         /\ n = turn[ps].n /\ k = turn[ps].sent /\ i = k + 1
         /\ m = Chats!Message(ps, n, Chats!Chunks(n, i, i), Chats!Chunks(n, 1, i))
         /\ w = [turn[ps] EXCEPT !.sent = turn[ps].sent + 1]
  OBVIOUS
<1>3. /\ n # 0 /\ turn' = [turn EXCEPT ![ps] = w]
      /\ UNCHANGED <<conn, finals, accum, between, count>>
      /\ \/ /\ deltas' = Append(deltas, m)
            /\ dirty' = IF between \/ \E j \in 1..Len(finals) : finals[j].session = s
                        THEN dirty \cup {s} ELSE dirty
         \/ deltas' = deltas /\ dirty' = dirty \cup {s}
  <2>1. turn' = [turn EXCEPT ![ps].sent = @ + 1]
    BY DEF Chats!StreamDelta
  <2>2. turn' = [turn EXCEPT ![ps] = w]
    BY <1>2, <2>1
  <2> QED
    BY <1>1, <1>2, <2>2 DEF Chats!StreamDelta, Chats!Disturb
<1>4. n \in Nat /\ k \in Nat /\ Sends(turn[ps], n, k) /\ Sends(w, n, i) /\ w \in TurnStates
  <2>1. turn[ps] \in TurnStates
    BY DEF ChatsFit, ChatTypes
  <2> QED
    BY <1>2, <2>1 DEF TurnStates, Sends
<1>5. m \in Bus /\ m.to = r /\ m.session = s /\ m.text = Chats!Chunks(n, k + 1, k + 1)
  <2>1. Chats!Chunks(n, k + 1, k + 1) \in Texts /\ Chats!Chunks(n, 1, k + 1) \in Texts
    BY <1>4, ChunksAreText DEF Text
  <2> QED
    BY <1>1, <1>2, <1>4, <2>1, MessagesOfATurn
<1>6. dirty \subseteq dirty'
  BY <1>3
<1>7. ASSUME Quiet(s)'
      PROVE  \E q \in Principals, number \in Nat : \E st : Streamed(s, q, number, st)'
  <2>1. Quiet(s) /\ s \notin dirty'
    BY <1>6, <1>7, QuietGrows DEF Quiet
  <2>2. deltas' = Append(deltas, m) /\ ~between /\ NoFinal(s)
    <3>1. s \notin dirty'
      BY <2>1
    <3>2. DOMAIN finals = 1..Len(finals)
      BY DEF ChatsFit, ChatTypes
    <3> QED
      BY <1>3, <3>1, <3>2 DEF NoFinal
  <2>3. InStep(s)
    BY <2>1 DEF ChatsFit
  <2>4. PICK st : Streamed(s, r, n, st) /\ st[Len(deltas)] = k
    BY <1>1, <1>2, <1>3, <2>2, <2>3, TurnIsStreamed DEF ChatsFit
  <2>5. PICK next : Queued(s, r, n, next)' /\ next[0] = st[0] /\ next[Len(deltas')] = i
    <3>1. Queued(s, r, n, st) /\ deltas \in Seq(Bus)
      BY <2>4 DEF Streamed, ChatsFit, ChatTypes
    <3>2. m.text = Chats!Chunks(n, st[Len(deltas)] + 1, st[Len(deltas)] + 1)
      BY <1>5, <2>4
    <3>3. accum' = accum /\ between' = between
      BY <1>3
    <3>4. PICK next : /\ Queued(s, r, n, next)' /\ next[0] = st[0]
                      /\ next[Len(deltas')] = IF m.session = s THEN st[Len(deltas)] + 1
                                              ELSE st[Len(deltas)]
      BY <1>5, <2>2, <3>1, <3>2, <3>3, DeltaQueued
    <3> QED
      BY <1>2, <1>5, <2>4, <3>4
  <2>6. Turned(s, r, n, i)'
    <3>1. NoFinal(s)'
      BY <1>3, <2>2 DEF NoFinal
    <3>2. Sends(turn'[<<r, s>>], n, i)
      BY <1>1, <1>3, <1>4 DEF ChatsFit, ChatTypes
    <3>3. n <= count'
      BY <1>3, <2>4 DEF Streamed, Turned
    <3>4. ASSUME NEW p \in Principals, turn'[<<p, s>>].sent # 0, p # r
          PROVE  FALSE
      <4>1. <<p, s>> \in Chats!Pairs /\ <<p, s>> # ps
        BY <1>1, <3>4 DEF Chats!Pairs
      <4>2. turn[<<p, s>>].sent # 0
        BY <1>3, <3>4, <4>1 DEF ChatsFit, ChatTypes
      <4> QED
        BY <2>4, <3>4, <4>2 DEF Streamed, Turned
    <3>5. \A j \in DOMAIN finals' : finals'[j].session # s
      BY <3>1 DEF NoFinal
    <3> QED
      BY <3>1, <3>2, <3>3, <3>4, <3>5 DEF Turned
  <2>7. OnScreens(s, r, n, next[0])'
    BY <1>3, <2>4, <2>5 DEF Streamed, OnScreens
  <2>8. Streamed(s, r, n, next)'
    BY <2>5, <2>6, <2>7 DEF Streamed
  <2> QED
    BY <1>4, <2>8
<1>8. w \in TurnStates /\ w.n = turn[ps].n /\ w.n # 0
  BY <1>2, <1>3, <1>4 DEF Sends
<1>9. \/ finals' = finals /\ deltas' = deltas
      \/ finals' = finals /\ \E x \in Bus : deltas' = Append(deltas, x) /\ x.session = s
  BY <1>3, <1>5
<1> QED
  BY <1>1, <1>2, <1>3, <1>6, <1>7, <1>8, <1>9, TurnMoves

\* The next round of a turn leaves the stream alone.
LEMMA ChatsRound ==
    ASSUME ChatsFit, NEW ps \in Chats!Pairs, Chats!ToolRound(ps)
    PROVE  ChatsFit'
<1>1. PICK r \in Principals, s \in Sessions : ps = <<r, s>>
  BY DEF Chats!Pairs
<1>2. PICK w : w = [turn[ps] EXCEPT !.from = turn[ps].sent]
  OBVIOUS
<1>3. /\ turn' = [turn EXCEPT ![ps] = w] /\ turn[ps].from # turn[ps].sent
      /\ UNCHANGED <<conn, deltas, finals, accum, between, count, dirty>>
  BY <1>2 DEF Chats!ToolRound
<1>4. /\ turn \in [Chats!Pairs -> TurnStates] /\ turn[ps] \in TurnStates /\ count \in Nat
      /\ turn[ps].n = 0 => turn[ps].sent = 0
  BY DEF ChatsFit, ChatTypes, Orderly
<1>5. w \in TurnStates /\ Sends(w, turn[ps].n, turn[ps].sent)
  BY <1>2, <1>4 DEF TurnStates, Sends
<1>6. ASSUME NEW t \in Sessions, NEW p \in Principals
      PROVE  Sends(turn'[<<p, t>>], turn[<<p, t>>].n, turn[<<p, t>>].sent)
  <2>1. <<p, t>> \in Chats!Pairs
    BY DEF Chats!Pairs
  <2> QED
    BY <1>3, <1>4, <1>5, <2>1 DEF Sends
<1>7. ChatTypes'
  BY <1>3, <1>4, <1>5 DEF ChatsFit, ChatTypes
<1>8. Orderly'
  <2>1. ASSUME NEW x \in Chats!Pairs
        PROVE  turn'[x].n = turn[x].n /\ turn'[x].sent = turn[x].sent
    <3>1. PICK p \in Principals, t \in Sessions : x = <<p, t>>
      BY DEF Chats!Pairs
    <3> QED
      BY <1>6, <3>1 DEF Sends
  <2> QED
    BY <1>3, <2>1 DEF ChatsFit, Orderly
<1>9. ASSUME NEW t \in Sessions, Quiet(t)'
      PROVE  InStep(t)'
  <2>1. Quiet(t)
    BY <1>3, <1>9 DEF Quiet
  <2>a. PICK q \in Principals, n \in Nat : \E st : OneTurn(t) /\ Streamed(t, q, n, st)
    BY <2>1 DEF ChatsFit, InStep
  <2>2. PICK st : OneTurn(t) /\ Streamed(t, q, n, st)
    BY <2>a
  <2>3. OnScreens(t, q, n, st[0])'
    BY <1>3, <2>2 DEF Streamed, OnScreens
  <2>4. Streamed(t, q, n, st)'
    BY <1>3, <1>4, <1>6, <2>2, <2>3, StreamStays
  <2>5. OneTurn(t)'
    BY <1>6, <2>2 DEF OneTurn, Sends
  <2> QED
    BY <2>4, <2>5 DEF InStep
<1>10. Chats!UndisturbedRepliesRenderOnce'
  BY <1>3 DEF ChatsFit, Chats!UndisturbedRepliesRenderOnce, Chats!Whole
<1> QED
  BY <1>7, <1>8, <1>9, <1>10 DEF ChatsFit

\* A final response, no longer than what was streamed if anything was.
LEMMA ChatsFinal ==
    ASSUME ChatsFit, NEW ps \in Chats!Pairs, turn[ps].n # 0, NEW text \in Texts,
           turn[ps].sent # 0 => Len(text) <= turn[ps].sent, Chats!Final(ps, text)
    PROVE  ChatsFit'
<1>1. PICK r \in Principals, s \in Sessions : ps = <<r, s>> /\ ps[1] = r /\ ps[2] = s
  BY DEF Chats!Pairs
<1>2. PICK n, k, full, m :
         /\ n = turn[ps].n /\ k = turn[ps].sent /\ full = IF k = 0 THEN text ELSE Text(n, k)
         /\ m = Chats!Message(ps, n, text, full)
  OBVIOUS
<1>3. /\ n # 0 /\ turn' = [turn EXCEPT ![ps] = Chats!NoTurn]
      /\ UNCHANGED <<conn, deltas, accum, between, count>>
      /\ \/ finals' = Append(finals, m) /\ dirty' = dirty
         \/ finals' = finals /\ dirty' = dirty \cup {s}
  BY <1>1, <1>2 DEF Chats!Final, Chats!Disturb, Text
<1>4. n \in Nat /\ k \in Nat /\ Sends(turn[ps], n, k) /\ n <= count
  <2>1. turn[ps] \in TurnStates
    BY DEF ChatsFit, ChatTypes
  <2> QED
    BY <1>2, <2>1 DEF ChatsFit, Orderly, TurnStates, Sends
<1>5. /\ m \in Bus /\ m.to = r /\ m.session = s /\ m.n = n
      /\ k = 0 => m.full = m.text
      /\ k # 0 => Closes(m, n, k)
  <2>1. Text(n, k) \in Texts /\ Len(Text(n, k)) = k
    BY <1>4, ChunksAreText
  <2>2. full \in Texts
    BY <1>2, <2>1
  <2>3. m \in Bus /\ m.to = r /\ m.session = s /\ m.n = n /\ m.text = text /\ m.full = full
    BY <1>1, <1>2, <1>4, <2>2, MessagesOfATurn
  <2>4. k # 0 => Chats!Remainder(Text(n, k), text) = <<>>
    BY <1>2, <2>1, NothingRemains
  <2> QED
    BY <1>2, <2>3, <2>4 DEF Closes
<1>6. dirty \subseteq dirty'
  BY <1>3
<1>7. ASSUME Quiet(s)'
      PROVE  \E q \in Principals, number \in Nat : \E st : Streamed(s, q, number, st)'
  <2>1. Quiet(s) /\ finals' = Append(finals, m)
    BY <1>3, <1>6, <1>7, QuietGrows DEF Quiet
  <2>a. PICK q \in Principals, number \in Nat : \E st : OneTurn(s) /\ Streamed(s, q, number, st)
    BY <2>1 DEF ChatsFit, InStep
  <2>2. PICK st : OneTurn(s) /\ Streamed(s, q, number, st)
    BY <2>a
  <2>3. PICK all, last : all = finals' /\ last = Len(finals) + 1
    OBVIOUS
  <2>4. /\ finals \in Seq(Bus) /\ last \in DOMAIN all /\ all[last] = m
        /\ \A j \in DOMAIN all : j = last \/ (j \in DOMAIN finals /\ j < last)
        /\ \A j \in DOMAIN finals : j \in DOMAIN all /\ all[j] = finals[j]
    BY <2>1, <2>3 DEF ChatsFit, ChatTypes
  <2>5. PICK a : a = st[Len(deltas)]
    OBVIOUS
  <2>6. Turned(s, q, number, a)
    BY <2>2, <2>5 DEF Streamed
  <2>7. ASSUME NEW p \in Principals
        PROVE  turn'[<<p, s>>].sent = 0
    <3>1. CASE p = r
      BY <1>1, <1>3, <3>1 DEF ChatsFit, ChatTypes, Chats!NoTurn
    <3>2. CASE p # r
      <4>1. <<p, s>> \in Chats!Pairs /\ <<p, s>> # ps
        BY <1>1, <3>2 DEF Chats!Pairs
      <4>2. turn'[<<p, s>>] = turn[<<p, s>>]
        BY <1>3, <4>1 DEF ChatsFit, ChatTypes
      <4>3. turn[<<p, s>>].n = 0
        BY <1>1, <1>2, <1>3, <2>2, <3>2 DEF OneTurn
      <4> QED
        BY <4>1, <4>2, <4>3 DEF ChatsFit, Orderly
    <3> QED
      BY <3>1, <3>2
  <2>b. ASSUME k # 0
        PROVE  q = r /\ number = n /\ a = k /\ NoFinal(s)
    <3>1. turn[<<r, s>>].n = n /\ turn[<<r, s>>].sent = k
      BY <1>1, <1>4 DEF Sends
    <3>2. r = q /\ Sends(turn[<<r, s>>], number, a) /\ NoFinal(s)
      BY <2>6, <2>b, <3>1 DEF Turned
    <3> QED
      BY <3>1, <3>2 DEF Sends
  <2>c. ASSUME NoFinal(s)
        PROVE  FirstFinal(s, last)'
    <3>1. ASSUME NEW j \in DOMAIN all, j < last
          PROVE  all[j].session # s
      <4>1. last \in Nat /\ j \in DOMAIN finals
        BY <2>3, <2>4, <3>1
      <4> QED
        BY <2>4, <2>c, <4>1 DEF NoFinal
    <3> QED
      BY <1>5, <2>3, <2>4, <3>1 DEF FirstFinal
  <2>d. \A j \in DOMAIN finals : FirstFinal(s, j) => FirstFinal(s, j)'
    <3>1. ASSUME NEW j \in DOMAIN finals, FirstFinal(s, j)
          PROVE  FirstFinal(s, j)'
      <4>1. \A i \in DOMAIN all : i < j => i \in DOMAIN finals /\ all[i] = finals[i]
        <5>1. j \in Nat /\ last \in Nat /\ ~(last < j)
          BY <2>3, <2>4, <3>1
        <5> QED
          BY <2>4, <5>1
      <4> QED
        BY <2>3, <2>4, <3>1, <4>1 DEF FirstFinal
    <3> QED
      BY <3>1
  <2>8. ASSUME a # 0
        PROVE  \E j \in DOMAIN finals' : /\ FirstFinal(s, j)' /\ finals'[j].to = q
                                         /\ finals'[j].n = number
                                         /\ Closes(finals'[j], number, a)
    <3>1. CASE NoFinal(s) /\ Sends(turn[<<q, s>>], number, a)
      <4>1. turn[<<q, s>>].n # 0
        BY <2>8, <3>1 DEF ChatsFit, Orderly, Chats!Pairs, Sends
      <4>2. q = r
        BY <1>1, <1>2, <1>3, <2>2, <4>1 DEF OneTurn
      <4>3. n = number /\ k = a
        BY <1>1, <1>2, <2>8, <3>1, <4>2 DEF Sends
      <4>4. Closes(m, number, a)
        BY <1>5, <2>8, <4>3
      <4> QED
        BY <1>5, <2>3, <2>4, <2>c, <3>1, <4>2, <4>3, <4>4
    <3>2. CASE \E j \in DOMAIN finals : /\ FirstFinal(s, j) /\ finals[j].to = q
                                        /\ finals[j].n = number
                                        /\ Closes(finals[j], number, a)
      BY <2>3, <2>4, <2>d, <3>2
    <3> QED
      BY <2>6, <2>8, <3>1, <3>2 DEF Turned
  <2>e. ASSUME NEW j \in DOMAIN all, all[j].session = s
        PROVE  all[j].full = all[j].text \/ (a # 0 /\ FirstFinal(s, j)')
    <3>1. CASE j = last
      BY <1>5, <2>4, <2>b, <2>c, <3>1
    <3>2. CASE j # last
      <4>1. j \in DOMAIN finals /\ all[j] = finals[j] /\ finals[j].session = s
        BY <2>4, <2>e, <3>2
      <4>2. finals[j].full = finals[j].text \/ (a # 0 /\ FirstFinal(s, j))
        BY <2>6, <4>1 DEF Turned
      <4> QED
        BY <2>d, <4>1, <4>2
    <3> QED
      BY <3>1, <3>2
  <2>9. Turned(s, q, number, a)'
    <3>1. number <= count'
      BY <1>3, <2>6 DEF Turned
    <3> QED
      BY <2>3, <2>7, <2>8, <2>e, <3>1 DEF Turned
  <2>10. Queued(s, q, number, st)' /\ OnScreens(s, q, number, st[0])' /\ Len(deltas') = Len(deltas)
    BY <1>3, <2>2 DEF Streamed, Queued, OnScreens
  <2>11. Streamed(s, q, number, st)'
    BY <2>5, <2>9, <2>10 DEF Streamed
  <2> QED
    BY <2>11
<1>8. Chats!NoTurn \in TurnStates /\ Chats!NoTurn.sent = 0
  BY DEF Chats!NoTurn, TurnStates
<1>9. \/ finals' = finals /\ deltas' = deltas
      \/ deltas' = deltas /\ \E x \in Bus : /\ finals' = Append(finals, x)
                                            /\ x.session = s /\ x.n <= count
  BY <1>3, <1>4, <1>5
<1> QED
  BY <1>1, <1>2, <1>3, <1>6, <1>7, <1>8, <1>9, TurnMoves

LEMMA ChatsReply ==
    ASSUME ChatsFit, NEW ps \in Chats!Pairs, Chats!FinalResponse(ps)
    PROVE  ChatsFit'
<1>1. PICK w, text : w = turn[ps] /\ text = Chats!Chunks(w.n, w.from + 1, w.sent)
  OBVIOUS
<1>2. w.n # 0 /\ Chats!Final(ps, text)
  BY <1>1 DEF Chats!FinalResponse
<1>3. w.n \in Nat /\ w.from \in Nat /\ w.sent \in Nat
  BY <1>1 DEF ChatsFit, ChatTypes, TurnStates
<1>4. text \in Texts /\ Len(text) <= w.sent
  BY <1>1, <1>3, ChunksAreText
<1> QED
  BY <1>1, <1>2, <1>4, ChatsFinal

LEMMA ChatsFailure ==
    ASSUME ChatsFit, NEW ps \in Chats!Pairs, Chats!FailureResponse(ps)
    PROVE  ChatsFit'
<1>1. PICK w, text : w = turn[ps] /\ text = Chats!Chunks(w.n, 0, 0)
  OBVIOUS
<1>2. w.n # 0 /\ Chats!Final(ps, text)
  BY <1>1 DEF Chats!FailureResponse
<1>3. w.n \in Nat /\ w.sent \in Nat
  BY <1>1 DEF ChatsFit, ChatTypes, TurnStates
<1>4. text \in Texts /\ Len(text) = 1
  BY <1>1, <1>3, FailureIsText
<1>5. w.sent # 0 => Len(text) <= w.sent
  BY <1>3, <1>4
<1> QED
  BY <1>1, <1>2, <1>4, <1>5, ChatsFinal

LEMMA ChatsAborted ==
    ASSUME ChatsFit, NEW ps \in Chats!Pairs, Chats!TurnAborted(ps)
    PROVE  ChatsFit'
<1>1. PICK r \in Principals, s \in Sessions : ps = <<r, s>> /\ ps[1] = r /\ ps[2] = s
  BY DEF Chats!Pairs
<1>2. /\ turn[ps].n # 0 /\ turn' = [turn EXCEPT ![ps] = Chats!NoTurn]
      /\ UNCHANGED <<conn, deltas, finals, accum, between, count>>
      /\ dirty' = dirty \cup {s}
  BY <1>1 DEF Chats!TurnAborted, Chats!Disturb
<1>3. dirty \subseteq dirty'
  BY <1>2
<1>4. ~Quiet(s)'
  BY <1>2 DEF Quiet
<1>5. Chats!NoTurn \in TurnStates /\ Chats!NoTurn.sent = 0
  BY DEF Chats!NoTurn, TurnStates
<1> QED
  BY <1>1, <1>2, <1>3, <1>4, <1>5, TurnMoves

-----------------------------------------------------------------------------
(* ChatProxy: the two polls *)

LEMMA ARecordedChunk ==
    ASSUME NEW a \in [Sessions -> Texts], NEW m \in Bus, NEW victim \in Sessions,
           NEW b, b = Chats!Record(a, m, victim), NEW s \in Sessions
    PROVE  /\ b \in [Sessions -> Texts]
           /\ \/ b[s] = IF m.session = s THEN a[s] \o m.text ELSE a[s]
              \/ s = victim /\ a[s] # <<>> /\ b[s] = <<>>
<1>1. PICK kept : kept = IF /\ a[m.session] = <<>>
                           /\ Chats!Cardinality(Chats!Streaming(a)) >= MaxStreams
                        THEN [a EXCEPT ![victim] = <<>>] ELSE a
  OBVIOUS
<1>2. kept = a \/ (a[m.session] = <<>> /\ kept = [a EXCEPT ![victim] = <<>>])
  BY <1>1
<1>3. b = [kept EXCEPT ![m.session] = @ \o m.text]
  BY <1>1, Zenon DEF Chats!Record
<1>4. m.session \in Sessions /\ m.text \in Texts /\ <<>> \in Texts
  BY DEF Bus, Texts
<1>5. kept \in [Sessions -> Texts]
  BY <1>2, <1>4
<1>6. kept[m.session] \o m.text \in Texts
  <2>1. kept[m.session] \in Texts
    BY <1>4, <1>5
  <2> QED
    BY <1>4, <2>1 DEF Texts
<1>7. b \in [Sessions -> Texts]
  BY <1>3, <1>4, <1>5, <1>6
<1>8. b[s] = IF m.session = s THEN kept[s] \o m.text ELSE kept[s]
  BY <1>3, <1>4, <1>5
<1>9. kept[s] = a[s] \/ (a[m.session] = <<>> /\ s = victim /\ kept[s] = <<>>)
  BY <1>2
<1> QED
  BY <1>7, <1>8, <1>9

\* The first delta of the queue is read.
LEMMA ChatsPollDelta ==
    ASSUME ChatConstants, ChatsFit, Chats!PollDelta
    PROVE  ChatsFit'
<1>a. PICK m : m = Head(deltas)
  OBVIOUS
<1>1. PICK victim \in Sessions :
         /\ m = Head(deltas) /\ deltas # <<>> /\ ~between
         /\ accum' = Chats!Record(accum, m, victim)
         /\ dirty' = IF accum[victim] # <<>> /\ accum'[victim] = <<>>
                     THEN dirty \cup {victim} ELSE dirty
         /\ conn' = [c \in Conns |->
                       IF Chats!ShouldDeliver(m, conn[c])
                       THEN [conn[c] EXCEPT !.screen = @ \o m.text] ELSE conn[c]]
         /\ deltas' = Tail(deltas)
         /\ UNCHANGED <<turn, finals, between, count>>
  <2>1. deltas # <<>> /\ ~between /\ deltas' = Tail(deltas)
        /\ UNCHANGED <<turn, finals, between, count>>
    BY DEF Chats!PollDelta
  <2>2. \E victim \in Sessions :
           /\ Chats!Streaming(accum) # {} => victim \in Chats!Streaming(accum)
           /\ accum' = Chats!Record(accum, Head(deltas), victim)
           /\ dirty' = IF accum[victim] # <<>> /\ accum'[victim] = <<>>
                       THEN dirty \cup {victim} ELSE dirty
           /\ conn' = [c \in Conns |->
                         IF Chats!ShouldDeliver(Head(deltas), conn[c])
                         THEN [conn[c] EXCEPT !.screen = @ \o Head(deltas).text] ELSE conn[c]]
    BY Zenon DEF Chats!PollDelta
  <2>3. \E victim \in Sessions :
           /\ accum' = Chats!Record(accum, m, victim)
           /\ dirty' = IF accum[victim] # <<>> /\ accum'[victim] = <<>>
                       THEN dirty \cup {victim} ELSE dirty
           /\ conn' = [c \in Conns |->
                         IF Chats!ShouldDeliver(m, conn[c])
                         THEN [conn[c] EXCEPT !.screen = @ \o m.text] ELSE conn[c]]
    BY <1>a, <2>2, Zenon
  <2> QED
    BY <1>a, <2>1, <2>3, Zenon
<1>2. ChatTypes
  BY DEF ChatsFit
<1>3. m \in Bus /\ deltas' \in Seq(Bus) /\ m = deltas[1]
  BY <1>1, <1>2 DEF ChatTypes
<1>4. PICK size, rest : size + 1 = Len(deltas) /\ size \in Nat /\ rest = deltas'
  <2>1. Len(deltas) \in Nat /\ Len(deltas) # 0
    BY <1>1, <1>2 DEF ChatTypes
  <2>2. Len(deltas) - 1 \in Nat /\ Len(deltas) - 1 + 1 = Len(deltas)
    BY <2>1
  <2> QED
    BY <2>2
<1>5. Len(rest) = size /\ \A i \in 1..size : rest[i] = deltas[i + 1]
  <2>1. deltas \in Seq(Bus)
    BY <1>2 DEF ChatTypes
  <2> QED
    BY <1>1, <1>4, <2>1
<1>6. ASSUME NEW c \in Conns
      PROVE  /\ conn'[c] = IF Chats!ShouldDeliver(m, conn[c])
                           THEN [conn[c] EXCEPT !.screen = @ \o m.text] ELSE conn[c]
             /\ conn[c] \in Connections /\ conn'[c] \in Connections
             /\ conn'[c].up = conn[c].up /\ conn'[c].principal = conn[c].principal
             /\ conn'[c].session = conn[c].session /\ conn'[c].joined = conn[c].joined
             /\ conn'[c].shown = conn[c].shown
             /\ conn'[c].screen = IF Chats!ShouldDeliver(m, conn[c])
                                  THEN conn[c].screen \o m.text ELSE conn[c].screen
  <2>1. conn[c] \in Connections
    BY <1>2 DEF ChatTypes
  <2>2. PICK screen : screen = conn[c].screen \o m.text
    OBVIOUS
  <2>3. screen \in Texts
    <3>1. conn[c].screen \in Texts /\ m.text \in Texts
      BY <1>3, <2>1 DEF Connections, Bus
    <3> QED
      BY <2>2, <3>1 DEF Texts
  <2>4. conn'[c] = IF Chats!ShouldDeliver(m, conn[c])
                   THEN [conn[c] EXCEPT !.screen = screen] ELSE conn[c]
    BY <1>1, <2>2
  <2> QED
    BY <2>1, <2>2, <2>3, <2>4 DEF Connections
<1>7. \A s \in Sessions : /\ accum' \in [Sessions -> Texts]
                         /\ \/ accum'[s] = IF m.session = s THEN accum[s] \o m.text ELSE accum[s]
                            \/ s = victim /\ accum[s] # <<>> /\ accum'[s] = <<>>
  <2>1. accum \in [Sessions -> Texts]
    BY <1>2 DEF ChatTypes
  <2> QED
    BY <1>1, <1>3, <2>1, ARecordedChunk
<1>8. ChatTypes'
  <2>1. conn' \in [Conns -> Connections]
    BY <1>1, <1>6
  <2> QED
    BY <1>1, <1>2, <1>3, <1>7, <2>1 DEF ChatTypes
<1>9. Orderly'
  BY <1>1, <1>6 DEF ChatsFit, Orderly
<1>10. dirty \subseteq dirty'
  BY <1>1
<1>11. ASSUME NEW s \in Sessions, Quiet(s)'
       PROVE  InStep(s)'
  <2>1. Quiet(s) /\ s \notin dirty'
    BY <1>10, <1>11, QuietGrows DEF Quiet
  <2>a. PICK q \in Principals, n \in Nat : \E st : OneTurn(s) /\ Streamed(s, q, n, st)
    BY <2>1 DEF ChatsFit, InStep
  <2>2. PICK st : OneTurn(s) /\ Streamed(s, q, n, st)
    BY <2>a
  <2>3. accum'[s] = IF m.session = s THEN accum[s] \o m.text ELSE accum[s]
    BY <1>1, <1>7, <2>1
  <2>4. st \in [0..(size + 1) -> Nat] /\ accum[s] = Text(n, st[0])
    BY <1>4, <2>2 DEF Streamed, Queued
  <2>5. \A i \in 1..(size + 1) :
          IF deltas[i].session = s
          THEN /\ st[i] = st[i - 1] + 1 /\ deltas[i].to = q
               /\ deltas[i].text = Chats!Chunks(n, st[i - 1] + 1, st[i - 1] + 1)
          ELSE st[i] = st[i - 1]
    BY <1>4, <2>2 DEF Streamed, Queued
  <2>6. PICK a, b : a = st[0] /\ b = st[1] /\ a \in Nat /\ b \in Nat
    BY <1>4, <2>4
  <2>7. IF m.session = s
        THEN b = a + 1 /\ m.to = q /\ m.text = Chats!Chunks(n, a + 1, a + 1)
        ELSE b = a
    <3>1. 1 \in 1..(size + 1) /\ 1 - 1 = 0
      BY <1>4
    <3> QED
      BY <1>3, <2>5, <2>6, <3>1
  <2>8. PICK next : next = [i \in 0..size |-> st[i + 1]]
    OBVIOUS
  <2>9. /\ next \in [0..size -> Nat] /\ next[0] = b /\ next[size] = st[size + 1]
        /\ \A i \in 0..size : next[i] = st[i + 1]
    <3>1. \A i \in 0..size : i + 1 \in 0..(size + 1)
      BY <1>4
    <3>2. 0 \in 0..size /\ size \in 0..size /\ 0 + 1 = 1
      BY <1>4
    <3> QED
      BY <2>4, <2>6, <2>8, <3>1, <3>2
  <2>10. ASSUME NEW i \in 1..size
         PROVE  IF rest[i].session = s
                THEN /\ next[i] = next[i - 1] + 1 /\ rest[i].to = q
                     /\ rest[i].text = Chats!Chunks(n, next[i - 1] + 1, next[i - 1] + 1)
                ELSE next[i] = next[i - 1]
    <3>1. /\ i + 1 \in 1..(size + 1) /\ i + 1 - 1 = i /\ i \in 0..size /\ i - 1 \in 0..size
          /\ i - 1 + 1 = i
      BY <1>4
    <3>2. next[i] = st[i + 1] /\ next[i - 1] = st[i] /\ rest[i] = deltas[i + 1]
      BY <1>5, <2>9, <3>1
    <3> QED
      BY <2>5, <3>1, <3>2
  <2>11. \A i \in 1..(size + 1) : st[1] <= st[i] /\ st[i] <= st[size + 1]
    <3> DEFINE Good == {i \in 0..size : st[1] <= st[i + 1]}
    <3>1. 0 \in Good
      BY <1>4, <2>6
    <3>2. ASSUME NEW i \in 1..size, i - 1 \in Good
          PROVE  i \in Good
      <4>1. /\ i + 1 \in 1..(size + 1) /\ i + 1 - 1 = i /\ i \in 0..(size + 1)
            /\ i + 1 \in 0..(size + 1) /\ i - 1 + 1 = i /\ i \in 0..size
        BY <1>4
      <4>2. st[1] <= st[i] /\ st[i] \in Nat /\ st[i + 1] \in Nat /\ st[1] \in Nat
        BY <2>4, <2>6, <3>2, <4>1
      <4>3. st[i] <= st[i + 1]
        BY <2>5, <4>1, <4>2
      <4>4. st[1] <= st[i + 1]
        BY <4>2, <4>3
      <4> QED
        BY <4>1, <4>4
    <3>3. \A i \in 0..size : i \in Good
      <4> HIDE DEF Good
      <4> QED
        BY <1>4, <3>1, <3>2, AlongPositions
    <3>4. \A i \in 0..(size + 1) : st[i] <= st[size + 1]
      BY <1>4, <2>2 DEF Streamed, Queued
    <3>5. ASSUME NEW i \in 1..(size + 1)
          PROVE  st[1] <= st[i] /\ st[i] <= st[size + 1]
      <4>1. i - 1 \in Good /\ i - 1 + 1 = i /\ i \in 0..(size + 1)
        <5>1. i - 1 \in 0..size /\ i - 1 + 1 = i /\ i \in 0..(size + 1)
          BY <1>4
        <5> QED
          BY <3>3, <5>1
      <4> QED
        BY <3>4, <4>1
    <3> QED
      BY <3>5
  <2>12. \A i \in 0..size : next[0] <= next[i] /\ next[i] <= next[size]
    <3> TAKE i \in 0..size
    <3>1. i + 1 \in 1..(size + 1)
      BY <1>4
    <3> QED
      BY <2>6, <2>9, <2>11, <3>1
  <2>13. accum'[s] = Text(n, b)
    <3>1. CASE m.session = s
      <4>1. Text(n, a) \o Chats!Chunks(n, a + 1, a + 1) = Text(n, a + 1)
        BY <2>6, TextGrows
      <4> QED
        BY <2>3, <2>4, <2>6, <2>7, <3>1, <4>1
    <3>2. CASE m.session # s
      BY <2>3, <2>4, <2>6, <2>7, <3>2
    <3> QED
      BY <3>1, <3>2
  <2>14. Queued(s, q, n, next)'
    <3>1. ~between'
      BY <1>1
    <3>2. Len(deltas') = size /\ deltas' = rest
      BY <1>4, <1>5
    <3>3. accum'[s] = Text(n, next[0])
      BY <2>9, <2>13
    <3> QED
      BY <2>9, <2>10, <2>12, <3>1, <3>2, <3>3 DEF Queued
  <2>15. Turned(s, q, n, next[size])'
    <3>1. PICK k : k = st[size + 1]
      OBVIOUS
    <3>2. Turned(s, q, n, k)
      BY <1>4, <2>2, <3>1 DEF Streamed
    <3>3. NoFinal(s)' = NoFinal(s) /\ \A j : FirstFinal(s, j)' = FirstFinal(s, j)
      BY <1>1 DEF NoFinal, FirstFinal
    <3>4. Turned(s, q, n, k)'
      BY <1>1, <3>2, <3>3 DEF Turned
    <3>5. next[size] = k
      BY <2>9, <3>1
    <3> QED
      BY <3>4, <3>5
  <2>16. OnScreens(s, q, n, b)'
    <3>1. ASSUME NEW c \in Conns, conn[c].session = s
          PROVE  IF conn[c].principal # q \/ b = 0 THEN conn'[c].screen = <<>>
                 ELSE conn[c].joined < n => conn'[c].screen = Text(n, b)
      <4>1. IF conn[c].principal # q \/ a = 0 THEN conn[c].screen = <<>>
            ELSE conn[c].joined < n => conn[c].screen = Text(n, a)
        BY <2>2, <2>6, <3>1 DEF Streamed, OnScreens
      <4>2. CASE m.session # s
        <5>1. ~Chats!ShouldDeliver(m, conn[c])
          BY <3>1, <4>2 DEF Chats!ShouldDeliver
        <5> QED
          BY <1>6, <2>7, <4>1, <4>2, <5>1
      <4>3. CASE m.session = s /\ conn[c].principal # q
        <5>1. ~Chats!ShouldDeliver(m, conn[c])
          BY <2>7, <4>3 DEF Chats!ShouldDeliver
        <5> QED
          BY <1>6, <4>1, <4>3, <5>1
      <4>4. CASE m.session = s /\ conn[c].principal = q
        <5>1. conn[c].up
          BY <3>1 DEF ChatsFit, Orderly, ChatConstants
        <5>2. Chats!ShouldDeliver(m, conn[c])
          BY <2>7, <3>1, <4>4, <5>1 DEF Chats!ShouldDeliver
        <5>3. conn'[c].screen = conn[c].screen \o Chats!Chunks(n, a + 1, a + 1)
          BY <1>6, <2>7, <4>4, <5>2
        <5>4. b # 0 /\ b = a + 1
          BY <2>6, <2>7, <4>4
        <5>5. conn[c].joined < n => conn[c].screen = Text(n, a)
          <6>1. Text(n, 0) = <<>>
            BY ChunksAreText
          <6> QED
            BY <4>1, <4>4, <6>1
        <5>6. Text(n, a) \o Chats!Chunks(n, a + 1, a + 1) = Text(n, a + 1)
          BY <2>6, TextGrows
        <5> QED
          BY <4>4, <5>3, <5>4, <5>5, <5>6
      <4> QED
        BY <4>2, <4>3, <4>4
    <3> QED
      BY <1>6, <3>1 DEF OnScreens
  <2>17. Streamed(s, q, n, next)'
    <3>1. next[0] = b /\ Len(deltas') = size
      BY <1>4, <1>5, <2>9
    <3> QED
      BY <2>14, <2>15, <2>16, <3>1 DEF Streamed
  <2>18. OneTurn(s)'
    BY <1>1, <2>2 DEF OneTurn
  <2> QED
    BY <2>17, <2>18 DEF InStep
<1>12. Chats!UndisturbedRepliesRenderOnce'
  <2>1. ASSUME NEW c \in Conns, conn'[c].session \notin dirty'
        PROVE  conn'[c].shown = None \/ conn'[c].shown.n <= conn'[c].joined
               \/ conn'[c].shown.text = conn'[c].shown.full
    <3>1. conn[c].session \notin dirty
      <4>1. PICK t : t = conn[c].session
        OBVIOUS
      <4>2. t \notin dirty'
        BY <1>6, <2>1, <4>1
      <4> QED
        BY <1>10, <4>1, <4>2
    <3> QED
      BY <1>6, <3>1 DEF ChatsFit, Chats!UndisturbedRepliesRenderOnce, Chats!Whole
  <2> QED
    BY <2>1 DEF Chats!UndisturbedRepliesRenderOnce, Chats!Whole
<1> QED
  BY <1>8, <1>9, <1>11, <1>12 DEF ChatsFit

\* The delta queue was found empty.
LEMMA ChatsNextPoll ==
    ASSUME ChatsFit, Chats!NextPoll
    PROVE  ChatsFit'
<1>1. /\ deltas = <<>> /\ between' = TRUE
      /\ UNCHANGED <<conn, turn, deltas, finals, accum, count, dirty>>
  BY DEF Chats!NextPoll
<1>2. ChatTypes' /\ Orderly'
  BY <1>1 DEF ChatsFit, ChatTypes, Orderly
<1>3. ASSUME NEW s \in Sessions, Quiet(s)'
      PROVE  InStep(s)'
  <2>1. Quiet(s)
    BY <1>1, <1>3 DEF Quiet
  <2>a. PICK q \in Principals, n \in Nat : \E st : OneTurn(s) /\ Streamed(s, q, n, st)
    BY <2>1 DEF ChatsFit, InStep
  <2>2. PICK st : OneTurn(s) /\ Streamed(s, q, n, st)
    BY <2>a
  <2>3. Len(deltas) = 0
    BY <1>1
  <2>4. Queued(s, q, n, st)'
    BY <1>1, <2>2, <2>3 DEF Streamed, Queued
  <2>5. PICK k : k = st[Len(deltas)]
    OBVIOUS
  <2>6. Turned(s, q, n, k)'
    <3>1. Turned(s, q, n, k)
      BY <2>2, <2>5 DEF Streamed
    <3>2. NoFinal(s)' = NoFinal(s) /\ \A j : FirstFinal(s, j)' = FirstFinal(s, j)
      BY <1>1 DEF NoFinal, FirstFinal
    <3> QED
      BY <1>1, <3>1, <3>2 DEF Turned
  <2>7. OnScreens(s, q, n, st[0])' /\ OneTurn(s)'
    BY <1>1, <2>2 DEF Streamed, OnScreens, OneTurn
  <2>8. Streamed(s, q, n, st)'
    BY <1>1, <2>4, <2>5, <2>6, <2>7 DEF Streamed
  <2> QED
    BY <2>7, <2>8 DEF InStep
<1>4. Chats!UndisturbedRepliesRenderOnce'
  BY <1>1 DEF ChatsFit, Chats!UndisturbedRepliesRenderOnce, Chats!Whole
<1> QED
  BY <1>2, <1>3, <1>4 DEF ChatsFit

-----------------------------------------------------------------------------
(* ChatProxy: the responses of one poll *)

ChatStates == [accum : [Sessions -> Texts], conn : [Conns -> Connections]]

\* One response.
LEMMA AResponse ==
    ASSUME NEW x \in ChatStates, NEW m \in Bus
    PROVE  /\ Chats!Finalise(x, m) \in ChatStates
           /\ Chats!Finalise(x, m).accum = [x.accum EXCEPT ![m.session] = <<>>]
           /\ \A c \in Conns : Chats!Finalise(x, m).conn[c] =
                 IF Chats!ShouldDeliver(m, x.conn[c])
                 THEN [x.conn[c] EXCEPT !.screen = <<>>,
                         !.shown = [n |-> m.n, full |-> m.full, final |-> m.text,
                                    text |-> x.conn[c].screen
                                             \o Chats!Remainder(x.accum[m.session], m.text)]]
                 ELSE x.conn[c]
<1>1. PICK rest : rest = Chats!Remainder(x.accum[m.session], m.text)
  OBVIOUS
<1>2. PICK y : y = Chats!Finalise(x, m)
  OBVIOUS
<1>3. /\ m.session \in Sessions /\ m.text \in Texts /\ <<>> \in Texts /\ m.n \in Nat
      /\ m.full \in Texts
      /\ x.accum \in [Sessions -> Texts] /\ x.conn \in [Conns -> Connections]
  BY DEF Bus, ChatStates, Texts
<1>4. rest \in Texts
  BY <1>1, <1>3, Remainders
<1>5. y = [accum |-> [x.accum EXCEPT ![m.session] = <<>>],
           conn |-> [c \in Conns |->
              IF Chats!ShouldDeliver(m, x.conn[c])
              THEN [x.conn[c] EXCEPT !.screen = <<>>,
                      !.shown = [n |-> m.n, text |-> x.conn[c].screen \o rest,
                                 full |-> m.full, final |-> m.text]]
              ELSE x.conn[c]]]
  BY <1>1, <1>2, Zenon DEF Chats!Finalise
<1>6. ASSUME NEW c \in Conns
      PROVE  /\ y.conn[c] = IF Chats!ShouldDeliver(m, x.conn[c])
                            THEN [x.conn[c] EXCEPT !.screen = <<>>,
                                    !.shown = [n |-> m.n, full |-> m.full, final |-> m.text,
                                               text |-> x.conn[c].screen \o rest]]
                            ELSE x.conn[c]
             /\ y.conn[c] \in Connections
  <2>1. x.conn[c] \in Connections
    BY <1>3
  <2>2. x.conn[c].screen \o rest \in Texts
    <3>1. x.conn[c].screen \in Texts
      BY <2>1 DEF Connections
    <3> QED
      BY <1>4, <3>1 DEF Texts
  <2>3. PICK told : told = [n |-> m.n, text |-> x.conn[c].screen \o rest, full |-> m.full,
                            final |-> m.text]
    OBVIOUS
  <2>4. told \in Shown
    BY <1>3, <2>2, <2>3 DEF Shown
  <2>5. y.conn[c] = IF Chats!ShouldDeliver(m, x.conn[c])
                    THEN [x.conn[c] EXCEPT !.screen = <<>>, !.shown = told] ELSE x.conn[c]
    BY <1>5, <2>3
  <2>6. y.conn[c] \in Connections
    BY <1>3, <2>1, <2>4, <2>5 DEF Connections
  <2> QED
    BY <2>3, <2>5, <2>6
<1>7. y.accum = [x.accum EXCEPT ![m.session] = <<>>] /\ y.accum \in [Sessions -> Texts]
  BY <1>3, <1>5
<1>8. y \in ChatStates
  <2>1. PICK clients : clients = y.conn
    OBVIOUS
  <2>2. clients \in [Conns -> Connections]
    <3>1. DOMAIN clients = Conns /\ clients = [c \in Conns |-> clients[c]]
      BY <1>5, <2>1
    <3> QED
      BY <1>6, <2>1, <3>1
  <2>3. y = [accum |-> y.accum, conn |-> clients]
    BY <1>5, <2>1
  <2> QED
    BY <1>7, <2>2, <2>3 DEF ChatStates
<1> QED
  BY <1>1, <1>2, <1>6, <1>7, <1>8

\* All of them: the states from one response to the next.
Handled(f) ==
    /\ f \in [0..Len(finals) -> ChatStates]
    /\ f[0] = [accum |-> accum, conn |-> conn]
    /\ \A k \in 1..Len(finals) : f[k] = Chats!Finalise(f[k - 1], finals[k])

LEMMA ResponsesAreHandled ==
    ASSUME ChatTypes
    PROVE  \E f : Handled(f) /\ Chats!Finalised = f[Len(finals)]
<1> DEFINE size == Len(finals)
           base == [accum |-> accum, conn |-> conn]
           step == [k \in 1..size |-> [x \in ChatStates |-> Chats!Finalise(x, finals[k])]]
           Is(f) == f = [k \in 0..size |-> IF k = 0 THEN base
                                           ELSE Chats!Finalise(f[k - 1], finals[k])]
<1>1. size \in Nat /\ base \in ChatStates /\ \A k \in 1..size : finals[k] \in Bus
  BY DEF ChatTypes, ChatStates
<1>2. /\ step \in [1..size -> [ChatStates -> ChatStates]]
      /\ \A k \in 1..size, x \in ChatStates : step[k][x] = Chats!Finalise(x, finals[k])
  <2>1. \A k \in 1..size, x \in ChatStates : Chats!Finalise(x, finals[k]) \in ChatStates
    BY <1>1, AResponse
  <2> HIDE DEF size
  <2> QED
    BY <2>1
<1>3. PICK f \in [0..size -> ChatStates] : f[0] = base /\ \A k \in 1..size : f[k] = step[k][f[k - 1]]
  <2> HIDE DEF step, size, base
  <2>1. Recursive(size, ChatStates, base, step)
    BY <1>1, <1>2, RecursionExists
  <2> QED
    BY <2>1 DEF Recursive
<1>4. \A k \in 1..size : f[k] = Chats!Finalise(f[k - 1], finals[k])
  <2> HIDE DEF step, size, base
  <2>1. \A k \in 1..size : k - 1 \in 0..size
    BY <1>1
  <2> QED
    BY <1>2, <1>3, <2>1
<1>5. Is(f)
  <2> HIDE DEF step, size, base
  <2>1. f = [k \in 0..size |-> f[k]]
    BY <1>3
  <2>2. \A k \in 0..size : f[k] = IF k = 0 THEN base ELSE Chats!Finalise(f[k - 1], finals[k])
    BY <1>1, <1>3, <1>4
  <2> QED
    BY <2>1, <2>2, Zenon
<1>6. Chats!Finalised = (CHOOSE h : Is(h))[size]
  BY Zenon DEF Chats!Finalised
<1>7. PICK h : Is(h) /\ Chats!Finalised = h[size]
  <2> HIDE DEF Is
  <2>1. Is(CHOOSE h : Is(h))
    BY <1>5
  <2> QED
    BY <1>6, <2>1
<1> DEFINE Good == {k \in 0..size : h[k] = f[k]}
<1>8. \A k \in 0..size : k \in Good
  <2> HIDE DEF step, size, base
  <2>1. h[0] = base /\ \A k \in 1..size : h[k] = Chats!Finalise(h[k - 1], finals[k])
    BY <1>1, <1>7
  <2>2. 0 \in Good
    BY <1>1, <1>3, <2>1
  <2>3. \A k \in 1..size : k - 1 \in Good => k \in Good
    BY <1>1, <1>4, <2>1
  <2> HIDE DEF Good
  <2> QED
    BY <1>1, <2>2, <2>3, AlongPositions
<1>9. Chats!Finalised = f[size]
  BY <1>1, <1>7, <1>8
<1>10. Handled(f)
  BY <1>3, <1>4 DEF Handled
<1> QED
  BY <1>9, <1>10

Rendered(d) == d.shown = None \/ d.shown.n <= d.joined \/ d.shown.text = d.shown.full

\* No response moves a connection, or shows what was not sent.
SameClients(x) ==
    \A c \in Conns :
       /\ x.conn[c].up = conn[c].up /\ x.conn[c].principal = conn[c].principal
       /\ x.conn[c].session = conn[c].session /\ x.conn[c].joined = conn[c].joined
       /\ x.conn[c].shown # None => x.conn[c].shown.n <= count
       /\ conn[c].session = None => x.conn[c] = conn[c]

\* No response of session s was handled so far, or one was.
Unread(x, s) ==
    x.accum[s] = accum[s] /\ \A c \in Conns : conn[c].session = s => x.conn[c] = conn[c]
Clean(x, s) ==
    x.accum[s] = <<>> /\ \A c \in Conns : conn[c].session = s => x.conn[c].screen = <<>>
Before(k, s) == \A j \in DOMAIN finals : j <= k => finals[j].session # s

LEMMA ClientsStay ==
    ASSUME ChatConstants, ChatTypes, Orderly, NEW f, Handled(f)
    PROVE  \A k \in 0..Len(finals) : SameClients(f[k])
<1> DEFINE Good == {k \in 0..Len(finals) : SameClients(f[k])}
<1>1. Len(finals) \in Nat
  BY DEF ChatTypes
<1>2. 0 \in Good
  <2>1. SameClients(f[0])
    BY DEF Handled, SameClients, Orderly
  <2> QED
    BY <1>1, <2>1
<1>3. ASSUME NEW k \in 1..Len(finals), k - 1 \in Good
      PROVE  k \in Good
  <2>1. PICK x, m, y : x = f[k - 1] /\ m = finals[k] /\ y = f[k]
    OBVIOUS
  <2>2. /\ k \in 0..Len(finals) /\ k - 1 \in 0..Len(finals) /\ x \in ChatStates /\ m \in Bus
        /\ y = Chats!Finalise(x, m) /\ SameClients(x) /\ m.n <= count
    <3>1. k \in 0..Len(finals) /\ k - 1 \in 0..Len(finals) /\ k \in DOMAIN finals
      BY <1>1 DEF ChatTypes
    <3>2. m \in Bus /\ m.n <= count
      BY <2>1, <3>1 DEF ChatTypes, Orderly
    <3>3. x \in ChatStates /\ y = Chats!Finalise(x, m)
      BY <2>1, <3>1 DEF Handled
    <3> QED
      BY <1>3, <2>1, <3>1, <3>2, <3>3
  <2>3. ASSUME NEW c \in Conns
        PROVE  /\ y.conn[c].up = conn[c].up /\ y.conn[c].principal = conn[c].principal
               /\ y.conn[c].session = conn[c].session /\ y.conn[c].joined = conn[c].joined
               /\ y.conn[c].shown # None => y.conn[c].shown.n <= count
               /\ conn[c].session = None => y.conn[c] = conn[c]
    <3>1. PICK told, d : told.n = m.n /\ d = x.conn[c]
                         /\ y.conn[c] = IF Chats!ShouldDeliver(m, d)
                                        THEN [d EXCEPT !.screen = <<>>, !.shown = told] ELSE d
      <4>1. PICK d : d = x.conn[c]
        OBVIOUS
      <4>2. PICK told : told = [n |-> m.n, full |-> m.full, final |-> m.text,
                                text |-> d.screen \o Chats!Remainder(x.accum[m.session], m.text)]
        OBVIOUS
      <4>3. y.conn[c] = IF Chats!ShouldDeliver(m, d)
                        THEN [d EXCEPT !.screen = <<>>, !.shown = told] ELSE d
        BY <2>2, <4>1, <4>2, AResponse
      <4> QED
        BY <4>1, <4>2, <4>3
    <3>2. d \in Connections
      BY <2>2, <3>1 DEF ChatStates
    <3>3. /\ y.conn[c].up = d.up /\ y.conn[c].principal = d.principal
          /\ y.conn[c].session = d.session /\ y.conn[c].joined = d.joined
          /\ y.conn[c].shown = d.shown \/ y.conn[c].shown = told
      BY <3>1, <3>2 DEF Connections
    <3>4. conn[c].session = None => y.conn[c] = d
      <4>1. m.session \in Sessions
        BY <2>2 DEF Bus
      <4> QED
        BY <2>2, <3>1, <4>1 DEF SameClients, Chats!ShouldDeliver, ChatConstants
    <3> QED
      BY <2>2, <3>1, <3>3, <3>4 DEF SameClients
  <2>4. SameClients(y)
    BY <2>3 DEF SameClients
  <2> QED
    BY <2>1, <2>2, <2>4
<1>4. \A k \in 0..Len(finals) : k \in Good
  <2> HIDE DEF Good
  <2> QED
    BY <1>1, <1>2, <1>3, AlongPositions
<1> QED
  BY <1>4

\* A session's stream on the way through its responses: its first response takes what
\* was streamed, and shows the whole reply to who saw all of it.
LEMMA RepliesAreRendered ==
    ASSUME ChatConstants, ChatTypes, Orderly, between, NEW f, Handled(f),
           NEW s \in Sessions, NEW q \in Principals, NEW n \in Nat, NEW st, Streamed(s, q, n, st),
           \A c \in Conns : conn[c].session = s => Rendered(conn[c])
    PROVE  \A k \in 0..Len(finals) :
              /\ IF Before(k, s) THEN Unread(f[k], s) ELSE Clean(f[k], s)
              /\ \A c \in Conns : conn[c].session = s => Rendered(f[k].conn[c])
<1> DEFINE Good == {k \in 0..Len(finals) :
              /\ IF Before(k, s) THEN Unread(f[k], s) ELSE Clean(f[k], s)
              /\ \A c \in Conns : conn[c].session = s => Rendered(f[k].conn[c])}
<1>1. Len(finals) \in Nat /\ DOMAIN finals = 1..Len(finals)
  BY DEF ChatTypes
<1>2. PICK a : a = st[0] /\ a = st[Len(deltas)] /\ a \in Nat
  <2>1. st \in [0..Len(deltas) -> Nat] /\ st[0] = st[Len(deltas)]
    BY DEF Streamed, Queued
  <2>2. 0 \in 0..Len(deltas)
    <3>1. Len(deltas) \in Nat
      BY DEF ChatTypes
    <3> QED
      BY <3>1
  <2>3. st[0] \in Nat
    BY <2>1, <2>2, Zenon
  <2> QED
    BY <2>1, <2>3, Zenon
<1>3. accum[s] = Text(n, a) /\ Turned(s, q, n, a) /\ OnScreens(s, q, n, a)
  BY <1>2 DEF Streamed, Queued
<1>b. n \in Nat /\ (Text(n, a) = <<>> => a = 0)
  BY <1>2, ChunksAreText
<1>4. 0 \in Good
  <2>1. Before(0, s) /\ 0 \in 0..Len(finals)
    BY <1>1 DEF Before
  <2>2. Unread(f[0], s) /\ f[0].conn = conn
    BY DEF Handled, Unread
  <2> QED
    BY <2>1, <2>2
<1>5. ASSUME NEW k \in 1..Len(finals), k - 1 \in Good
      PROVE  k \in Good
  <2>1. PICK x, m, y : x = f[k - 1] /\ m = finals[k] /\ y = f[k]
    OBVIOUS
  <2>2. /\ k \in 0..Len(finals) /\ k - 1 \in 0..Len(finals) /\ x \in ChatStates /\ m \in Bus
        /\ y = Chats!Finalise(x, m)
    BY <1>1, <1>5, <2>1 DEF Handled, ChatTypes
  <2>3. /\ IF Before(k - 1, s) THEN Unread(x, s) ELSE Clean(x, s)
        /\ \A c \in Conns : conn[c].session = s => Rendered(x.conn[c])
    BY <1>5, <2>1
  <2>4. ASSUME NEW c \in Conns, conn[c].session = s
        PROVE  /\ x.conn[c].up /\ x.conn[c].principal = conn[c].principal
               /\ x.conn[c].session = s /\ x.conn[c].joined = conn[c].joined
    <3>1. SameClients(x)
      BY <2>1, <2>2, ClientsStay
    <3>2. conn[c].up
      BY <2>4 DEF Orderly, ChatConstants
    <3> QED
      BY <2>4, <3>1, <3>2 DEF SameClients
  <2>5. Before(k, s) = (Before(k - 1, s) /\ m.session # s)
    <3>1. \A j \in DOMAIN finals : j <= k <=> (j <= k - 1 \/ j = k)
      BY <1>1
    <3>2. k \in DOMAIN finals /\ k <= k
      BY <1>1
    <3> QED
      BY <2>1, <3>1, <3>2 DEF Before
  <2>6. CASE m.session # s
    <3>1. y.accum[s] = x.accum[s]
      <4>1. y.accum = [x.accum EXCEPT ![m.session] = <<>>]
        BY <2>2, AResponse
      <4>2. x.accum \in [Sessions -> Texts]
        BY <2>2 DEF ChatStates
      <4> QED
        BY <2>6, <4>1, <4>2
    <3>2. ASSUME NEW c \in Conns, conn[c].session = s
          PROVE  y.conn[c] = x.conn[c]
      <4>1. ~Chats!ShouldDeliver(m, x.conn[c])
        BY <2>4, <2>6, <3>2 DEF Chats!ShouldDeliver
      <4> QED
        BY <2>2, <4>1, AResponse
    <3>3. (Unread(x, s) => Unread(y, s)) /\ (Clean(x, s) => Clean(y, s))
      BY <3>1, <3>2 DEF Unread, Clean
    <3> QED
      BY <2>1, <2>2, <2>3, <2>5, <2>6, <3>2, <3>3
  <2>7. CASE m.session = s
    <3>1. y.accum[s] = <<>> /\ ~Before(k, s)
      <4>1. y.accum = [x.accum EXCEPT ![m.session] = <<>>]
        BY <2>2, AResponse
      <4>2. x.accum \in [Sessions -> Texts]
        BY <2>2 DEF ChatStates
      <4> QED
        BY <2>5, <2>7, <4>1, <4>2
    <3>2. ASSUME NEW c \in Conns, conn[c].session = s, Chats!ShouldDeliver(m, x.conn[c])
          PROVE  /\ y.conn[c].screen = <<>> /\ y.conn[c].joined = conn[c].joined
                 /\ y.conn[c].shown.n = m.n /\ y.conn[c].shown.full = m.full
                 /\ y.conn[c].shown.text = x.conn[c].screen \o Chats!Remainder(x.accum[s], m.text)
      <4>1. PICK d : d = x.conn[c]
        OBVIOUS
      <4>2. PICK told : told = [n |-> m.n, full |-> m.full, final |-> m.text,
                                text |-> d.screen \o Chats!Remainder(x.accum[m.session], m.text)]
        OBVIOUS
      <4>3. y.conn[c] = [d EXCEPT !.screen = <<>>, !.shown = told]
        BY <2>2, <3>2, <4>1, <4>2, AResponse
      <4>4. d \in Connections
        BY <2>2, <4>1 DEF ChatStates
      <4>5. /\ y.conn[c].screen = <<>> /\ y.conn[c].shown = told
            /\ y.conn[c].joined = d.joined
        BY <4>3, <4>4 DEF Connections
      <4>6. d.joined = conn[c].joined
        BY <2>4, <3>2, <4>1
      <4>7. /\ told.n = m.n /\ told.full = m.full
            /\ told.text = d.screen \o Chats!Remainder(x.accum[m.session], m.text)
        BY <4>2
      <4>8. told.text = x.conn[c].screen \o Chats!Remainder(x.accum[s], m.text)
        BY <2>7, <4>1, <4>7
      <4> QED
        BY <4>5, <4>6, <4>7, <4>8
    <3>3. ASSUME NEW c \in Conns, ~Chats!ShouldDeliver(m, x.conn[c])
          PROVE  y.conn[c] = x.conn[c]
      BY <2>2, <3>3, AResponse
    <3>4. m.text \in Texts
      BY <2>2 DEF Bus
    <3>5. CASE Clean(x, s)
      <4>a. m.full = m.text
        <5>1. k \in DOMAIN finals /\ finals[k] = m
          BY <1>1, <2>1
        <5>2. m.full = m.text \/ (a # 0 /\ FirstFinal(s, k))
          BY <1>3, <2>7, <5>1 DEF Turned
        <5>3. ASSUME a # 0, FirstFinal(s, k)
              PROVE  FALSE
          <6>1. Before(k - 1, s)
            <7>1. \A j \in DOMAIN finals : j <= k - 1 => j < k
              BY <1>1
            <7> QED
              BY <5>3, <7>1 DEF FirstFinal, Before
          <6>2. accum[s] = <<>>
            BY <2>3, <3>5, <6>1 DEF Unread, Clean
          <6> QED
            BY <1>3, <1>b, <5>3, <6>2
        <5> QED
          BY <5>2, <5>3
      <4>1. ASSUME NEW c \in Conns, conn[c].session = s
            PROVE  y.conn[c].screen = <<>> /\ Rendered(y.conn[c])
        <5>1. CASE Chats!ShouldDeliver(m, x.conn[c])
          <6>1. <<>> \o Chats!Remainder(<<>>, m.text) = m.text
            <7>1. <<>> \in Texts
              BY DEF Texts
            <7> QED
              BY <3>4, <7>1, Remainders
          <6>2. x.conn[c].screen = <<>> /\ x.accum[s] = <<>>
            BY <3>5, <4>1 DEF Clean
          <6> QED
            BY <3>2, <4>a, <4>1, <5>1, <6>1, <6>2 DEF Rendered
        <5>2. CASE ~Chats!ShouldDeliver(m, x.conn[c])
          BY <2>3, <3>3, <3>5, <4>1, <5>2 DEF Clean
        <5> QED
          BY <5>1, <5>2
      <4>2. Clean(y, s)
        BY <3>1, <4>1 DEF Clean
      <4> QED
        BY <2>1, <2>2, <3>1, <4>1, <4>2
    <3>6. CASE ~Clean(x, s)
      <4>1. Unread(x, s) /\ Before(k - 1, s)
        BY <2>3, <3>6
      <4>2. a # 0
        <5>1. SUFFICES ASSUME a = 0
                       PROVE  FALSE
          OBVIOUS
        <5>2. Text(n, 0) = <<>>
          BY ChunksAreText
        <5>3. x.accum[s] = <<>>
          BY <1>3, <4>1, <5>1, <5>2 DEF Unread
        <5>4. \A c \in Conns : conn[c].session = s => x.conn[c].screen = <<>>
          BY <1>3, <4>1, <5>1 DEF Unread, OnScreens
        <5> QED
          BY <3>6, <5>3, <5>4 DEF Clean
      <4>3. m.to = q /\ m.n = n /\ Closes(m, n, a)
        <5>1. ~NoFinal(s)
          BY <1>1, <2>1, <2>7 DEF NoFinal
        <5>2. PICK j \in DOMAIN finals : /\ FirstFinal(s, j) /\ finals[j].to = q
                                         /\ finals[j].n = n /\ Closes(finals[j], n, a)
          BY <1>3, <4>2, <5>1 DEF Turned
        <5>3. ~(j <= k - 1) /\ ~(k < j)
          <6>1. k \in DOMAIN finals
            BY <1>1
          <6> QED
            BY <2>1, <2>7, <4>1, <5>2, <6>1 DEF FirstFinal, Before
        <5>4. j = k
          BY <1>1, <5>3
        <5> QED
          BY <2>1, <5>2, <5>4
      <4>4. ASSUME NEW c \in Conns, conn[c].session = s
            PROVE  y.conn[c].screen = <<>> /\ Rendered(y.conn[c])
        <5>1. x.conn[c] = conn[c]
          BY <4>1, <4>4 DEF Unread
        <5>2. IF conn[c].principal # q THEN conn[c].screen = <<>>
              ELSE conn[c].joined < n => conn[c].screen = Text(n, a)
          BY <1>3, <4>2, <4>4 DEF OnScreens
        <5>3. CASE conn[c].principal = q
          <6>1. Chats!ShouldDeliver(m, x.conn[c])
            BY <2>4, <2>7, <4>3, <4>4, <5>3 DEF Chats!ShouldDeliver
          <6>2. Text(n, a) \o Chats!Remainder(Text(n, a), m.text) = m.full
            <7>1. Text(n, a) \in Texts
              BY <1>2, ChunksAreText
            <7>2. Text(n, a) \o <<>> = Text(n, a)
              BY <7>1 DEF Texts
            <7> QED
              BY <4>3, <7>2 DEF Closes
          <6>3. x.accum[s] = Text(n, a)
            BY <1>3, <4>1 DEF Unread
          <6>4. CASE conn[c].joined < n
            BY <3>2, <4>3, <4>4, <5>1, <5>2, <5>3, <6>1, <6>2, <6>3, <6>4 DEF Rendered
          <6>5. CASE ~(conn[c].joined < n)
            <7>1. conn[c].joined \in Nat
              BY DEF ChatTypes, Connections
            <7>2. n <= conn[c].joined
              BY <6>5, <7>1
            <7> QED
              BY <3>2, <4>3, <4>4, <6>1, <7>2 DEF Rendered
          <6> QED
            BY <6>4, <6>5
        <5>4. CASE conn[c].principal # q
          <6>1. ~Chats!ShouldDeliver(m, x.conn[c])
            BY <4>3, <5>1, <5>4 DEF Chats!ShouldDeliver
          <6> QED
            BY <2>3, <3>3, <4>4, <5>1, <5>2, <5>4, <6>1
        <5> QED
          BY <5>3, <5>4
      <4>5. Clean(y, s)
        BY <3>1, <4>4 DEF Clean
      <4> QED
        BY <2>1, <2>2, <3>1, <4>4, <4>5
    <3> QED
      BY <3>5, <3>6
  <2> QED
    BY <2>6, <2>7
<1>6. \A k \in 0..Len(finals) : k \in Good
  <2> HIDE DEF Good
  <2> QED
    BY <1>1, <1>4, <1>5, AlongPositions
<1> QED
  BY <1>6

\* The queued responses are handled.
LEMMA ChatsPollResponses ==
    ASSUME ChatConstants, ChatsFit, Chats!PollResponses
    PROVE  ChatsFit'
<1>1. /\ between /\ accum' = Chats!Finalised.accum /\ conn' = Chats!Finalised.conn
      /\ finals' = <<>> /\ between' = FALSE
      /\ UNCHANGED <<turn, deltas, count, dirty>>
  BY DEF Chats!PollResponses
<1>2. ChatTypes /\ Orderly
  BY DEF ChatsFit
<1>3. PICK f : Handled(f) /\ Chats!Finalised = f[Len(finals)]
  BY <1>2, ResponsesAreHandled
<1>4. PICK x, size : x = f[Len(finals)] /\ size = Len(finals)
  OBVIOUS
<1>5. size \in 0..Len(finals) /\ x = f[size] /\ DOMAIN finals = 1..size
  BY <1>2, <1>4 DEF ChatTypes
<1>6. x \in ChatStates /\ accum' = x.accum /\ conn' = x.conn /\ SameClients(x)
  BY <1>1, <1>2, <1>3, <1>4, <1>5, ClientsStay DEF Handled
<1>7. ChatTypes'
  <2>1. <<>> \in Seq(Bus) /\ x.accum \in [Sessions -> Texts] /\ x.conn \in [Conns -> Connections]
    BY <1>6 DEF ChatStates
  <2> QED
    BY <1>1, <1>2, <1>6, <2>1 DEF ChatTypes
<1>8. Orderly'
  BY <1>1, <1>2, <1>6 DEF Orderly, SameClients
<1>9. ASSUME NEW s \in Sessions, Quiet(s)
      PROVE  /\ InStep(s)'
             /\ \A c \in Conns : conn[c].session = s => Rendered(conn'[c])
  <2>a. PICK q \in Principals, n \in Nat : \E st : OneTurn(s) /\ Streamed(s, q, n, st)
    BY <1>9 DEF ChatsFit, InStep
  <2>1. PICK st : OneTurn(s) /\ Streamed(s, q, n, st)
    BY <2>a
  <2>2. \A c \in Conns : conn[c].session = s => Rendered(conn[c])
    BY <1>9 DEF Quiet, Rendered, ChatsFit, Chats!UndisturbedRepliesRenderOnce, Chats!Whole
  <2>3. /\ IF Before(size, s) THEN Unread(x, s) ELSE Clean(x, s)
        /\ \A c \in Conns : conn[c].session = s => Rendered(x.conn[c])
    BY <1>1, <1>2, <1>3, <1>5, <2>1, <2>2, RepliesAreRendered
  <2>4. Before(size, s) = NoFinal(s)
    BY <1>5 DEF Before, NoFinal
  <2>5. OneTurn(s)'
    BY <1>1, <2>1 DEF OneTurn
  <2>6. PICK k : k = st[Len(deltas)]
    OBVIOUS
  <2>7. Turned(s, q, n, k) /\ Queued(s, q, n, st) /\ OnScreens(s, q, n, st[0])
    BY <2>1, <2>6 DEF Streamed
  <2>8. NoFinal(s)'
    BY <1>1 DEF NoFinal
  <2>9. CASE NoFinal(s)
    <3>1. accum'[s] = accum[s] /\ \A c \in Conns : conn[c].session = s => conn'[c] = conn[c]
      BY <1>6, <2>3, <2>4, <2>9 DEF Unread
    <3>2. Queued(s, q, n, st)'
      BY <1>1, <2>7, <3>1 DEF Queued
    <3>3. Turned(s, q, n, k)'
      BY <1>1, <2>7, <2>8, <2>9 DEF Turned, NoFinal, FirstFinal
    <3>4. OnScreens(s, q, n, st[0])'
      BY <1>6, <2>7, <3>1 DEF OnScreens, SameClients
    <3>5. Streamed(s, q, n, st)'
      BY <1>1, <2>6, <3>2, <3>3, <3>4 DEF Streamed
    <3> QED
      BY <1>6, <2>3, <2>5, <3>5 DEF InStep
  <2>10. CASE ~NoFinal(s)
    <3>1. accum'[s] = <<>> /\ \A c \in Conns : conn[c].session = s => conn'[c].screen = <<>>
      BY <1>6, <2>3, <2>4, <2>10 DEF Clean
    <3>2. PICK none : none = [i \in 0..Len(deltas) |-> 0]
      OBVIOUS
    <3>3. /\ Len(deltas) \in Nat /\ none \in [0..Len(deltas) -> Nat]
          /\ \A i \in 0..Len(deltas) : none[i] = 0
      BY <1>2, <3>2 DEF ChatTypes
    <3>4. \A i \in 1..Len(deltas) : deltas[i].session # s
      <4>1. SUFFICES ASSUME NEW i \in 1..Len(deltas), deltas[i].session = s
                     PROVE  FALSE
        OBVIOUS
      <4>2. i \in 0..Len(deltas) /\ i - 1 \in 0..Len(deltas)
        BY <3>3
      <4>3. st[i] = st[i - 1] + 1 /\ st[i] \in Nat /\ st[i - 1] \in Nat
        BY <2>7, <4>1, <4>2 DEF Queued
      <4>4. st[0] = st[Len(deltas)]
        BY <1>1, <2>7 DEF Queued
      <4>5. st[0] <= st[i - 1] /\ st[i] <= st[Len(deltas)]
        BY <2>7, <4>2 DEF Queued
      <4>6. st[0] \in Nat
        BY <2>7, <3>3 DEF Queued
      <4> QED
        BY <4>3, <4>4, <4>5, <4>6
    <3>5. Queued(s, q, n, none)'
      <4>1. Text(n, 0) = <<>>
        BY ChunksAreText
      <4>2. \A i \in 1..Len(deltas) : i \in 0..Len(deltas) /\ i - 1 \in 0..Len(deltas)
        BY <3>3
      <4>3. 0 \in 0..Len(deltas) /\ Len(deltas) \in 0..Len(deltas)
        BY <3>3
      <4> QED
        BY <1>1, <3>1, <3>3, <3>4, <4>1, <4>2, <4>3 DEF Queued
    <3>6. none[Len(deltas)] = 0 /\ none[0] = 0
      BY <3>3
    <3>7. Turned(s, q, n, 0)'
      BY <1>1, <2>7, <2>10 DEF Turned
    <3>8. OnScreens(s, q, n, 0)'
      BY <1>6, <3>1 DEF OnScreens, SameClients
    <3>9. Streamed(s, q, n, none)'
      BY <1>1, <3>5, <3>6, <3>7, <3>8 DEF Streamed
    <3> QED
      BY <1>6, <2>3, <2>5, <3>9 DEF InStep
  <2> QED
    BY <2>9, <2>10
<1>10. \A s \in Sessions : Quiet(s)' = Quiet(s)
  BY <1>1 DEF Quiet
<1>11. Chats!UndisturbedRepliesRenderOnce'
  <2>1. ASSUME NEW c \in Conns, conn'[c].session \notin dirty'
        PROVE  conn'[c].shown = None \/ conn'[c].shown.n <= conn'[c].joined
               \/ conn'[c].shown.text = conn'[c].shown.full
    <3>1. PICK s : s = conn[c].session
      OBVIOUS
    <3>2. s \notin dirty
      BY <1>1, <1>6, <2>1, <3>1 DEF SameClients
    <3>3. CASE s = None
      <4>1. conn'[c] = conn[c]
        BY <1>6, <3>1, <3>3 DEF SameClients
      <4> QED
        BY <3>1, <3>2, <4>1 DEF ChatsFit, Chats!UndisturbedRepliesRenderOnce, Chats!Whole
    <3>4. CASE s \in Sessions
      <4>1. Rendered(conn'[c])
        BY <1>9, <3>1, <3>2, <3>4 DEF Quiet
      <4> QED
        BY <4>1 DEF Rendered
    <3>5. conn[c] \in Connections
      BY <1>2 DEF ChatTypes
    <3> QED
      BY <3>1, <3>3, <3>4, <3>5 DEF Connections
  <2> QED
    BY <2>1 DEF Chats!UndisturbedRepliesRenderOnce, Chats!Whole
<1> QED
  BY <1>7, <1>8, <1>9, <1>10, <1>11 DEF ChatsFit

LEMMA ChatsStep ==
    ASSUME ChatConstants, ChatsFit, [Chats!Next]_(Chats!vars)
    PROVE  ChatsFit'
<1>1. CASE UNCHANGED Chats!vars
  <2>1. ChatTypes' /\ Orderly' /\ Chats!UndisturbedRepliesRenderOnce'
    BY <1>1 DEF Chats!vars, ChatsFit, ChatTypes, Orderly,
                Chats!UndisturbedRepliesRenderOnce, Chats!Whole
  <2>2. ASSUME NEW s \in Sessions, Quiet(s)'
        PROVE  InStep(s)'
    <3>1. Quiet(s)
      BY <1>1, <2>2 DEF Chats!vars, Quiet
    <3>a. PICK q \in Principals, n \in Nat : \E st : OneTurn(s) /\ Streamed(s, q, n, st)
      BY <3>1 DEF ChatsFit, InStep
    <3>2. PICK st : OneTurn(s) /\ Streamed(s, q, n, st)
      BY <3>a
    <3>3. Streamed(s, q, n, st)' /\ OneTurn(s)'
      BY <1>1, <3>2 DEF Chats!vars, Streamed, Queued, Turned, OnScreens, NoFinal,
         FirstFinal, OneTurn
    <3> QED
      BY <3>3 DEF InStep
  <2> QED
    BY <2>1, <2>2 DEF ChatsFit
<1>2. CASE Chats!Next
  BY <1>2, ChatsConnect, ChatsIngress, ChatsDelta, ChatsRound, ChatsReply, ChatsFailure,
     ChatsAborted, ChatsPollDelta, ChatsNextPoll, ChatsPollResponses DEF Chats!Next
<1> QED
  BY <1>1, <1>2

(* On every connection that was on its session when the turn began, a session
   whose stream was never disturbed shows what the turn streamed once, over all
   rounds between its tool calls, and a final text whole if nothing was streamed
   before it, however the loop's two polls, the clients and the turns of all
   sessions interleave, and however many of each there are.  A final response
   behind streamed chunks is never longer than they are, so it adds nothing
   (capsule-cli lib.rs run loop and reconcile_stream_payload).                *)
THEOREM RepliesRenderOnce ==
    ASSUME ChatConstants
    PROVE  Chats!Spec => []Chats!UndisturbedRepliesRenderOnce
<1>1. Chats!Init => ChatsFit
  BY ChatsBegin
<1>2. ChatsFit /\ [Chats!Next]_(Chats!vars) => ChatsFit'
  BY ChatsStep
<1>3. ChatsFit => Chats!UndisturbedRepliesRenderOnce
  BY DEF ChatsFit
<1> QED
  BY <1>1, <1>2, <1>3, PTL DEF Chats!Spec

-----------------------------------------------------------------------------
(* ChatProxy: types *)

Bounded == dirty \subseteq Sessions /\ count \in 0..MaxTurns

LEMMA BoundedKept ==
    ASSUME ChatConstants, MaxTurns \in Nat, ChatTypes, Bounded, [Chats!Next]_(Chats!vars)
    PROVE  Bounded'
<1>2. \A ps \in Chats!Pairs : ps[2] \in Sessions
  BY DEF Chats!Pairs
<1>3. ASSUME UNCHANGED <<count, dirty>>
      PROVE  Bounded'
  BY <1>3 DEF Bounded
<1>4. ASSUME NEW c \in Conns, Chats!Connect(c) \/ Chats!Disconnect(c)
      PROVE  Bounded'
  BY <1>3, <1>4 DEF Chats!Connect, Chats!Disconnect
<1>5. ASSUME NEW c \in Conns, Chats!HandleIngress(c)
      PROVE  Bounded'
  <2>a. PICK claimed \in Principals \cup {None, Chats!Malformed},
             what \in {"prompt", "other"}, s \in Sessions :
           LET p == Chats!DecideIngress(conn[c].principal, claimed)
               joins == what = "prompt" /\ s # conn[c].session
               starts == what = "prompt" /\ turn[<<p, s>>].n = 0
           IN  /\ p # None
               /\ starts => count < MaxTurns
               /\ conn' = [conn EXCEPT ![c].principal = p,
                     ![c].session = IF joins THEN s ELSE @,
                     ![c].joined = IF joins THEN count ELSE @,
                     ![c].screen = IF joins THEN <<>> ELSE @]
               /\ count' = IF starts THEN count + 1 ELSE count
               /\ turn' = IF starts THEN [turn EXCEPT ![<<p, s>>].n = count + 1] ELSE turn
               /\ dirty' = IF starts /\ \E q \in Principals \ {p} : turn[<<q, s>>].n # 0
                           THEN dirty \cup {s} ELSE dirty
    BY <1>5, Zenon DEF Chats!HandleIngress
  <2>b. PICK p : p = Chats!DecideIngress(conn[c].principal, claimed)
    OBVIOUS
  <2>c. PICK starts \in BOOLEAN : starts = (what = "prompt" /\ turn[<<p, s>>].n = 0)
    OBVIOUS
  <2>1. \/ UNCHANGED <<count, dirty>>
        \/ /\ count < MaxTurns /\ count' = count + 1
           /\ dirty' = dirty \/ dirty' = dirty \cup {s}
    BY <2>a, <2>b, <2>c
  <2>2. CASE UNCHANGED <<count, dirty>>
    BY <1>3, <2>2
  <2>3. CASE ~UNCHANGED <<count, dirty>>
    <3>1. count' \in 0..MaxTurns
      BY <2>1, <2>3 DEF Bounded
    <3>3. dirty' = dirty \/ dirty' = dirty \cup {s}
      BY <2>1
    <3> QED
      BY <3>1, <3>3 DEF Bounded
  <2> QED
    BY <2>2, <2>3
<1>6. ASSUME NEW ps \in Chats!Pairs,
             \/ Chats!StreamDelta(ps) \/ Chats!ToolRound(ps) \/ Chats!FinalResponse(ps)
             \/ Chats!FailureResponse(ps) \/ Chats!TurnAborted(ps)
      PROVE  Bounded'
  <2>1. count' = count /\ (dirty' = dirty \/ dirty' = dirty \cup {ps[2]})
    BY <1>6 DEF Chats!StreamDelta, Chats!ToolRound, Chats!FinalResponse, Chats!FailureResponse,
                Chats!Final, Chats!TurnAborted, Chats!Disturb
  <2> QED
    BY <1>2, <2>1 DEF Bounded
<1>7. CASE Chats!PollDelta
  <2>1. PICK victim \in Sessions : dirty' = dirty \/ dirty' = dirty \cup {victim}
    BY <1>7 DEF Chats!PollDelta
  <2>2. count' = count
    BY <1>7 DEF Chats!PollDelta
  <2> QED
    BY <2>1, <2>2 DEF Bounded
<1>8. CASE Chats!NextPoll \/ Chats!PollResponses \/ UNCHANGED Chats!vars
  BY <1>3, <1>8 DEF Chats!NextPoll, Chats!PollResponses, Chats!vars
<1> QED
  BY <1>4, <1>5, <1>6, <1>7, <1>8 DEF Chats!Next

\* A connection is bound to a principal and to a session that exist, and no more
\* turns are begun than were let in (capsule-cli lib.rs handle_ingress).
THEOREM ChatsAreTyped ==
    ASSUME ChatConstants, MaxTurns \in Nat
    PROVE  Chats!Spec => []Chats!TypeOK
<1> DEFINE I == ChatsFit /\ Bounded
<1>1. Chats!Init => I
  <2>1. ASSUME Chats!Init
        PROVE  Bounded
    BY <2>1 DEF Chats!Init, Bounded
  <2> QED
    BY <2>1, ChatsBegin
<1>2. I /\ [Chats!Next]_(Chats!vars) => I'
  BY ChatsStep, BoundedKept DEF ChatsFit
<1>3. I => Chats!TypeOK
  <2>1. SUFFICES ASSUME ChatsFit, Bounded
                 PROVE  Chats!TypeOK
    OBVIOUS
  <2>2. ASSUME NEW c \in Conns
        PROVE  /\ conn[c].principal \in Principals \cup {None}
               /\ conn[c].session \in Sessions \cup {None}
    BY <2>1 DEF ChatsFit, ChatTypes, Connections
  <2> QED
    BY <2>1, <2>2 DEF Chats!TypeOK, Bounded
<1> QED
  BY <1>1, <1>2, <1>3, PTL DEF Chats!Spec

-----------------------------------------------------------------------------
(* ProviderCatalog: lists of ids *)

\* out is ids at the positions `at`: its i-th entry stands at f[i].
From(f, ids, at, out) ==
    /\ f \in [1..Len(out) -> at \cap (1..Len(ids))]
    /\ \A i \in 1..Len(out) : out[i] = ids[f[i]]
    /\ \A i, j \in 1..Len(out) : i < j => f[i] < f[j]
    /\ \A n \in at \cap (1..Len(ids)) : \E i \in 1..Len(out) : f[i] = n

\* One more position, which is picked or not.
LEMMA OnePicked ==
    ASSUME NEW V, NEW ids \in Seq(V), NEW at, NEW n \in 1..Len(ids),
           NEW out \in Seq(V), NEW f, From(f, ids, at \cap (1..(n - 1)), out)
    PROVE  LET more == IF n \in at THEN Append(out, ids[n]) ELSE out
           IN  more \in Seq(V) /\ \E g : From(g, ids, at \cap (1..n), more)
<1> DEFINE size == Len(out)
           few == at \cap (1..(n - 1))
           many == at \cap (1..n)
<1>0. n \in Nat /\ Len(ids) \in Nat /\ size \in Nat /\ ids[n] \in V
  OBVIOUS
<1>1. CASE n \notin at
  <2>1. many = few
    BY <1>0, <1>1
  <2> QED
    BY <1>1, <2>1
<1>2. CASE n \in at
  <2>1. many = few \cup {n} /\ n \in many \cap (1..Len(ids))
    BY <1>0, <1>2
  <2>2. \A m \in few : m < n /\ m \in Nat
    BY <1>0
  <2> DEFINE more == Append(out, ids[n])
             g == [i \in 1..(size + 1) |-> IF i = size + 1 THEN n ELSE f[i]]
  <2>3. /\ more \in Seq(V) /\ Len(more) = size + 1 /\ more[size + 1] = ids[n]
        /\ \A i \in 1..size : more[i] = out[i]
    BY <1>0
  <2>4. \A i \in 1..(size + 1) : i = size + 1 \/ (i \in 1..size /\ i # size + 1 /\ i < size + 1)
    BY <1>0
  <2>5. size + 1 \in 1..(size + 1) /\ \A i \in 1..size : i \in 1..(size + 1) /\ i # size + 1
    BY <1>0
  <2>6. g[size + 1] = n /\ \A i \in 1..size : g[i] = f[i]
    BY <2>5
  <2>7. \A i \in 1..size : f[i] \in few \cap (1..Len(ids))
    BY DEF From
  <2>8. g \in [1..(size + 1) -> many \cap (1..Len(ids))]
    <3>1. \A i \in 1..(size + 1) : g[i] \in many \cap (1..Len(ids))
      <4> HIDE DEF g, many, few, size
      <4> QED
        BY <2>1, <2>4, <2>6, <2>7
    <3> QED
      BY <3>1
  <2> HIDE DEF g, more, few, many, size
  <2>9. \A i \in 1..(size + 1) : more[i] = ids[g[i]]
    <3>1. \A i \in 1..size : out[i] = ids[f[i]]
      BY DEF From, size
    <3> QED
      BY <2>3, <2>4, <2>6, <3>1
  <2>10. \A i, j \in 1..(size + 1) : i < j => g[i] < g[j]
    <3>1. SUFFICES ASSUME NEW i \in 1..(size + 1), NEW j \in 1..(size + 1), i < j
                   PROVE  g[i] < g[j]
      OBVIOUS
    <3>2. i \in 1..size
      BY <1>0, <3>1
    <3>3. CASE j = size + 1
      BY <2>2, <2>6, <2>7, <3>2, <3>3
    <3>4. CASE j \in 1..size
      <4>1. f[i] < f[j]
        BY <3>1, <3>2, <3>4 DEF From, size
      <4> QED
        BY <2>6, <3>2, <3>4, <4>1
    <3> QED
      BY <2>4, <3>3, <3>4
  <2>11. \A m \in many \cap (1..Len(ids)) : \E i \in 1..(size + 1) : g[i] = m
    <3>1. \A m \in few \cap (1..Len(ids)) : \E i \in 1..size : f[i] = m
      BY DEF From, size, few
    <3> QED
      BY <2>1, <2>5, <2>6, <3>1
  <2>12. From(g, ids, many, more)
    BY <2>3, <2>8, <2>9, <2>10, <2>11 DEF From
  <2> QED
    BY <1>2, <2>3, <2>12 DEF more, many
<1> QED
  BY <1>1, <1>2

\* What Picked returns.
LEMMA PickedInOrder ==
    ASSUME NEW V, NEW ids \in Seq(V), NEW at
    PROVE  /\ Menu!Picked(ids, at) \in Seq(V)
           /\ \E f : From(f, ids, at, Menu!Picked(ids, at))
<1> DEFINE size == Len(ids)
           Next(n, s) == IF n \in at THEN Append(s, ids[n]) ELSE s
           step == [n \in 1..size |-> [s \in Seq(V) |-> Next(n, s)]]
           Is(f) == f = [n \in 0..size |-> IF n = 0 THEN <<>>
                           ELSE IF n \in at THEN Append(f[n - 1], ids[n]) ELSE f[n - 1]]
<1>1. size \in Nat /\ <<>> \in Seq(V) /\ \A n \in 1..size : n - 1 \in 0..size /\ n \in 0..size /\ n # 0
  OBVIOUS
<1>2. ASSUME NEW n \in 1..size, NEW s \in Seq(V)
      PROVE  Next(n, s) \in Seq(V)
  <2>1. ids[n] \in V
    OBVIOUS
  <2> QED
    BY <2>1
<1>3. step \in [1..size -> [Seq(V) -> Seq(V)]] /\ \A n \in 1..size, s \in Seq(V) : step[n][s] = Next(n, s)
  <2> HIDE DEF Next
  <2> QED
    BY <1>2
<1>4. PICK h \in [0..size -> Seq(V)] : h[0] = <<>> /\ \A n \in 1..size : h[n] = step[n][h[n - 1]]
  <2> HIDE DEF step, size
  <2>1. Recursive(size, Seq(V), <<>>, step)
    BY <1>1, <1>3, RecursionExists
  <2> QED
    BY <2>1 DEF Recursive
<1>5. \A n \in 1..size : h[n - 1] \in Seq(V) /\ h[n] = Next(n, h[n - 1])
  <2> HIDE DEF Next, step, size
  <2> QED
    BY <1>1, <1>3, <1>4
<1>6. Is(h)
  <2> HIDE DEF step, size
  <2>1. h = [n \in 0..size |-> h[n]]
    BY <1>4
  <2>2. \A n \in 0..size : n = 0 \/ n \in 1..size
    BY <1>1
  <2>3. \A n \in 0..size : h[n] = IF n = 0 THEN <<>>
                             ELSE IF n \in at THEN Append(h[n - 1], ids[n]) ELSE h[n - 1]
    BY <1>1, <1>4, <1>5, <2>2
  <2> QED
    BY <2>1, <2>3, Zenon
<1>7. Menu!Picked(ids, at) = (CHOOSE g : Is(g))[size]
  BY Zenon DEF Menu!Picked
<1>8. PICK g : Is(g) /\ Menu!Picked(ids, at) = g[size]
  <2> HIDE DEF Is
  <2>1. Is(CHOOSE g : Is(g))
    BY <1>6
  <2> QED
    BY <1>7, <2>1
<1>9. g[0] = <<>> /\ \A n \in 1..size : g[n] = IF n \in at THEN Append(g[n - 1], ids[n]) ELSE g[n - 1]
  <2> HIDE DEF size
  <2>1. 0 \in 0..size
    BY <1>1
  <2>2. g = [n \in 0..size |-> IF n = 0 THEN <<>>
                ELSE IF n \in at THEN Append(g[n - 1], ids[n]) ELSE g[n - 1]]
    BY <1>8
  <2>3. \A n \in 0..size : g[n] = IF n = 0 THEN <<>>
                ELSE IF n \in at THEN Append(g[n - 1], ids[n]) ELSE g[n - 1]
    BY <2>2
  <2> QED
    BY <1>1, <2>1, <2>3
<1> DEFINE Picks(n) == g[n] \in Seq(V) /\ \E f : From(f, ids, at \cap (1..n), g[n])
           Good == {n \in 0..size : Picks(n)}
<1>10. 0 \in Good
  <2> DEFINE f == [i \in 1..0 |-> i]
  <2>1. 1..0 = {} /\ at \cap (1..0) = {} /\ Len(<<>>) = 0
    OBVIOUS
  <2>2. From(f, ids, at \cap (1..0), <<>>)
    BY <2>1 DEF From
  <2> HIDE DEF f
  <2>3. Picks(0)
    BY <1>1, <1>9, <2>2
  <2> HIDE DEF Picks, size
  <2>4. 0 \in 0..size
    BY <1>1
  <2> QED
    BY <2>3, <2>4
<1>11. ASSUME NEW n \in 1..size, n - 1 \in Good
       PROVE  n \in Good
  <2> HIDE DEF size
  <2>1. g[n - 1] \in Seq(V)
    BY <1>11
  <2>2. PICK f : From(f, ids, at \cap (1..(n - 1)), g[n - 1])
    BY <1>11
  <2>3. n \in 1..Len(ids)
    BY DEF size
  <2>4. LET more == IF n \in at THEN Append(g[n - 1], ids[n]) ELSE g[n - 1]
        IN  more \in Seq(V) /\ \E e : From(e, ids, at \cap (1..n), more)
    BY <2>1, <2>2, <2>3, OnePicked
  <2>5. Picks(n)
    BY <1>9, <2>4
  <2> QED
    BY <1>1, <2>5
<1>12. size \in Good
  <2> HIDE DEF size, Good
  <2>1. \A k \in 0..size : k \in Good
    BY <1>1, <1>10, <1>11, AlongPositions
  <2> QED
    BY <1>1, <2>1
<1>13. PICK f : g[size] \in Seq(V) /\ From(f, ids, at \cap (1..size), g[size])
  BY <1>12
<1>14. From(f, ids, at, g[size])
  <2>1. at \cap (1..size) \cap (1..Len(ids)) = at \cap (1..Len(ids))
    OBVIOUS
  <2> HIDE DEF size
  <2> QED
    BY <1>13, <2>1 DEF From
<1> QED
  BY <1>8, <1>13, <1>14

-----------------------------------------------------------------------------
(* ProviderCatalog: ids that are usable *)

\* out is the first of each id that is not blank, in their order; they stand at f.
Firsts(f, ids, out) ==
    /\ f \in [1..Len(out) -> 1..Len(ids)]
    /\ \A i \in 1..Len(out) : out[i] = ids[f[i]] /\ ~Menu!Blank(out[i])
    /\ \A i, j \in 1..Len(out) : i < j => f[i] < f[j]
    /\ \A i \in 1..Len(out) : \A n \in 1..Len(ids) : n < f[i] => ids[n] # out[i]
    /\ \A n \in 1..Len(ids) : ~Menu!Blank(ids[n]) => \E i \in 1..Len(out) : out[i] = ids[n]

LEMMA UsableFirsts ==
    ASSUME NEW V, NEW ids \in Seq(V)
    PROVE  /\ Menu!ExtractModelIds(ids) \in Seq(V)
           /\ \E f : Firsts(f, ids, Menu!ExtractModelIds(ids))
<1> DEFINE at == Menu!Usable(ids)
           out == Menu!ExtractModelIds(ids)
<1>1. Len(ids) \in Nat /\ DOMAIN ids = 1..Len(ids)
  OBVIOUS
<1>2. \A n : n \in at <=> /\ n \in 1..Len(ids) /\ ~Menu!Blank(ids[n])
                          /\ \A m \in 1..(n - 1) : ids[m] # ids[n]
  BY <1>1 DEF Menu!Usable
<1>3. out \in Seq(V) /\ \E f : From(f, ids, at, out)
  BY PickedInOrder DEF Menu!ExtractModelIds
<1> HIDE DEF at, out
<1>4. PICK f : From(f, ids, at, out)
  BY <1>3
<1>5. \A i \in 1..Len(out) : f[i] \in at /\ f[i] \in 1..Len(ids) /\ out[i] = ids[f[i]]
  BY <1>4 DEF From
<1>6. ASSUME NEW i \in 1..Len(out), NEW n \in 1..Len(ids), n < f[i]
      PROVE  ids[n] # out[i]
  <2>1. n \in 1..(f[i] - 1)
    BY <1>1, <1>5, <1>6
  <2> QED
    BY <1>2, <1>5, <1>6, <2>1
<1>7. ASSUME NEW n \in 1..Len(ids), ~Menu!Blank(ids[n])
      PROVE  \E i \in 1..Len(out) : out[i] = ids[n]
  <2> DEFINE K == {m \in 1..Len(ids) : ids[m] = ids[n]}
  <2>1. K \subseteq Nat /\ n \in K
    BY <1>7
  <2>2. PICK m \in K : \A other \in K : m <= other
    <3> HIDE DEF K
    <3> QED
      BY <2>1, FirstPosition
  <2>3. m \in 1..Len(ids) /\ ids[m] = ids[n]
    OBVIOUS
  <2>4. ASSUME NEW k \in 1..(m - 1)
        PROVE  ids[k] # ids[m]
    <3>1. k \in 1..Len(ids) /\ ~(m <= k)
      BY <1>1, <2>3
    <3> QED
      BY <2>2, <2>3, <3>1
  <2>5. m \in at
    BY <1>2, <1>7, <2>3, <2>4
  <2>6. PICK i \in 1..Len(out) : f[i] = m
    BY <1>4, <2>3, <2>5 DEF From
  <2> QED
    BY <1>5, <2>3, <2>6
<1>8. f \in [1..Len(out) -> 1..Len(ids)] /\ \A i, j \in 1..Len(out) : i < j => f[i] < f[j]
  BY <1>4 DEF From
<1>9. Firsts(f, ids, out)
  BY <1>2, <1>5, <1>6, <1>7, <1>8 DEF Firsts
<1> QED
  BY <1>3, <1>9 DEF out

\* No id comes twice.
Distinct(ids) == \A i, j \in 1..Len(ids) : i # j => ids[i] # ids[j]

LEMMA FirstsDiffer ==
    ASSUME NEW V, NEW ids \in Seq(V), NEW out \in Seq(V), NEW f, Firsts(f, ids, out)
    PROVE  Distinct(out)
<1>1. \A k, m \in 1..Len(out) : k < m => out[k] # out[m]
  <2>1. SUFFICES ASSUME NEW k \in 1..Len(out), NEW m \in 1..Len(out), k < m
                 PROVE  out[k] # out[m]
    OBVIOUS
  <2>2. f[k] < f[m] /\ f[k] \in 1..Len(ids) /\ out[k] = ids[f[k]]
    BY <2>1 DEF Firsts
  <2> QED
    BY <2>2 DEF Firsts
<1>2. \A i, j \in 1..Len(out) : i # j => i < j \/ j < i
  OBVIOUS
<1> QED
  BY <1>1, <1>2 DEF Distinct

\* The ids a provider may come across, and what trimming leaves of one.
Called(chars) == [text : Seq(chars), before : BOOLEAN, after : BOOLEAN]
Trimmed(ids) == [n \in DOMAIN ids |-> Menu!Trim(ids[n])]

LEMMA TrimIs ==
    ASSUME NEW chars, NEW id \in Called(chars)
    PROVE  /\ Menu!Trim(id) \in Called(chars)
           /\ Menu!Trim(id) = Menu!Plain(id.text)
           /\ Menu!Trim(id).text = id.text
           /\ Menu!Blank(Menu!Trim(id)) <=> Menu!Blank(id)
<1>1. Menu!Trim(id) = Menu!Plain(id.text)
  BY DEF Menu!Trim
<1>2. Menu!Trim(id).text = id.text /\ id.text \in Seq(chars)
  BY <1>1 DEF Called, Menu!Plain
<1> QED
  BY <1>1, <1>2 DEF Menu!Blank, Called, Menu!Plain

LEMMA TrimmedIs ==
    ASSUME NEW chars, NEW ids \in Seq(Called(chars))
    PROVE  /\ Trimmed(ids) \in Seq(Called(chars)) /\ Len(Trimmed(ids)) = Len(ids)
           /\ \A n \in 1..Len(ids) : /\ Trimmed(ids)[n] = Menu!Trim(ids[n])
                                     /\ Menu!Blank(Trimmed(ids)[n]) <=> Menu!Blank(ids[n])
<1>1. \A n \in 1..Len(ids) : /\ Menu!Trim(ids[n]) \in Called(chars)
                             /\ Menu!Blank(Menu!Trim(ids[n])) <=> Menu!Blank(ids[n])
  <2>1. \A n \in 1..Len(ids) : ids[n] \in Called(chars)
    OBVIOUS
  <2> QED
    BY <2>1, TrimIs
<1>2. DOMAIN ids = 1..Len(ids) /\ Len(ids) \in Nat
  OBVIOUS
<1>3. Trimmed(ids) = [n \in 1..Len(ids) |-> Menu!Trim(ids[n])]
  BY <1>2 DEF Trimmed
<1> QED
  BY <1>1, <1>2, <1>3

\* Extracting twice, with a trim between, is extracting the trimmed ones.
LEMMA TrimmedFirsts ==
    ASSUME NEW chars, NEW ids \in Seq(Called(chars)), NEW found \in Seq(Called(chars)),
           NEW live \in Seq(Called(chars)),
           NEW f, Firsts(f, ids, found), NEW g, Firsts(g, Trimmed(found), live)
    PROVE  \E h : Firsts(h, Trimmed(ids), live)
<1> DEFINE h == [i \in 1..Len(live) |-> f[g[i]]]
           src == Trimmed(ids)
           mid == Trimmed(found)
<1>1. /\ Len(src) = Len(ids) /\ Len(mid) = Len(found)
      /\ \A n \in 1..Len(ids) : src[n] = Menu!Trim(ids[n]) /\ (Menu!Blank(src[n]) <=> Menu!Blank(ids[n]))
      /\ \A n \in 1..Len(found) : mid[n] = Menu!Trim(found[n])
  BY TrimmedIs
<1>2. Len(ids) \in Nat /\ Len(found) \in Nat /\ Len(live) \in Nat
  OBVIOUS
<1> HIDE DEF src, mid
<1>3. /\ f \in [1..Len(found) -> 1..Len(ids)]
      /\ \A i \in 1..Len(found) : found[i] = ids[f[i]]
      /\ \A i, j \in 1..Len(found) : i < j => f[i] < f[j]
      /\ \A i \in 1..Len(found) : \A n \in 1..Len(ids) : n < f[i] => ids[n] # found[i]
      /\ \A n \in 1..Len(ids) : ~Menu!Blank(ids[n]) => \E i \in 1..Len(found) : found[i] = ids[n]
  BY DEF Firsts
<1>4. /\ g \in [1..Len(live) -> 1..Len(found)]
      /\ \A i \in 1..Len(live) : live[i] = mid[g[i]] /\ ~Menu!Blank(live[i])
      /\ \A i, j \in 1..Len(live) : i < j => g[i] < g[j]
      /\ \A i \in 1..Len(live) : \A n \in 1..Len(found) : n < g[i] => mid[n] # live[i]
      /\ \A n \in 1..Len(found) : ~Menu!Blank(mid[n]) => \E i \in 1..Len(live) : live[i] = mid[n]
  BY <1>1 DEF Firsts, mid
<1>5. /\ h \in [1..Len(live) -> 1..Len(ids)]
      /\ \A i \in 1..Len(live) : g[i] \in 1..Len(found) /\ h[i] = f[g[i]] /\ h[i] \in 1..Len(ids)
  BY <1>3, <1>4
<1> HIDE DEF h
<1>6. \A i \in 1..Len(live) : live[i] = src[h[i]] /\ ~Menu!Blank(live[i])
  <2>1. SUFFICES ASSUME NEW i \in 1..Len(live)
                 PROVE  live[i] = src[h[i]]
    BY <1>4
  <2>2. live[i] = mid[g[i]] /\ g[i] \in 1..Len(found) /\ h[i] = f[g[i]] /\ h[i] \in 1..Len(ids)
    BY <1>4, <1>5
  <2>3. mid[g[i]] = Menu!Trim(found[g[i]]) /\ found[g[i]] = ids[f[g[i]]]
    BY <1>1, <1>3, <2>2
  <2>4. src[h[i]] = Menu!Trim(ids[h[i]])
    BY <1>1, <2>2
  <2> QED
    BY <2>2, <2>3, <2>4
<1>7. \A i, j \in 1..Len(live) : i < j => h[i] < h[j]
  BY <1>3, <1>4, <1>5
<1>8. ASSUME NEW n \in 1..Len(ids), ~Menu!Blank(src[n])
      PROVE  \E i \in 1..Len(found) : found[i] = ids[n] /\ f[i] <= n /\ mid[i] = src[n]
  <2>1. PICK i \in 1..Len(found) : found[i] = ids[n]
    BY <1>1, <1>3, <1>8
  <2>2. ~(n < f[i]) /\ f[i] \in Nat
    BY <1>3, <2>1
  <2>3. f[i] <= n /\ mid[i] = src[n]
    BY <1>1, <1>2, <2>1, <2>2
  <2> QED
    BY <2>1, <2>3
<1>9. ASSUME NEW i \in 1..Len(live), NEW n \in 1..Len(ids), n < h[i], src[n] = live[i]
      PROVE  FALSE
  <2>1. PICK k \in 1..Len(found) : f[k] <= n /\ mid[k] = src[n]
    BY <1>6, <1>8, <1>9
  <2>2. f[k] < f[g[i]] /\ f[k] \in Nat /\ k \in Nat /\ g[i] \in Nat /\ f[g[i]] \in Nat
    BY <1>2, <1>3, <1>5, <1>9, <2>1
  <2>3. k < g[i]
    <3>1. ~(g[i] < k) /\ k # g[i]
      BY <1>3, <1>5, <2>2
    <3> QED
      BY <2>2, <3>1
  <2> QED
    BY <1>4, <1>9, <2>1, <2>3
<1>10. ASSUME NEW n \in 1..Len(ids), ~Menu!Blank(src[n])
       PROVE  \E i \in 1..Len(live) : live[i] = src[n]
  <2>1. PICK k \in 1..Len(found) : mid[k] = src[n]
    BY <1>8, <1>10
  <2> QED
    BY <1>4, <1>10, <2>1
<1>11. Firsts(h, src, live)
  BY <1>1, <1>5, <1>6, <1>7, <1>9, <1>10 DEF Firsts
<1> QED
  BY <1>11 DEF src

-----------------------------------------------------------------------------
(* ProviderCatalog: the operator's model in front *)

\* out is the ids in their order, but for x, which is in front if it is there.
Led(out, ids, x) ==
    /\ \A i, j \in 1..Len(out) : i # j => out[i] # out[j]
    /\ \A i \in 1..Len(out) : out[i] = x \/ \E n \in 1..Len(ids) : ids[n] = out[i]
    /\ \A n \in 1..Len(ids) : \E i \in 1..Len(out) : out[i] = ids[n]
    /\ \A i, j \in 1..Len(out) : i < j /\ out[i] # x /\ out[j] # x
          => \E m, n \in 1..Len(ids) : m < n /\ ids[m] = out[i] /\ ids[n] = out[j]
    /\ \A i \in 1..Len(out) : out[i] = x => out[1] = x

LEMMA FrontLeads ==
    ASSUME NEW V, NEW x \in V, NEW ids \in Seq(V), Distinct(ids), NEW rest \in Seq(V),
           NEW f, From(f, ids, {n \in DOMAIN ids : ids[n] # x}, rest)
    PROVE  /\ <<x>> \o rest \in Seq(V)
           /\ Led(<<x>> \o rest, ids, x)
           /\ \E i \in 1..Len(<<x>> \o rest) : (<<x>> \o rest)[i] = x
<1> DEFINE out == <<x>> \o rest
           at == {n \in DOMAIN ids : ids[n] # x}
<1>1. /\ out \in Seq(V) /\ Len(out) = Len(rest) + 1 /\ Len(rest) \in Nat /\ Len(ids) \in Nat
      /\ out[1] = x /\ \A i \in 2..Len(out) : out[i] = rest[i - 1]
      /\ DOMAIN ids = 1..Len(ids)
  OBVIOUS
<1>2. /\ \A i \in 1..Len(rest) : f[i] \in 1..Len(ids) /\ rest[i] = ids[f[i]] /\ ids[f[i]] # x
      /\ \A i, j \in 1..Len(rest) : i < j => f[i] < f[j]
      /\ \A n \in 1..Len(ids) : ids[n] # x => \E i \in 1..Len(rest) : rest[i] = ids[n]
  <2>1. \A n : n \in at \cap (1..Len(ids)) <=> n \in 1..Len(ids) /\ ids[n] # x
    BY <1>1
  <2> HIDE DEF at
  <2>2. From(f, ids, at, rest)
    BY DEF at
  <2>3. \A i \in 1..Len(rest) : f[i] \in at \cap (1..Len(ids)) /\ rest[i] = ids[f[i]]
    BY <2>2 DEF From
  <2>4. \A n \in at \cap (1..Len(ids)) : \E i \in 1..Len(rest) : f[i] = n
    BY <2>2 DEF From
  <2>5. \A i, j \in 1..Len(rest) : i < j => f[i] < f[j]
    BY <2>2 DEF From
  <2>6. \A i \in 1..Len(rest) : f[i] \in 1..Len(ids) /\ rest[i] = ids[f[i]] /\ ids[f[i]] # x
    BY <2>1, <2>3
  <2>7. \A n \in 1..Len(ids) : ids[n] # x => \E i \in 1..Len(rest) : rest[i] = ids[n]
    BY <2>1, <2>3, <2>4
  <2> QED
    BY <2>5, <2>6, <2>7
<1> HIDE DEF out
<1>3. \A i \in 1..Len(out) : i # 1 => /\ i - 1 \in 1..Len(rest) /\ out[i] = rest[i - 1]
                                      /\ out[i] # x /\ out[i] = ids[f[i - 1]] /\ f[i - 1] \in 1..Len(ids)
  <2>1. SUFFICES ASSUME NEW i \in 1..Len(out), i # 1
                 PROVE  i - 1 \in 1..Len(rest) /\ i \in 2..Len(out)
    BY <1>1, <1>2
  <2> QED
    BY <1>1, <2>1
<1>4. \A i, j \in 1..Len(out) : i < j /\ i # 1 =>
         f[i - 1] < f[j - 1] /\ j # 1
  <2>1. SUFFICES ASSUME NEW i \in 1..Len(out), NEW j \in 1..Len(out), i < j, i # 1
                 PROVE  f[i - 1] < f[j - 1] /\ j # 1
    OBVIOUS
  <2>2. j # 1 /\ i - 1 < j - 1
    BY <1>1, <2>1
  <2> QED
    BY <1>2, <1>3, <2>1, <2>2
<1>5. ASSUME NEW i \in 1..Len(out), NEW j \in 1..Len(out), i < j
      PROVE  out[i] # out[j]
  <2>1. CASE i = 1
    BY <1>1, <1>3, <1>5, <2>1
  <2>2. CASE i # 1
    <3>1. f[i - 1] < f[j - 1] /\ j # 1
      BY <1>4, <1>5, <2>2
    <3>2. f[i - 1] \in 1..Len(ids) /\ f[j - 1] \in 1..Len(ids)
      BY <1>3, <2>2, <3>1
    <3>5. f[i - 1] # f[j - 1]
      <4>1. \A m, n \in 1..Len(ids) : m < n => m # n
        BY <1>1
      <4> QED
        BY <3>1, <3>2, <4>1
    <3>3. ids[f[i - 1]] # ids[f[j - 1]]
      BY <3>2, <3>5 DEF Distinct
    <3>4. out[i] = ids[f[i - 1]] /\ out[j] = ids[f[j - 1]]
      BY <1>3, <2>2, <3>1
    <3> QED
      BY <3>3, <3>4
  <2> QED
    BY <2>1, <2>2
<1>6. \A i, j \in 1..Len(out) : i # j => out[i] # out[j]
  <2>1. \A i, j \in 1..Len(out) : i # j => i < j \/ j < i
    BY <1>1
  <2> QED
    BY <1>5, <2>1
<1>7. \A n \in 1..Len(ids) : \E i \in 1..Len(out) : out[i] = ids[n]
  <2>1. SUFFICES ASSUME NEW n \in 1..Len(ids)
                 PROVE  \E i \in 1..Len(out) : out[i] = ids[n]
    OBVIOUS
  <2>2. CASE ids[n] = x
    <3>1. 1 \in 1..Len(out)
      BY <1>1
    <3> QED
      BY <1>1, <2>2, <3>1
  <2>3. CASE ids[n] # x
    <3>1. PICK k \in 1..Len(rest) : rest[k] = ids[n]
      BY <1>2, <2>3
    <3>2. k + 1 \in 1..Len(out) /\ k + 1 # 1 /\ (k + 1) - 1 = k
      BY <1>1
    <3>3. out[k + 1] = rest[(k + 1) - 1]
      BY <1>3, <3>2
    <3> QED
      BY <3>1, <3>2, <3>3
  <2> QED
    BY <2>2, <2>3
<1>8. ASSUME NEW i \in 1..Len(out), NEW j \in 1..Len(out), i < j, out[i] # x, out[j] # x
      PROVE  \E m, n \in 1..Len(ids) : m < n /\ ids[m] = out[i] /\ ids[n] = out[j]
  <2>1. i # 1
    BY <1>1, <1>8
  <2>2. f[i - 1] < f[j - 1] /\ j # 1
    BY <1>4, <1>8, <2>1
  <2> QED
    BY <1>3, <2>1, <2>2
<1>9. \A i \in 1..Len(out) : out[i] = x \/ \E n \in 1..Len(ids) : ids[n] = out[i]
  BY <1>1, <1>3
<1>10. Led(out, ids, x)
  BY <1>1, <1>6, <1>7, <1>8, <1>9 DEF Led
<1>11. 1 \in 1..Len(out)
  BY <1>1
<1> QED
  BY <1>1, <1>10, <1>11 DEF out

\* Nothing is in out that is not in ids.
Within(out, ids) == \A i \in 1..Len(out) : \E n \in 1..Len(ids) : ids[n] = out[i]

LEMMA HoistLeads ==
    ASSUME NEW V, NEW x \in V, NEW ids \in Seq(V), Distinct(ids), NEW out, out = Menu!Hoist(x, ids)
    PROVE  out \in Seq(V) /\ Led(out, ids, x) /\ Within(out, ids)
<1>1. Len(ids) \in Nat /\ DOMAIN ids = 1..Len(ids)
  OBVIOUS
<1>2. CASE x \in Menu!Range(ids)
  <2> DEFINE at == {n \in DOMAIN ids : ids[n] # x}
             rest == Menu!Picked(ids, at)
  <2>1. rest \in Seq(V) /\ \E f : From(f, ids, at, rest)
    BY PickedInOrder
  <2>2. out = <<x>> \o rest
    BY <1>2 DEF Menu!Hoist
  <2> HIDE DEF rest
  <2>3. <<x>> \o rest \in Seq(V) /\ Led(<<x>> \o rest, ids, x)
    BY <2>1, FrontLeads
  <2>4. \E n \in 1..Len(ids) : ids[n] = x
    BY <1>1, <1>2 DEF Menu!Range
  <2>5. out \in Seq(V) /\ Led(out, ids, x)
    BY <2>2, <2>3
  <2>6. \A i \in 1..Len(out) : \E n \in 1..Len(ids) : ids[n] = out[i]
    BY <2>4, <2>5 DEF Led
  <2> QED
    BY <2>5, <2>6 DEF Within
<1>3. CASE x \notin Menu!Range(ids)
  <2>1. out = ids
    BY <1>3 DEF Menu!Hoist
  <2>2. \A n \in 1..Len(ids) : ids[n] # x
    BY <1>1, <1>3 DEF Menu!Range
  <2>3. Led(ids, ids, x)
    BY <2>2 DEF Led, Distinct
  <2> QED
    BY <2>1, <2>3 DEF Within
<1> QED
  BY <1>2, <1>3

\* The same, of an id that is not in the list and comes to its front.
LEMMA NewcomerLeads ==
    ASSUME NEW V, NEW x \in V, NEW ids \in Seq(V), Distinct(ids), x \notin Menu!Range(ids)
    PROVE  <<x>> \o ids \in Seq(V) /\ Led(<<x>> \o ids, ids, x)
<1> DEFINE at == {n \in DOMAIN ids : ids[n] # x}
           f == [i \in 1..Len(ids) |-> i]
<1>1. Len(ids) \in Nat /\ DOMAIN ids = 1..Len(ids)
  OBVIOUS
<1>2. at = 1..Len(ids)
  BY <1>1 DEF Menu!Range
<1>3. From(f, ids, at, ids)
  <2> HIDE DEF at
  <2> QED
    BY <1>1, <1>2 DEF From
<1> HIDE DEF f
<1> QED
  BY <1>3, FrontLeads

-----------------------------------------------------------------------------
(* ProviderCatalog: the row that describes an id *)

\* The openai capsule's table: rows of characters, none blank and none twice.  What the
\* upstream lists and the operator sets are ids.
Tabled(chars) ==
    /\ Table \in Seq(Seq(chars)) /\ Distinct(Table)
    /\ \A i \in 1..Len(Table) : Table[i] # <<>>
    /\ ModelIds \subseteq Called(chars)

LEMMA PrefixesNest ==
    ASSUME NEW V, NEW r \in Seq(V), NEW q \in Seq(V), NEW t \in Seq(V),
           Menu!IsPrefix(r, t), Menu!IsPrefix(q, t), Len(q) <= Len(r)
    PROVE  Menu!IsPrefix(q, r)
<1>1. Len(r) \in Nat /\ Len(q) \in Nat /\ Len(t) \in Nat /\ Len(r) <= Len(t) /\ Len(q) <= Len(t)
  BY DEF Menu!IsPrefix
<1>2. SubSeq(r, 1, Len(r)) = SubSeq(t, 1, Len(r)) /\ SubSeq(q, 1, Len(q)) = SubSeq(t, 1, Len(q))
  BY DEF Menu!IsPrefix
<1>3. \A k \in 1..Len(r) : r[k] = t[k]
  <2>1. SUFFICES ASSUME NEW k \in 1..Len(r)
                 PROVE  r[k] = t[k]
    OBVIOUS
  <2>2. SubSeq(r, 1, Len(r))[k] = r[k] /\ SubSeq(t, 1, Len(r))[k] = t[k]
    BY <1>1
  <2> QED
    BY <1>2, <2>2
<1>4. \A k \in 1..Len(q) : q[k] = t[k]
  <2>1. SUFFICES ASSUME NEW k \in 1..Len(q)
                 PROVE  q[k] = t[k]
    OBVIOUS
  <2>2. SubSeq(q, 1, Len(q))[k] = q[k] /\ SubSeq(t, 1, Len(q))[k] = t[k]
    BY <1>1
  <2> QED
    BY <1>2, <2>2
<1>5. SubSeq(q, 1, Len(q)) = SubSeq(r, 1, Len(q))
  <2> DEFINE a == SubSeq(q, 1, Len(q))
             b == SubSeq(r, 1, Len(q))
  <2>1. /\ a \in Seq(V) /\ b \in Seq(V) /\ Len(a) = Len(q) /\ Len(b) = Len(q)
        /\ \A k \in 1..Len(q) : a[k] = q[k] /\ b[k] = r[k]
    BY <1>1
  <2> HIDE DEF a, b
  <2>2. \A k \in 1..Len(q) : a[k] = b[k]
    BY <1>1, <1>3, <1>4, <2>1
  <2>3. a \in [1..Len(q) -> V] /\ b \in [1..Len(q) -> V]
    BY <2>1
  <2>4. a = b
    BY <2>2, <2>3
  <2> QED
    BY <2>4 DEF a, b
<1> QED
  BY <1>1, <1>5 DEF Menu!IsPrefix

\* lookup: the row found has every row the id begins with as its beginning, and the
\* row an id is spelled like is the one found.
LEMMA LookupCovers ==
    ASSUME NEW chars, Tabled(chars), NEW id \in Called(chars)
    PROVE  /\ Menu!Lookup(id) \in Seq(chars)
           /\ Menu!Lookup(id) \in Menu!Range(Table) \cup {<<>>}
           /\ \A r \in Menu!Range(Table) : Menu!Begins(r, id) => Menu!IsPrefix(r, Menu!Lookup(id))
           /\ ~id.before /\ id.text \in Menu!Range(Table) => Menu!Lookup(id) = id.text
<1> DEFINE rows == {r \in Menu!Range(Table) : Menu!Begins(r, id)}
           Longest(r) == r \in rows /\ \A q \in rows : Len(q) <= Len(r)
<1>1. id.text \in Seq(chars) /\ Len(id.text) \in Nat
  BY DEF Called
<1>2. \A r \in Menu!Range(Table) : r \in Seq(chars) /\ r # <<>> /\ Len(r) \in Nat /\ Len(r) # 0
  <2>1. SUFFICES ASSUME NEW r \in Menu!Range(Table)
                 PROVE  r \in Seq(chars) /\ r # <<>>
    OBVIOUS
  <2>2. PICK n \in 1..Len(Table) : r = Table[n]
    BY DEF Menu!Range, Tabled
  <2> QED
    BY <2>2 DEF Tabled
<1>3. CASE rows = {}
  <2>1. Menu!Lookup(id) = <<>>
    BY <1>3 DEF Menu!Lookup
  <2>2. id.before \/ id.text \notin Menu!Range(Table)
    <3>1. Menu!IsPrefix(id.text, id.text)
      BY <1>1 DEF Menu!IsPrefix
    <3> QED
      BY <1>3, <3>1 DEF Menu!Begins
  <2> QED
    BY <1>3, <2>1, <2>2
<1>4. CASE rows # {}
  <2>1. \A r \in rows : r \in Menu!Range(Table) /\ Menu!IsPrefix(r, id.text) /\ r \in Seq(chars)
                        /\ Len(r) \in 1..Len(id.text)
    <3>1. \A r \in rows : r \in Menu!Range(Table) /\ Menu!IsPrefix(r, id.text)
      BY DEF Menu!Begins
    <3>2. \A r \in rows : Len(r) <= Len(id.text)
      BY <3>1 DEF Menu!IsPrefix
    <3> HIDE DEF rows
    <3> QED
      BY <1>1, <1>2, <3>1, <3>2
  <2> HIDE DEF rows
  <2>2. \E r : Longest(r)
    <3> DEFINE K == {Len(r) : r \in rows}
    <3>1. K \subseteq 1..Len(id.text) /\ K # {}
      BY <1>4, <2>1
    <3>2. PICK k \in K : \A other \in K : other <= k
      <4> HIDE DEF K
      <4> QED
        BY <1>1, <3>1, LastPosition
    <3>3. PICK r \in rows : k = Len(r)
      OBVIOUS
    <3>4. \A q \in rows : Len(q) <= Len(r)
      BY <3>2, <3>3
    <3> QED
      BY <3>4
  <2>3. Menu!Lookup(id) = CHOOSE r \in rows : \A q \in rows : Len(q) <= Len(r)
    BY <1>4 DEF Menu!Lookup, rows
  <2>4. PICK found : found = Menu!Lookup(id) /\ Longest(found)
    BY <2>2, <2>3
  <2>5. \A r \in Menu!Range(Table) : Menu!Begins(r, id) => Menu!IsPrefix(r, found)
    <3>1. SUFFICES ASSUME NEW r \in Menu!Range(Table), Menu!Begins(r, id)
                   PROVE  Menu!IsPrefix(r, found)
      OBVIOUS
    <3>2. r \in rows
      BY <3>1 DEF rows
    <3>3. Len(r) <= Len(found)
      BY <2>4, <3>2
    <3> QED
      BY <1>1, <2>1, <2>4, <3>2, <3>3, PrefixesNest
  <2>6. ASSUME ~id.before, id.text \in Menu!Range(Table)
        PROVE  found = id.text
    <3>1. Menu!IsPrefix(id.text, id.text)
      BY <1>1 DEF Menu!IsPrefix
    <3>2. id.text \in rows
      BY <2>6, <3>1 DEF rows, Menu!Begins
    <3>3. Len(found) = Len(id.text)
      BY <1>1, <2>1, <2>4, <3>2
    <3>4. SubSeq(found, 1, Len(found)) = SubSeq(id.text, 1, Len(found))
      BY <2>1, <2>4 DEF Menu!IsPrefix
    <3>5. found \in Seq(chars)
      BY <2>1, <2>4
    <3> QED
      BY <1>1, <3>3, <3>4, <3>5
  <2> QED
    BY <2>1, <2>4, <2>5, <2>6
<1> QED
  BY <1>3, <1>4

-----------------------------------------------------------------------------
(* ProviderCatalog: what a capsule offers *)

\* Where an id first stands.
FirstOf(src, id, n) ==
    n \in 1..Len(src) /\ src[n] = id /\ \A m \in 1..(n - 1) : src[m] # id

\* out is what src lists, in its order, but for x, which is in front if it is there.
Live(out, src, x) ==
    /\ \A n \in 1..Len(src) : ~Menu!Blank(src[n]) => \E i \in 1..Len(out) : out[i] = src[n]
    /\ \A i \in 1..Len(out) : out[i] = x \/ \E n \in 1..Len(src) : src[n] = out[i]
    /\ \A i, j \in 1..Len(out) : i < j /\ out[i] # x /\ out[j] # x
          => \E m, n \in 1..Len(src) : m < n /\ FirstOf(src, out[i], m) /\ FirstOf(src, out[j], n)

LEMMA LiveByFirsts ==
    ASSUME NEW V, NEW src \in Seq(V), NEW live \in Seq(V), NEW out \in Seq(V), NEW x,
           NEW h, Firsts(h, src, live), Led(out, live, x)
    PROVE  Live(out, src, x)
<1>1. Len(src) \in Nat /\ Len(live) \in Nat /\ Len(out) \in Nat
  OBVIOUS
<1>2. /\ \A k \in 1..Len(live) : h[k] \in 1..Len(src) /\ live[k] = src[h[k]]
      /\ \A k, m \in 1..Len(live) : k < m => h[k] < h[m]
      /\ \A k \in 1..Len(live) : \A n \in 1..Len(src) : n < h[k] => src[n] # live[k]
      /\ \A n \in 1..Len(src) : ~Menu!Blank(src[n]) => \E k \in 1..Len(live) : live[k] = src[n]
  BY DEF Firsts
<1>3. \A k \in 1..Len(live) : FirstOf(src, live[k], h[k])
  <2>1. SUFFICES ASSUME NEW k \in 1..Len(live)
                 PROVE  FirstOf(src, live[k], h[k])
    OBVIOUS
  <2>2. \A m \in 1..(h[k] - 1) : m \in 1..Len(src) /\ m < h[k]
    BY <1>1, <1>2
  <2> QED
    BY <1>2, <2>2 DEF FirstOf
<1>4. \A n \in 1..Len(src) : ~Menu!Blank(src[n]) => \E i \in 1..Len(out) : out[i] = src[n]
  <2>1. SUFFICES ASSUME NEW n \in 1..Len(src), ~Menu!Blank(src[n])
                 PROVE  \E i \in 1..Len(out) : out[i] = src[n]
    OBVIOUS
  <2>2. PICK k \in 1..Len(live) : live[k] = src[n]
    BY <1>2, <2>1
  <2>3. PICK i \in 1..Len(out) : out[i] = live[k]
    BY DEF Led
  <2> QED
    BY <2>2, <2>3
<1>5. \A i \in 1..Len(out) : out[i] = x \/ \E n \in 1..Len(src) : src[n] = out[i]
  <2>1. SUFFICES ASSUME NEW i \in 1..Len(out), out[i] # x
                 PROVE  \E n \in 1..Len(src) : src[n] = out[i]
    OBVIOUS
  <2>2. PICK k \in 1..Len(live) : live[k] = out[i]
    BY <2>1 DEF Led
  <2> QED
    BY <1>2, <2>2
<1>6. ASSUME NEW i \in 1..Len(out), NEW j \in 1..Len(out), i < j, out[i] # x, out[j] # x
      PROVE  \E m, n \in 1..Len(src) : m < n /\ FirstOf(src, out[i], m) /\ FirstOf(src, out[j], n)
  <2>1. PICK k, l \in 1..Len(live) : k < l /\ live[k] = out[i] /\ live[l] = out[j]
    BY <1>6 DEF Led
  <2>2. h[k] < h[l] /\ h[k] \in 1..Len(src) /\ h[l] \in 1..Len(src)
    BY <1>2, <2>1
  <2>3. FirstOf(src, out[i], h[k]) /\ FirstOf(src, out[j], h[l])
    BY <1>3, <2>1
  <2> QED
    BY <2>2, <2>3
<1> QED
  BY <1>4, <1>5, <1>6 DEF Live

\* What the upstream lists, the setting, and which capsule answers.
Offering(chars) ==
    /\ dialect \in {"openai", "compat"}
    /\ listed \in Seq(Called(chars)) /\ default \in Called(chars)

Source == IF dialect = "openai" THEN Trimmed(listed) ELSE listed

\* No row is found for the setting.
Missed == /\ dialect = "openai" /\ default.before
          /\ \A n \in 1..Len(Source) : Menu!Blank(Source[n])

\* What the three ways of answering have in common.
Sorted(out, chars) ==
    LET first == Menu!Trim(default)
        Has(id) == \E i \in 1..Len(out) : out[i] = id
    IN  /\ out \in Seq(Called(chars)) /\ Distinct(out)
        /\ \A i \in 1..Len(out) : ~Menu!Blank(out[i])
        /\ (\E n \in 1..Len(Source) : ~Menu!Blank(Source[n])) =>
              /\ Live(out, Source, first)
              /\ dialect = "compat" => \A i \in 1..Len(out) :
                                          \E n \in 1..Len(Source) : Source[n] = out[i]
              /\ dialect = "openai" /\ ~Menu!Blank(first) => Has(first)
        /\ (\A n \in 1..Len(Source) : Menu!Blank(Source[n])) =>
              /\ dialect = "openai" => \A id : Has(id) <=> id \in Menu!Rows
              /\ dialect = "compat" => \A id : Has(id) <=> id = first /\ ~Menu!Blank(first)
        /\ ~Menu!Blank(first) /\ Has(first) => out[1] = first \/ Missed

LEMMA LiveEntriesAreSorted ==
    ASSUME NEW chars, Tabled(chars), Offering(chars), dialect = "openai",
           NEW found, found = Menu!ExtractModelIds(listed), found # <<>>
    PROVE  Sorted(Menu!BuildLiveEntries(found), chars)
<1> DEFINE V == Called(chars)
           live == Menu!ExtractModelIds(Trimmed(found))
           first == Menu!Trim(default)
           out == Menu!BuildLiveEntries(found)
<1>1. listed \in Seq(V) /\ default \in V /\ first \in V
  <2>1. listed \in Seq(Called(chars)) /\ default \in Called(chars)
    BY DEF Offering
  <2>2. Menu!Trim(default) \in Called(chars)
    BY <2>1, TrimIs
  <2> QED
    BY <2>1, <2>2
<1> HIDE DEF V
<1>2. found \in Seq(V) /\ \E f : Firsts(f, listed, found)
  BY <1>1, UsableFirsts
<1>3. PICK f : Firsts(f, listed, found)
  BY <1>2
<1>4. Trimmed(found) \in Seq(V) /\ Trimmed(listed) \in Seq(V)
  BY <1>1, <1>2, TrimmedIs DEF V
<1>5. live \in Seq(V) /\ \E g : Firsts(g, Trimmed(found), live)
  BY <1>4, UsableFirsts
<1> HIDE DEF live, first
<1>6. PICK g : Firsts(g, Trimmed(found), live)
  BY <1>5
<1>7. PICK h : Firsts(h, Trimmed(listed), live)
  BY <1>1, <1>2, <1>3, <1>5, <1>6, TrimmedFirsts DEF V
<1>8. Distinct(live)
  BY <1>4, <1>5, <1>6, FirstsDiffer
<1>9. \A i \in 1..Len(live) : ~Menu!Blank(live[i])
  BY <1>6 DEF Firsts
<1>10. out = IF Menu!Blank(first) THEN live
             ELSE IF first \in Menu!Range(live) THEN Menu!Hoist(first, live)
             ELSE <<first>> \o live
  BY Zenon DEF Menu!BuildLiveEntries, Trimmed, live, first
<1> HIDE DEF out
<1>11. /\ out \in Seq(V) /\ Led(out, live, first)
       /\ Menu!Blank(first) => out = live
       /\ ~Menu!Blank(first) => \E i \in 1..Len(out) : out[i] = first
  <2>1. CASE Menu!Blank(first)
    <3>1. out = live
      BY <1>10, <2>1
    <3>2. \A i \in 1..Len(live) : live[i] # first
      BY <1>9, <2>1
    <3>3. Led(live, live, first)
      BY <1>8, <3>2 DEF Led, Distinct
    <3> QED
      BY <1>5, <2>1, <3>1, <3>3
  <2>2. CASE ~Menu!Blank(first) /\ first \in Menu!Range(live)
    <3>1. out = Menu!Hoist(first, live)
      BY <1>10, <2>2
    <3>2. out \in Seq(V) /\ Led(out, live, first)
      BY <1>1, <1>5, <1>8, <3>1, HoistLeads
    <3>3. PICK n \in 1..Len(live) : live[n] = first
      BY <1>5, <2>2 DEF Menu!Range
    <3>4. \E i \in 1..Len(out) : out[i] = first
      BY <3>2, <3>3 DEF Led
    <3> QED
      BY <2>2, <3>2, <3>4
  <2>3. CASE ~Menu!Blank(first) /\ first \notin Menu!Range(live)
    <3>1. out = <<first>> \o live
      BY <1>10, <2>3
    <3>2. out \in Seq(V) /\ Led(out, live, first)
      BY <1>1, <1>5, <1>8, <2>3, <3>1, NewcomerLeads
    <3>3. 1 \in 1..Len(out) /\ out[1] = first
      BY <1>1, <1>5, <3>1
    <3> QED
      BY <2>3, <3>2, <3>3
  <2> QED
    BY <2>1, <2>2, <2>3
<1>12. Distinct(out) /\ (\A i \in 1..Len(out) : out[i] = first => out[1] = first)
  BY <1>11 DEF Led, Distinct
<1>13. \A i \in 1..Len(out) : ~Menu!Blank(out[i])
  <2>1. SUFFICES ASSUME NEW i \in 1..Len(out)
                 PROVE  ~Menu!Blank(out[i])
    OBVIOUS
  <2>2. CASE Menu!Blank(first)
    BY <1>9, <1>11, <2>2
  <2>3. CASE ~Menu!Blank(first)
    <3>1. out[i] = first \/ \E n \in 1..Len(live) : live[n] = out[i]
      BY <1>11 DEF Led
    <3> QED
      BY <1>9, <2>3, <3>1
  <2> QED
    BY <2>2, <2>3
<1>14. Live(out, Trimmed(listed), first)
  BY <1>4, <1>5, <1>7, <1>11, LiveByFirsts
<1>15. \E n \in 1..Len(Trimmed(listed)) : ~Menu!Blank(Trimmed(listed)[n])
  <2>1. Len(found) \in Nat /\ Len(found) # 0
    BY <1>2
  <2>2. 1 \in 1..Len(found)
    BY <2>1
  <2>3. f[1] \in 1..Len(listed) /\ found[1] = listed[f[1]] /\ ~Menu!Blank(found[1])
    BY <1>3, <2>2 DEF Firsts
  <2>4. /\ Len(Trimmed(listed)) = Len(listed)
        /\ \A n \in 1..Len(listed) : Menu!Blank(Trimmed(listed)[n]) <=> Menu!Blank(listed[n])
    BY <1>1, TrimmedIs DEF V
  <2> QED
    BY <2>3, <2>4
<1>16. Source = Trimmed(listed) /\ dialect # "compat"
  BY DEF Source
<1> QED
  BY <1>11, <1>12, <1>13, <1>14, <1>15, <1>16 DEF Sorted, out, first, V

LEMMA ListedIsSorted ==
    ASSUME NEW chars, Tabled(chars), Offering(chars), dialect = "compat",
           NEW found, found = Menu!ExtractModelIds(listed), found # <<>>
    PROVE  Sorted(Menu!Hoist(Menu!Trim(default), found), chars)
<1> DEFINE V == Called(chars)
           first == Menu!Trim(default)
           out == Menu!Hoist(first, found)
<1>1. listed \in Seq(V) /\ default \in V /\ first \in V
  <2>1. listed \in Seq(Called(chars)) /\ default \in Called(chars)
    BY DEF Offering
  <2>2. Menu!Trim(default) \in Called(chars)
    BY <2>1, TrimIs
  <2> QED
    BY <2>1, <2>2
<1> HIDE DEF V, first, out
<1>2. found \in Seq(V) /\ \E f : Firsts(f, listed, found)
  BY <1>1, UsableFirsts
<1>3. PICK f : Firsts(f, listed, found)
  BY <1>2
<1>4. Distinct(found)
  BY <1>1, <1>2, <1>3, FirstsDiffer
<1>5. \A i \in 1..Len(found) : ~Menu!Blank(found[i]) /\ f[i] \in 1..Len(listed) /\ found[i] = listed[f[i]]
  BY <1>3 DEF Firsts
<1>6. out \in Seq(V) /\ Led(out, found, first) /\ Within(out, found)
  <2>1. out = Menu!Hoist(first, found)
    BY DEF out
  <2> QED
    BY <1>1, <1>2, <1>4, <2>1, HoistLeads
<1>7. Distinct(out) /\ (\A i \in 1..Len(out) : out[i] = first => out[1] = first)
  BY <1>6 DEF Led, Distinct
<1>8. \A i \in 1..Len(out) : ~Menu!Blank(out[i]) /\ \E n \in 1..Len(listed) : listed[n] = out[i]
  <2>1. SUFFICES ASSUME NEW i \in 1..Len(out)
                 PROVE  ~Menu!Blank(out[i]) /\ \E n \in 1..Len(listed) : listed[n] = out[i]
    OBVIOUS
  <2>2. PICK n \in 1..Len(found) : found[n] = out[i]
    BY <1>6 DEF Within
  <2>3. ~Menu!Blank(found[n]) /\ f[n] \in 1..Len(listed) /\ found[n] = listed[f[n]]
    BY <1>5
  <2> QED
    BY <2>2, <2>3
<1>9. Live(out, listed, first)
  BY <1>1, <1>2, <1>3, <1>6, LiveByFirsts
<1>10. \E n \in 1..Len(listed) : ~Menu!Blank(listed[n])
  <2>1. Len(found) \in Nat /\ Len(found) # 0
    BY <1>2
  <2>2. 1 \in 1..Len(found)
    BY <2>1
  <2> QED
    BY <1>5, <2>2
<1>11. Source = listed /\ dialect # "openai"
  BY DEF Source
<1> QED
  BY <1>6, <1>7, <1>8, <1>9, <1>10, <1>11 DEF Sorted, out, first, V

\* Nothing usable listed.
LEMMA NothingFound ==
    ASSUME NEW chars, Offering(chars), Menu!ExtractModelIds(listed) = <<>>
    PROVE  \A n \in 1..Len(Source) : Menu!Blank(Source[n])
<1>1. listed \in Seq(Called(chars))
  BY DEF Offering
<1>2. PICK f : Firsts(f, listed, <<>>)
  BY <1>1, UsableFirsts
<1>3. \A n \in 1..Len(listed) : Menu!Blank(listed[n])
  <2>1. ASSUME NEW n \in 1..Len(listed), ~Menu!Blank(listed[n])
        PROVE  FALSE
    <3>1. \E i \in 1..Len(<<>>) : TRUE
      BY <1>2, <2>1 DEF Firsts
    <3> QED
      BY <3>1
  <2> QED
    BY <2>1
<1>4. /\ Len(Trimmed(listed)) = Len(listed)
      /\ \A n \in 1..Len(listed) : Menu!Blank(Trimmed(listed)[n]) <=> Menu!Blank(listed[n])
  BY <1>1, TrimmedIs
<1> QED
  BY <1>3, <1>4 DEF Source

LEMMA TableIsSorted ==
    ASSUME NEW chars, Tabled(chars), Offering(chars), dialect = "openai",
           Menu!ExtractModelIds(listed) = <<>>
    PROVE  Sorted(Menu!BuildProviderEntries, chars)
<1> DEFINE V == Called(chars)
           first == Menu!Trim(default)
           Row(r) == Menu!Plain(r)
           rows == [i \in DOMAIN Table |-> Row(Table[i])]
           x == Row(Menu!Lookup(default))
           out == Menu!BuildProviderEntries
<1>1. default \in V /\ default.text \in Seq(chars) /\ first = Row(default.text)
  <2>1. default \in Called(chars)
    BY DEF Offering
  <2> QED
    BY <2>1, TrimIs DEF Called
<1>2. \A r \in Seq(chars) : Row(r) \in V /\ Row(r).text = r
  BY DEF Called, Menu!Plain
<1>3. x \in V
  BY <1>1, <1>2, LookupCovers
<1>4. /\ Table \in Seq(Seq(chars)) /\ DOMAIN Table = 1..Len(Table) /\ Len(Table) \in Nat
      /\ \A i \in 1..Len(Table) : Table[i] \in Seq(chars) /\ Table[i] # <<>>
      /\ \A i, j \in 1..Len(Table) : i # j => Table[i] # Table[j]
  <2>1. Table \in Seq(Seq(chars)) /\ \A i \in 1..Len(Table) : Table[i] # <<>>
    BY DEF Tabled
  <2>2. \A i, j \in 1..Len(Table) : i # j => Table[i] # Table[j]
    BY DEF Tabled, Distinct
  <2>3. DOMAIN Table = 1..Len(Table) /\ Len(Table) \in Nat
        /\ \A i \in 1..Len(Table) : Table[i] \in Seq(chars)
    BY <2>1
  <2> QED
    BY <2>1, <2>2, <2>3
<1> HIDE DEF V
<1>5. /\ rows \in Seq(V) /\ Len(rows) = Len(Table)
      /\ \A i \in 1..Len(Table) : rows[i] = Row(Table[i])
  <2>1. \A i \in 1..Len(Table) : Row(Table[i]) \in V
    BY <1>2, <1>4
  <2> HIDE DEF Row
  <2>2. rows = [i \in 1..Len(Table) |-> Row(Table[i])]
    BY <1>4
  <2> QED
    BY <1>4, <2>1, <2>2
<1>6. out = Menu!Hoist(x, rows)
  BY Zenon DEF Menu!BuildProviderEntries
<1>7. Menu!Rows = {Row(Table[i]) : i \in 1..Len(Table)}
  BY <1>4, Zenon DEF Menu!Rows
<1> HIDE DEF rows, x, out, first
<1>8. Distinct(rows)
  <2>1. SUFFICES ASSUME NEW i \in 1..Len(Table), NEW j \in 1..Len(Table), i # j
                 PROVE  rows[i] # rows[j]
    BY <1>5 DEF Distinct
  <2>2. Row(Table[i]).text = Table[i] /\ Row(Table[j]).text = Table[j] /\ Table[i] # Table[j]
    BY <1>2, <1>4, <2>1
  <2> QED
    BY <1>5, <2>2
<1>9. /\ out \in Seq(V) /\ Led(out, rows, x)
      /\ \A i \in 1..Len(out) : \E n \in 1..Len(rows) : rows[n] = out[i]
  <2>1. out \in Seq(V) /\ Led(out, rows, x) /\ Within(out, rows)
    BY <1>3, <1>5, <1>6, <1>8, HoistLeads
  <2> QED
    BY <2>1 DEF Within
<1>10. Distinct(out) /\ (\A i \in 1..Len(out) : out[i] = x => out[1] = x)
  BY <1>9 DEF Led, Distinct
<1>11. \A id : (\E i \in 1..Len(out) : out[i] = id) <=> id \in Menu!Rows
  <2> HIDE DEF Row
  <2>1. ASSUME NEW i \in 1..Len(out)
        PROVE  out[i] \in Menu!Rows
    BY <1>5, <1>7, <1>9
  <2>2. ASSUME NEW id \in Menu!Rows
        PROVE  \E i \in 1..Len(out) : out[i] = id
    <3>1. PICK n \in 1..Len(Table) : id = Row(Table[n])
      BY <1>7
    <3>2. n \in 1..Len(rows) /\ rows[n] = id
      BY <1>5, <3>1
    <3> QED
      BY <1>9, <3>2 DEF Led
  <2> QED
    BY <2>1, <2>2
<1>12. \A i \in 1..Len(out) : ~Menu!Blank(out[i])
  <2>1. SUFFICES ASSUME NEW i \in 1..Len(out)
                 PROVE  out[i].text # <<>>
    BY DEF Menu!Blank
  <2>2. PICK n \in 1..Len(Table) : out[i] = Row(Table[n])
    BY <1>5, <1>9
  <2>3. Row(Table[n]).text = Table[n] /\ Table[n] # <<>>
    BY <1>2, <1>4
  <2> QED
    BY <2>2, <2>3
<1>13. ASSUME NEW i \in 1..Len(out), out[i] = first, ~default.before
       PROVE  out[1] = first
  <2>1. PICK n \in 1..Len(Table) : first = Row(Table[n])
    BY <1>5, <1>9, <1>13
  <2>2. Row(Table[n]).text = Table[n] /\ Row(default.text).text = default.text
    BY <1>1, <1>2, <1>4
  <2>3. default.text = Table[n]
    BY <1>1, <2>1, <2>2
  <2>4. default.text \in Menu!Range(Table)
    BY <1>4, <2>3 DEF Menu!Range
  <2>5. Menu!Lookup(default) = default.text
    BY <1>1, <1>13, <2>4, LookupCovers DEF V
  <2>6. x = first
    BY <1>1, <2>5 DEF x
  <2> QED
    BY <1>10, <1>13, <2>6
<1>14. (\A n \in 1..Len(Source) : Menu!Blank(Source[n])) /\ dialect # "compat"
  BY NothingFound
<1>15. ASSUME NEW i \in 1..Len(out), out[i] = first
       PROVE  out[1] = first \/ Missed
  BY <1>13, <1>14, <1>15 DEF Missed
<1> HIDE DEF Missed
<1> QED
  BY <1>9, <1>10, <1>11, <1>12, <1>14, <1>15 DEF Sorted, out, first, V

LEMMA SettingIsSorted ==
    ASSUME NEW chars, Tabled(chars), Offering(chars), dialect = "compat",
           Menu!ExtractModelIds(listed) = <<>>
    PROVE  Sorted(Menu!Hoist(Menu!Trim(default), Menu!ResolveModelIds(<<>>)), chars)
<1> DEFINE V == Called(chars)
           first == Menu!Trim(default)
           ids == Menu!ResolveModelIds(<<>>)
           out == Menu!Hoist(first, ids)
<1>1. default \in V /\ first \in V /\ (Menu!Blank(first) <=> Menu!Blank(default))
  <2>1. default \in Called(chars)
    BY DEF Offering
  <2> QED
    BY <2>1, TrimIs
<1> HIDE DEF V, out
<1>2. ids = IF Menu!Blank(first) THEN <<>> ELSE <<first>>
  BY <1>1 DEF Menu!ResolveModelIds, Menu!Unreachable
<1> HIDE DEF first, ids
<1>3. /\ ids \in Seq(V) /\ Distinct(ids)
      /\ \A id : (\E i \in 1..Len(ids) : ids[i] = id) <=> id = first /\ ~Menu!Blank(first)
  <2>1. CASE Menu!Blank(first)
    <3>1. ids = <<>> /\ Len(<<>>) = 0 /\ 1..0 = {}
      BY <1>2, <2>1
    <3> QED
      BY <2>1, <3>1 DEF Distinct
  <2>2. CASE ~Menu!Blank(first)
    <3>1. ids = <<first>> /\ Len(ids) = 1 /\ ids[1] = first /\ 1..1 = {1} /\ ids \in Seq(V)
      BY <1>1, <1>2, <2>2
    <3> QED
      BY <2>2, <3>1 DEF Distinct
  <2> QED
    BY <2>1, <2>2
<1>4. /\ out \in Seq(V) /\ Led(out, ids, first)
      /\ \A i \in 1..Len(out) : \E n \in 1..Len(ids) : ids[n] = out[i]
  <2>1. out = Menu!Hoist(first, ids)
    BY DEF out
  <2>2. out \in Seq(V) /\ Led(out, ids, first) /\ Within(out, ids)
    BY <1>1, <1>3, <2>1, HoistLeads
  <2> QED
    BY <2>2 DEF Within
<1>5. Distinct(out) /\ (\A i \in 1..Len(out) : out[i] = first => out[1] = first)
  BY <1>4 DEF Led, Distinct
<1>6. \A i \in 1..Len(out) : out[i] = first /\ ~Menu!Blank(first)
  BY <1>3, <1>4
<1>7. ~Menu!Blank(first) => \E i \in 1..Len(out) : out[i] = first
  <2>1. SUFFICES ASSUME ~Menu!Blank(first)
                 PROVE  \E i \in 1..Len(out) : out[i] = first
    OBVIOUS
  <2>2. PICK n \in 1..Len(ids) : ids[n] = first
    BY <1>3, <2>1
  <2> QED
    BY <1>4, <2>2 DEF Led
<1>8. (\A n \in 1..Len(Source) : Menu!Blank(Source[n])) /\ dialect # "openai"
  BY NothingFound
<1> QED
  BY <1>4, <1>5, <1>6, <1>7, <1>8 DEF Sorted, out, ids, first, V

\* Ids sorted like this are sound offers.
LEMMA SortedMeansSound ==
    ASSUME NEW chars, Tabled(chars), Offering(chars), NEW out, Sorted(out, chars),
           offered = [i \in DOMAIN out |-> Menu!Entry(out[i])]
    PROVE  Menu!OffersAreSound
<1> DEFINE Id(i) == offered[i].id
           As(id) == IF dialect = "openai" THEN Menu!Trim(id) ELSE id
           wanted == {As(id) : id \in {x \in Menu!Range(listed) : ~Menu!Blank(x)}}
           chosen == IF Menu!Blank(default) THEN {} ELSE {Menu!Trim(default)}
           known == {Id(i) : i \in DOMAIN offered}
           FirstAt(id) == CHOOSE n \in DOMAIN listed :
                 As(listed[n]) = id /\ \A m \in 1 .. n - 1 : As(listed[m]) # id
           first == Menu!Trim(default)
           Has(id) == \E i \in 1..Len(out) : out[i] = id
<1>1. /\ listed \in Seq(Called(chars)) /\ default \in Called(chars)
      /\ dialect = "openai" \/ dialect = "compat"
  BY DEF Offering
<1>2. /\ out \in Seq(Called(chars)) /\ Distinct(out)
      /\ \A i \in 1..Len(out) : ~Menu!Blank(out[i])
      /\ ~Menu!Blank(first) /\ Has(first) => out[1] = first \/ Missed
  BY DEF Sorted
<1>3. DOMAIN out = 1..Len(out) /\ Len(out) \in Nat /\ DOMAIN listed = 1..Len(listed) /\ Len(listed) \in Nat
  BY <1>1, <1>2
<1>4. /\ DOMAIN offered = 1..Len(out)
      /\ \A i \in 1..Len(out) :
            Id(i) = out[i] /\ (dialect = "openai" => offered[i].row = Menu!Lookup(out[i]))
  BY <1>3 DEF Menu!Entry
<1>5. /\ Len(Source) = Len(listed)
      /\ \A n \in 1..Len(listed) : Source[n] = As(listed[n]) /\ (Menu!Blank(Source[n]) <=> Menu!Blank(listed[n]))
  <2>1. /\ Len(Trimmed(listed)) = Len(listed)
        /\ \A n \in 1..Len(listed) : /\ Trimmed(listed)[n] = Menu!Trim(listed[n])
                                     /\ Menu!Blank(Trimmed(listed)[n]) <=> Menu!Blank(listed[n])
    BY <1>1, TrimmedIs
  <2> QED
    BY <2>1 DEF Source
<1>6. Menu!Blank(first) <=> Menu!Blank(default)
  BY <1>1, TrimIs
<1>7. \A id : id \in wanted <=> \E n \in 1..Len(Source) : Source[n] = id /\ ~Menu!Blank(Source[n])
  <2> HIDE DEF As
  <2>1. \A x : x \in Menu!Range(listed) <=> \E n \in 1..Len(listed) : x = listed[n]
    BY <1>3 DEF Menu!Range
  <2>2. ASSUME NEW id \in wanted
        PROVE  \E n \in 1..Len(Source) : Source[n] = id /\ ~Menu!Blank(Source[n])
    <3>1. PICK x \in Menu!Range(listed) : ~Menu!Blank(x) /\ id = As(x)
      OBVIOUS
    <3>2. PICK n \in 1..Len(listed) : x = listed[n]
      BY <2>1, <3>1
    <3> QED
      BY <1>5, <3>1, <3>2
  <2>3. ASSUME NEW n \in 1..Len(Source), ~Menu!Blank(Source[n])
        PROVE  Source[n] \in wanted
    <3>1. listed[n] \in Menu!Range(listed) /\ ~Menu!Blank(listed[n]) /\ Source[n] = As(listed[n])
      BY <1>5, <2>1, <2>3
    <3> QED
      BY <3>1
  <2> QED
    BY <2>2, <2>3
<1>8. \A id : id \in chosen <=> id = first /\ ~Menu!Blank(first)
  BY <1>6
<1>9. \A id : id \in known <=> Has(id)
  BY <1>4
<1>10. ASSUME NEW id, NEW n, FirstOf(Source, id, n)
       PROVE  FirstAt(id) = n
  <2> HIDE DEF As
  <2> DEFINE Is(k) == As(listed[k]) = id /\ \A m \in 1 .. k - 1 : As(listed[m]) # id
  <2>1. n \in 1..Len(listed) /\ Source[n] = id /\ \A m \in 1..(n - 1) : Source[m] # id
    BY <1>5, <1>10 DEF FirstOf
  <2>2. \A k \in 1..Len(listed) : \A m \in 1..(k - 1) : m \in 1..Len(listed)
    BY <1>3
  <2>3. Is(n)
    BY <1>5, <2>1, <2>2
  <2>4. ASSUME NEW k \in 1..Len(listed), Is(k)
        PROVE  k = n
    <3>1. k < n => k \in 1..(n - 1)
      BY <1>3, <2>1
    <3>2. n < k => n \in 1..(k - 1)
      BY <1>3, <2>1
    <3>3. ~(k < n) /\ ~(n < k)
      BY <2>3, <2>4, <3>1, <3>2
    <3> QED
      BY <1>3, <2>1, <3>3
  <2>5. FirstAt(id) = CHOOSE k \in 1..Len(listed) : Is(k)
    BY <1>3
  <2> HIDE DEF Is, FirstAt
  <2> QED
    BY <2>1, <2>3, <2>4, <2>5
<1> HIDE DEF Id, As, wanted, chosen, known, FirstAt
<1>11. wanted # {} <=> \E n \in 1..Len(Source) : ~Menu!Blank(Source[n])
  BY <1>7
<1>12. wanted # {} => /\ Live(out, Source, first)
                      /\ dialect = "compat" => \A i \in 1..Len(out) :
                                                  \E n \in 1..Len(Source) : Source[n] = out[i]
                      /\ dialect = "openai" /\ ~Menu!Blank(first) => Has(first)
  BY <1>11 DEF Sorted
<1>13. wanted = {} => /\ dialect = "openai" => \A id : Has(id) <=> id \in Menu!Rows
                      /\ dialect = "compat" => \A id : Has(id) <=> id = first /\ ~Menu!Blank(first)
  <2>1. SUFFICES ASSUME wanted = {}
                 PROVE  \A n \in 1..Len(Source) : Menu!Blank(Source[n])
    BY DEF Sorted
  <2> QED
    BY <1>11, <2>1
<1>14. \A i, j \in DOMAIN offered : i # j => Id(i) # Id(j)
  BY <1>2, <1>4 DEF Distinct
<1>15. \A i \in DOMAIN offered : ~Menu!Blank(Id(i))
  BY <1>2, <1>4
<1>16. ASSUME wanted # {}
       PROVE  /\ wanted \subseteq known /\ known \subseteq wanted \cup chosen
              /\ dialect = "compat" => known = wanted
              /\ \A i, j \in DOMAIN offered :
                    i < j /\ Id(i) \notin chosen /\ Id(j) \notin chosen =>
                        FirstAt(Id(i)) < FirstAt(Id(j))
  <2>1. Live(out, Source, first)
    BY <1>12, <1>16
  <2>2. ASSUME NEW id \in wanted
        PROVE  id \in known
    <3>1. PICK n \in 1..Len(Source) : Source[n] = id /\ ~Menu!Blank(Source[n])
      BY <1>7
    <3>2. \E i \in 1..Len(out) : out[i] = Source[n]
      BY <2>1, <3>1 DEF Live
    <3> QED
      BY <1>9, <3>1, <3>2
  <2>3. ASSUME NEW id \in known, NEW n \in 1..Len(Source), Source[n] = id
        PROVE  id \in wanted
    <3>1. PICK i \in 1..Len(out) : out[i] = id
      BY <1>9
    <3> QED
      BY <1>2, <1>7, <2>3, <3>1
  <2>4. ASSUME NEW id \in known
        PROVE  id \in wanted \cup chosen
    <3>1. PICK i \in 1..Len(out) : out[i] = id
      BY <1>9
    <3>2. CASE out[i] = first
      BY <1>2, <1>8, <3>1, <3>2
    <3>3. CASE \E n \in 1..Len(Source) : Source[n] = out[i]
      BY <2>3, <3>1, <3>3
    <3> QED
      BY <2>1, <3>2, <3>3 DEF Live
  <2>5. ASSUME dialect = "compat", NEW id \in known
        PROVE  id \in wanted
    <3>1. PICK i \in 1..Len(out) : out[i] = id
      BY <1>9
    <3>2. PICK n \in 1..Len(Source) : Source[n] = out[i]
      BY <1>12, <1>16, <2>5
    <3> QED
      BY <2>3, <3>1, <3>2
  <2>6. ASSUME NEW i \in DOMAIN offered, NEW j \in DOMAIN offered, i < j,
               Id(i) \notin chosen, Id(j) \notin chosen
        PROVE  FirstAt(Id(i)) < FirstAt(Id(j))
    <3>1. i \in 1..Len(out) /\ j \in 1..Len(out) /\ Id(i) = out[i] /\ Id(j) = out[j]
      BY <1>4
    <3>2. out[i] # first /\ out[j] # first
      BY <1>2, <1>8, <2>6, <3>1
    <3>3. PICK m, n \in 1..Len(Source) : m < n /\ FirstOf(Source, out[i], m) /\ FirstOf(Source, out[j], n)
      BY <2>1, <2>6, <3>1, <3>2 DEF Live
    <3>4. FirstAt(out[i]) = m /\ FirstAt(out[j]) = n
      BY <1>10, <3>3
    <3> QED
      BY <3>1, <3>3, <3>4
  <2> QED
    BY <2>2, <2>4, <2>5, <2>6
<1>17. wanted = {} => known = (IF dialect = "openai" THEN Menu!Rows ELSE chosen)
  BY <1>1, <1>8, <1>9, <1>13
<1>18. \A id \in chosen \cap known :
          Id(1) = id \/ (dialect = "openai" /\ wanted = {} /\ default.before)
  <2>1. SUFFICES ASSUME NEW id \in chosen, id \in known
                 PROVE  Id(1) = id \/ (dialect = "openai" /\ wanted = {} /\ default.before)
    OBVIOUS
  <2>2. id = first /\ ~Menu!Blank(first) /\ Has(first)
    BY <1>8, <1>9, <2>1
  <2>3. (out[1] = first \/ Missed) /\ 1 \in 1..Len(out)
    BY <1>2, <1>3, <2>2
  <2>4. Missed => dialect = "openai" /\ wanted = {} /\ default.before
    BY <1>11 DEF Missed
  <2> QED
    BY <1>4, <2>2, <2>3, <2>4
<1>19. dialect = "openai" /\ wanted # {} => chosen \subseteq known
  BY <1>8, <1>9, <1>12
<1>20. dialect = "openai" =>
          \A i \in DOMAIN offered : \A r \in Menu!Range(Table) :
              Menu!Begins(r, Id(i)) => Menu!IsPrefix(r, offered[i].row)
  <2>1. SUFFICES ASSUME NEW i \in 1..Len(out), NEW r \in Menu!Range(Table), Menu!Begins(r, out[i])
                 PROVE  Menu!IsPrefix(r, Menu!Lookup(out[i]))
    BY <1>4
  <2>2. out[i] \in Called(chars)
    BY <1>2
  <2> QED
    BY <2>1, <2>2, LookupCovers
<1> QED
  BY <1>14, <1>15, <1>16, <1>17, <1>18, <1>19, <1>20, Zenon
  DEF Menu!OffersAreSound, Id, As, wanted, chosen, known, FirstAt

\* Whatever a capsule answers with is sorted like that.
\* The ids the capsule answers with, one way or another.
LEMMA OffersAreSorted ==
    ASSUME NEW chars, Tabled(chars), Offering(chars)
    PROVE  \E ids : /\ Sorted(ids, chars)
                    /\ Menu!Offers = [i \in DOMAIN ids |-> Menu!Entry(ids[i])]
<1> DEFINE found == Menu!ExtractModelIds(listed)
           ids == CASE dialect = "compat" -> Menu!Hoist(Menu!Trim(default), Menu!ResolveModelIds(found))
                    [] dialect = "openai" /\ found # Menu!Unreachable -> Menu!BuildLiveEntries(found)
                    [] OTHER -> Menu!BuildProviderEntries
<1>1. dialect = "openai" \/ dialect = "compat"
  BY DEF Offering
<1>2. Menu!Unreachable = <<>>
  BY DEF Menu!Unreachable
<1>3. Menu!Offers = [i \in DOMAIN ids |-> Menu!Entry(ids[i])]
  BY Zenon DEF Menu!Offers
<1> HIDE DEF found
<1>4. Sorted(ids, chars)
  <2>1. CASE dialect = "openai" /\ found # <<>>
    <3>1. ids = Menu!BuildLiveEntries(found)
      BY <1>2, <2>1
    <3>2. Sorted(Menu!BuildLiveEntries(found), chars)
      BY <2>1, LiveEntriesAreSorted DEF found
    <3> HIDE DEF ids
    <3> QED
      BY <3>1, <3>2
  <2>2. CASE dialect = "openai" /\ found = <<>>
    <3>1. ids = Menu!BuildProviderEntries
      BY <1>2, <2>2
    <3>2. Sorted(Menu!BuildProviderEntries, chars)
      BY <2>2, TableIsSorted DEF found
    <3> HIDE DEF ids
    <3> QED
      BY <3>1, <3>2
  <2>3. CASE dialect = "compat" /\ found # <<>>
    <3>1. Menu!ResolveModelIds(found) = found
      BY <1>2, <2>3 DEF Menu!ResolveModelIds
    <3>2. ids = Menu!Hoist(Menu!Trim(default), found)
      BY <2>3, <3>1
    <3>3. Sorted(Menu!Hoist(Menu!Trim(default), found), chars)
      BY <2>3, ListedIsSorted DEF found
    <3> HIDE DEF ids
    <3> QED
      BY <3>2, <3>3
  <2>4. CASE dialect = "compat" /\ found = <<>>
    <3>1. ids = Menu!Hoist(Menu!Trim(default), Menu!ResolveModelIds(<<>>))
      BY <2>4
    <3>2. Sorted(Menu!Hoist(Menu!Trim(default), Menu!ResolveModelIds(<<>>)), chars)
      BY <2>4, SettingIsSorted DEF found
    <3> HIDE DEF ids
    <3> QED
      BY <3>1, <3>2
  <2> QED
    BY <1>1, <2>1, <2>2, <2>3, <2>4
<1> HIDE DEF ids
<1> QED
  BY <1>3, <1>4

LEMMA AnswersAreSound ==
    ASSUME NEW chars, Tabled(chars), Offering(chars), offered = Menu!Offers
    PROVE  Menu!OffersAreSound
  BY OffersAreSorted, SortedMeansSound

\* Before the capsule is asked, and after.
Described(chars) ==
    Offering(chars) /\ (offered = <<>> \/ offered = Menu!Offers)

LEMMA DescribedAtFirst ==
    ASSUME NEW chars, Tabled(chars), Menu!Init
    PROVE  Described(chars)
<1>1. ModelIds \cup {Menu!Unset} \subseteq Called(chars)
  <2>1. ModelIds \subseteq Called(chars)
    BY DEF Tabled
  <2>2. Menu!Unset \in Called(chars)
    BY DEF Menu!Unset, Menu!Plain, Called
  <2> QED
    BY <2>1, <2>2
<1>2. PICK n \in 0..MaxListed : listed \in [1..n -> ModelIds \cup {Menu!Unset}]
  BY DEF Menu!Init, Menu!Lists
<1>3. listed \in Seq(Called(chars))
  <2> HIDE DEF Called
  <2>1. n \in Nat /\ listed \in [1..n -> Called(chars)]
    BY <1>1, <1>2
  <2> QED
    BY <2>1
<1>4. default \in Called(chars) /\ dialect \in {"openai", "compat"} /\ offered = <<>>
  BY <1>1 DEF Menu!Init
<1> QED
  BY <1>3, <1>4 DEF Described, Offering

LEMMA DescribedStays ==
    ASSUME NEW chars, Tabled(chars), Described(chars), [Menu!Next]_(Menu!vars)
    PROVE  Described(chars)'
<1>1. dialect' = dialect /\ listed' = listed /\ default' = default
  BY DEF Menu!Next, Menu!LlmDescribe, Menu!vars
<1>2. Menu!Offers' = Menu!Offers
  BY <1>1 DEF Menu!Offers, Menu!BuildLiveEntries, Menu!BuildProviderEntries,
              Menu!ResolveModelIds, Menu!Entry
<1>3. offered' = offered \/ offered' = Menu!Offers
  BY DEF Menu!Next, Menu!LlmDescribe, Menu!vars
<1>4. Offering(chars)'
  BY <1>1 DEF Described, Offering
<1> QED
  BY <1>2, <1>3, <1>4 DEF Described

(* The models a provider offers are those the upstream lists, each once and in
   its order, the operator's first; its table, or the setting, when it lists none;
   and a model gets the limits of the most specific row (llm_describe of both
   provider capsules): for every table, upstream list and setting.             *)
THEOREM OffersHold ==
    ASSUME NEW chars, Tabled(chars)
    PROVE  Menu!Spec => []Menu!OffersAreSound
<1>1. Menu!Init => Described(chars)
  BY DescribedAtFirst
<1>2. Described(chars) /\ [Menu!Next]_(Menu!vars) => Described(chars)'
  BY DescribedStays
<1>3. Described(chars) => Menu!OffersAreSound
  <2>1. SUFFICES ASSUME Described(chars)
                 PROVE  Menu!OffersAreSound
    OBVIOUS
  <2>2. CASE offered = <<>>
    BY <2>2 DEF Menu!OffersAreSound
  <2>3. CASE offered = Menu!Offers
    BY <2>1, <2>3, AnswersAreSound DEF Described
  <2> QED
    BY <2>1, <2>2, <2>3 DEF Described
<1> QED
  BY <1>1, <1>2, <1>3, PTL DEF Menu!Spec

-----------------------------------------------------------------------------
(* ProviderCatalog: types *)

\* The upstream lists ids, some of them blank, and the operator sets one or none.
Ours == ModelIds \cup {Menu!Unset}
OursOnly ==
    /\ \A n \in 1..Len(listed) : listed[n] \in Ours
    /\ default \in Ours

\* An id offered was listed, set, or is a row of the table.
KnownId(id) == id \in ModelIds \cup {Menu!Trim(x) : x \in ModelIds} \cup Menu!Rows

LEMMA OfferedIdsAreKnown ==
    ASSUME NEW chars, Tabled(chars), Offering(chars), OursOnly,
           NEW ids, Sorted(ids, chars), NEW i \in 1..Len(ids)
    PROVE  KnownId(ids[i])
<1> DEFINE first == Menu!Trim(default)
           ListsSome == \E n \in 1..Len(Source) : ~Menu!Blank(Source[n])
<1>1. /\ ModelIds \subseteq Called(chars) /\ Menu!Blank(Menu!Unset)
      /\ listed \in Seq(Called(chars)) /\ default \in Called(chars)
      /\ dialect \in {"openai", "compat"}
  BY DEF Tabled, Offering, Menu!Blank, Menu!Unset, Menu!Plain
<1>2. ~Menu!Blank(ids[i])
  BY DEF Sorted
<1>3. \A x \in Ours : x \in Called(chars) /\ ~Menu!Blank(x) => x \in ModelIds
  BY <1>1 DEF Ours
<1>4. \A n \in 1..Len(Source) : Source[n] = ids[i] => KnownId(ids[i])
  <2>1. SUFFICES ASSUME NEW n \in 1..Len(Source), Source[n] = ids[i]
                 PROVE  KnownId(ids[i])
    OBVIOUS
  <2>2. CASE dialect = "openai"
    <3>1. /\ n \in 1..Len(listed) /\ ids[i] = Menu!Trim(listed[n])
          /\ Menu!Blank(ids[i]) <=> Menu!Blank(listed[n])
      BY <1>1, <2>1, <2>2, TrimmedIs DEF Source
    <3>2. listed[n] \in Ours /\ listed[n] \in Called(chars)
      BY <1>1, <3>1 DEF OursOnly
    <3>3. listed[n] \in ModelIds
      BY <1>2, <1>3, <3>1, <3>2 DEF Ours
    <3> QED
      BY <3>1, <3>3 DEF KnownId
  <2>3. CASE dialect # "openai"
    <3>1. n \in 1..Len(listed) /\ ids[i] = listed[n]
      BY <2>1, <2>3 DEF Source
    <3>2. listed[n] \in Ours /\ listed[n] \in Called(chars)
      BY <1>1, <3>1 DEF OursOnly
    <3> QED
      BY <1>1, <1>2, <3>1, <3>2 DEF KnownId, Ours
  <2> QED
    BY <2>2, <2>3
<1>5. ids[i] = first => KnownId(ids[i])
  <2>1. SUFFICES ASSUME ids[i] = first
                 PROVE  KnownId(ids[i])
    OBVIOUS
  <2>2. ~Menu!Blank(default)
    BY <1>1, <1>2, <2>1, TrimIs
  <2>3. default \in ModelIds
    BY <1>1, <2>2 DEF OursOnly, Ours
  <2> QED
    BY <2>1, <2>3 DEF KnownId
<1>6. CASE ListsSome
  <2>1. Live(ids, Source, first)
    BY <1>6 DEF Sorted
  <2>2. ids[i] = first \/ \E n \in 1..Len(Source) : Source[n] = ids[i]
    BY <2>1 DEF Live
  <2> QED
    BY <1>4, <1>5, <2>2
<1>7. CASE ~ListsSome
  <2>1. dialect = "openai" => ids[i] \in Menu!Rows
    BY <1>7 DEF Sorted
  <2>2. dialect = "compat" => ids[i] = first
    BY <1>7 DEF Sorted
  <2> QED
    BY <1>1, <1>5, <2>1, <2>2 DEF KnownId
<1> QED
  BY <1>6, <1>7

LEMMA OffersAreTyped ==
    ASSUME NEW chars, Tabled(chars), Offering(chars), OursOnly, offered = Menu!Offers
    PROVE  Menu!TypeOK
<1>1. PICK ids : Sorted(ids, chars) /\ Menu!Offers = [i \in DOMAIN ids |-> Menu!Entry(ids[i])]
  BY OffersAreSorted
<1>2. ids \in Seq(Called(chars)) /\ DOMAIN ids = 1..Len(ids)
  BY <1>1 DEF Sorted
<1>3. DOMAIN offered = 1..Len(ids) /\ \A i \in 1..Len(ids) : offered[i] = Menu!Entry(ids[i])
  BY <1>1, <1>2
<1>4. SUFFICES ASSUME NEW i \in 1..Len(ids)
               PROVE  /\ offered[i].id \in ModelIds \cup {Menu!Trim(id) : id \in ModelIds} \cup Menu!Rows
                      /\ offered[i].row \in Menu!Range(Table) \cup {<<>>}
  BY <1>3 DEF Menu!TypeOK
<1>5. offered[i].id = ids[i] /\ offered[i].row \in {Menu!Lookup(ids[i]), <<>>}
  BY <1>3 DEF Menu!Entry
<1>6. ids[i] \in Called(chars)
  BY <1>2
<1>7. KnownId(ids[i])
  BY <1>1, OfferedIdsAreKnown
<1> QED
  BY <1>5, <1>6, <1>7, LookupCovers DEF KnownId

\* Every model offered has an id that the upstream listed, the operator set or the
\* capsule's own table holds, and the limits of a row of that table or none
\* (llm_describe and lookup, capsule-openai models.rs): for every table, upstream
\* list and setting.
THEOREM CatalogsAreTyped ==
    ASSUME NEW chars, Tabled(chars)
    PROVE  Menu!Spec => []Menu!TypeOK
<1> DEFINE I == Described(chars) /\ OursOnly
<1>1. Menu!Init => I
  <2>1. SUFFICES ASSUME Menu!Init
                 PROVE  I
    OBVIOUS
  <2>2. Described(chars)
    BY <2>1, DescribedAtFirst
  <2>3. PICK n \in 0..MaxListed : listed \in [1..n -> Ours]
    BY <2>1 DEF Menu!Init, Menu!Lists, Ours
  <2>4. n \in Nat /\ listed \in Seq(Ours) /\ Len(listed) = n
    <3>1. n \in Nat
      OBVIOUS
    <3> QED
      BY <2>3, <3>1
  <2>5. \A k \in 1..Len(listed) : listed[k] \in Ours
    BY <2>4
  <2>6. default \in Ours
    BY <2>1 DEF Menu!Init, Ours
  <2> QED
    BY <2>2, <2>5, <2>6 DEF OursOnly
<1>2. I /\ [Menu!Next]_(Menu!vars) => I'
  <2>1. SUFFICES ASSUME I, [Menu!Next]_(Menu!vars)
                 PROVE  I'
    OBVIOUS
  <2>2. Described(chars)'
    BY <2>1, DescribedStays
  <2>3. listed' = listed /\ default' = default
    BY <2>1 DEF Menu!Next, Menu!LlmDescribe, Menu!vars
  <2>4. OursOnly'
    BY <2>1, <2>3 DEF OursOnly, Ours
  <2> QED
    BY <2>2, <2>4
<1>3. I => Menu!TypeOK
  <2>1. CASE offered = <<>>
    BY <2>1 DEF Menu!TypeOK
  <2>2. CASE I /\ offered = Menu!Offers
    BY <2>2, OffersAreTyped DEF Described
  <2> QED
    BY <2>1, <2>2 DEF Described
<1> QED
  BY <1>1, <1>2, <1>3, PTL DEF Menu!Spec
=============================================================================
