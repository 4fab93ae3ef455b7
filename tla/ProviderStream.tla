--------------------------- MODULE ProviderStream ---------------------------
(* One streamed LLM reply, from the upstream API through a provider capsule to
   the react loop's assembly of it.

   `api` is the dialect: "chat" is Chat Completions (capsule-openai-compat),
   where the pieces of parallel tool calls are told apart by index and only the
   first piece of a call has its id and name; "responses" is the Responses API
   (capsule-openai), where a call has an item id and a call id.  Upstream lines
   are read in chunks, which may end inside a line or inside a character; each
   chunk is made text on its own.

   Publishing is taken to succeed.                                            *)
EXTENDS Naturals, Sequences

CONSTANTS
    Apis,           \* dialects explored, a subset of {"chat", "responses"}
    MaxTools,       \* bound on the tool calls of the reply
    MaxPieces,      \* bound on the argument pieces of a call
    MaxTexts,       \* bound on the text pieces
    MaxWire,        \* bound on the lines written and not yet read
    Empty           \* the id of a call that has none

Tools == 0..(MaxTools - 1)

VARIABLES
    api,
    written,    \* what the upstream has written: texts, pieces by call, stage
    wire,       \* lines written and not read
    partial,    \* part of the first line of `wire` is in line_buffer
    active,     \* active_tools: ids by index ("chat")
    running,    \* the capsule is reading the stream
    got,        \* what react has assembled
    mangled     \* a chunk ended inside a character (history)

vars == <<api, written, wire, partial, active, running, got, mangled>>

Garbled == 0                \* a piece spoilt by the conversion
CallId(i) == <<"call", i>>
ItemId(i) == <<"item", i>>

Init ==
    /\ api \in Apis
    /\ written = [texts |-> 0, pieces |-> <<>>, ended |-> {}, stage |-> "talking"]
    /\ wire = <<>> /\ partial = FALSE
    /\ active = <<>>
    /\ running = TRUE
    /\ got = [text |-> <<>>, tools |-> <<>>, outcome |-> "open"]
    /\ mangled = FALSE

----------------------------------------------------------------------------
(* The upstream.  `written.pieces[i + 1]` counts the pieces of call i.        *)

Write(line) ==
    /\ running /\ Len(wire) < MaxWire
    /\ wire' = Append(wire, line)
    /\ UNCHANGED <<api, partial, active, running, got, mangled>>

WriteText ==
    /\ written.stage = "talking" /\ written.texts < MaxTexts
    /\ Write([kind |-> "text", piece |-> written.texts + 1])
    /\ written' = [written EXCEPT !.texts = @ + 1]

\* The next call is announced; in "chat" its first line may hold a piece.
WriteTool(first) ==
    LET i == Len(written.pieces)
    IN  /\ written.stage = "talking" /\ i \in Tools
        /\ first => api = "chat"
        /\ Write([kind |-> "tool", index |-> i, named |-> TRUE,
                  piece |-> IF first THEN <<1>> ELSE <<>>])
        /\ written' = [written EXCEPT !.pieces = Append(@, IF first THEN 1 ELSE 0)]

\* A further piece of a call, of any call in progress.
WritePiece(i) ==
    /\ written.stage = "talking" /\ i < Len(written.pieces) /\ i \notin written.ended
    /\ written.pieces[i + 1] < MaxPieces
    /\ Write([kind |-> "tool", index |-> i, named |-> FALSE,
              piece |-> <<written.pieces[i + 1] + 1>>])
    /\ written' = [written EXCEPT !.pieces[i + 1] = @ + 1]

\* function_call_arguments.done.
WriteToolDone(i) ==
    /\ api = "responses" /\ written.stage = "talking"
    /\ i < Len(written.pieces) /\ i \notin written.ended
    /\ Write([kind |-> "tool_done", index |-> i])
    /\ written' = [written EXCEPT !.ended = @ \cup {i}]

\* finish_reason: "tool_calls", or another for a reply without calls or one cut
\* at its length limit.
WriteFinish(reason) ==
    /\ api = "chat" /\ written.stage = "talking"
    /\ reason = "tool_calls" => written.pieces # <<>>
    /\ Write([kind |-> "finish", reason |-> reason])
    /\ written' = [written EXCEPT !.stage = "finished"]

\* [DONE], response.completed, or response.failed.
WriteLast(kind) ==
    /\ IF api = "chat" THEN written.stage = "finished" /\ kind = "done"
       ELSE written.stage = "talking" /\ kind \in {"done", "failed"}
    /\ kind = "done" /\ api = "responses" => written.ended = 0..(Len(written.pieces) - 1)
    /\ Write([kind |-> kind])
    /\ written' = [written EXCEPT !.stage = IF kind = "done" THEN "closed" ELSE "failed"]

\* A line that is no JSON of the expected shape.  (The Responses dialect skips
\* one; there the upstream is taken to write none.)
WriteBroken ==
    /\ api = "chat" /\ written.stage = "talking"
    /\ Write([kind |-> "broken"])
    /\ written' = [written EXCEPT !.stage = "failed"]

----------------------------------------------------------------------------
(* react's handle_llm_stream: what it does with each event.                   *)

\* The first call under an id, if there is one.
Hits(tools, id) == {k \in DOMAIN tools : tools[k].id = id}
FirstHit(tools, id) == CHOOSE k \in Hits(tools, id) : \A other \in Hits(tools, id) : k <= other

Event(kind, id, piece) == [kind |-> kind, id |-> id, piece |-> piece]

\* An event after Done or Error has no turn to belong to; a piece or an end under
\* an id that no call has goes nowhere.
HandleLlmStream(g, e) ==
    IF g.outcome # "open" \/ (e.kind \in {"delta", "end"} /\ Hits(g.tools, e.id) = {})
    THEN g
    ELSE CASE e.kind = "text" -> [g EXCEPT !.text = Append(@, e.piece)]
           [] e.kind = "start" ->
                [g EXCEPT !.tools = Append(@, [id |-> e.id, args |-> <<>>, complete |-> FALSE])]
           [] e.kind = "delta" ->
                [g EXCEPT !.tools[FirstHit(g.tools, e.id)].args = Append(@, e.piece)]
           [] e.kind = "end" ->
                [g EXCEPT !.tools[FirstHit(g.tools, e.id)].complete = TRUE]
           [] e.kind = "done" -> [g EXCEPT !.outcome = "done"]
           [] OTHER -> [g EXCEPT !.outcome = "error"]

\* One event after the other.
Assemble(g, events) ==
    LET after[k \in 0..Len(events)] ==
            IF k = 0 THEN g ELSE HandleLlmStream(after[k - 1], events[k])
    IN  after[Len(events)]

----------------------------------------------------------------------------
(* The providers.  A piece is garbled when its line came in two chunks that met
   inside one of its characters (from_utf8_lossy on each chunk).              *)

Text(piece, spoilt) == IF spoilt THEN Garbled ELSE piece

\* The calls that got an id.
Named(ids) ==
    LET upto[k \in 0..Len(ids)] ==
            IF k = 0 THEN <<>>
            ELSE IF ids[k] = Empty THEN upto[k - 1] ELSE Append(upto[k - 1], ids[k])
    IN  upto[Len(ids)]

\* process_chunk of the chat dialect: the ids it knows then, and its events.
ProcessChunk(line, ids, spoilt) ==
    CASE line.kind = "text" ->
            [ids |-> ids, events |-> <<Event("text", Empty, Text(line.piece, spoilt))>>]
      [] line.kind = "tool" ->
            LET grown == [k \in 1..(IF Len(ids) <= line.index THEN line.index + 1 ELSE Len(ids))
                            |-> IF k <= Len(ids) THEN ids[k] ELSE Empty]
                known == IF line.named THEN [grown EXCEPT ![line.index + 1] = CallId(line.index)]
                         ELSE grown
                id == known[line.index + 1]
            IN  [ids |-> known,
                 events |-> (IF line.named THEN <<Event("start", id, Garbled)>> ELSE <<>>) \o
                    [k \in DOMAIN line.piece |-> Event("delta", id, Text(line.piece[k], spoilt))]]
      [] line.kind = "finish" /\ line.reason = "tool_calls" ->
            [ids |-> <<>>,
             events |-> [k \in DOMAIN Named(ids) |-> Event("end", Named(ids)[k], Garbled)]]
      [] line.kind = "done" -> [ids |-> ids, events |-> <<Event("done", Empty, Garbled)>>]
      [] line.kind = "broken" -> [ids |-> ids, events |-> <<Event("error", Empty, Garbled)>>]
      [] OTHER -> [ids |-> ids, events |-> <<>>]

\* handle_event of the Responses dialect.  Calls start under their call id, and
\* their pieces and ends carry the item id.
HandleEvent(line, spoilt) ==
    CASE line.kind = "text" -> <<Event("text", Empty, Text(line.piece, spoilt))>>
      [] line.kind = "tool" /\ line.named -> <<Event("start", CallId(line.index), Garbled)>>
      [] line.kind = "tool" /\ ~line.named ->
            <<Event("delta", ItemId(line.index), Text(line.piece[1], spoilt))>>
      [] line.kind = "tool_done" -> <<Event("end", ItemId(line.index), Garbled)>>
      [] line.kind = "done" -> <<Event("done", Empty, Garbled)>>
      [] line.kind = "failed" -> <<Event("error", Empty, Garbled)>>
      [] OTHER -> <<>>

\* A chunk ends inside the first unread line.
ReadPart ==
    /\ running /\ wire # <<>> /\ ~partial
    /\ partial' = TRUE
    /\ UNCHANGED <<api, written, wire, active, running, got, mangled>>

\* The rest of the first line is read, and the line handled.
ReadLine ==
    /\ running /\ wire # <<>>
    /\ \E spoilt \in BOOLEAN :
          LET line == Head(wire)
              step == IF api = "chat" THEN ProcessChunk(line, active, spoilt)
                      ELSE [ids |-> active, events |-> HandleEvent(line, spoilt)]
          IN  /\ spoilt => partial
              /\ mangled' = (mangled \/ spoilt)
              /\ active' = step.ids
              /\ got' = Assemble(got, step.events)
              \* the chat dialect stops at [DONE] and at a line it cannot parse
              /\ running' = ~(api = "chat" /\ line.kind \in {"done", "broken"})
    /\ wire' = Tail(wire)
    /\ partial' = FALSE
    /\ UNCHANGED <<api, written>>

\* execute_request fails before there is a stream: no key, no connection, a
\* status other than 200.
RequestFails ==
    /\ running /\ written.stage = "talking" /\ written.texts = 0 /\ written.pieces = <<>>
    /\ running' = FALSE
    /\ got' = HandleLlmStream(got, Event("error", Empty, Garbled))
    /\ UNCHANGED <<api, written, wire, partial, active, mangled>>

\* Seeded bug: the end of the connection is taken for the end of the reply.
StreamClosesDone ==
    /\ running /\ (wire = <<>> \/ (Len(wire) = 1 /\ partial))
    /\ got' = IF api = "chat" THEN HandleLlmStream(got, Event("done", Empty, Garbled)) ELSE got
    /\ running' = FALSE
    /\ wire' = <<>> /\ partial' = FALSE
    /\ UNCHANGED <<api, written, active, mangled>>

\* The connection closes after what was read; only the chat dialect minds.
StreamCloses ==
    /\ running /\ (wire = <<>> \/ (Len(wire) = 1 /\ partial))
    /\ got' = IF api = "chat" THEN HandleLlmStream(got, Event("error", Empty, Garbled)) ELSE got
    /\ running' = FALSE
    /\ wire' = <<>> /\ partial' = FALSE
    /\ UNCHANGED <<api, written, active, mangled>>

\* Reading fails; what was not read is lost.
StreamBreaks ==
    /\ running
    /\ got' = HandleLlmStream(got, Event("error", Empty, Garbled))
    /\ running' = FALSE
    /\ wire' = <<>> /\ partial' = FALSE
    /\ UNCHANGED <<api, written, active, mangled>>

Next ==
    \/ WriteText
    \/ \E first \in BOOLEAN : WriteTool(first)
    \/ \E i \in Tools : WritePiece(i) \/ WriteToolDone(i)
    \/ \E reason \in {"tool_calls", "other"} : WriteFinish(reason)
    \/ \E kind \in {"done", "failed"} : WriteLast(kind)
    \/ WriteBroken
    \/ RequestFails \/ ReadPart \/ ReadLine \/ StreamCloses \/ StreamBreaks

Spec == Init /\ [][Next]_vars

----------------------------------------------------------------------------
TypeOK ==
    /\ got.outcome \in {"open", "done", "error"}
    /\ Len(wire) <= MaxWire /\ (partial => wire # <<>>)
    /\ \A k \in DOMAIN got.tools : got.tools[k].id \in {CallId(i) : i \in Tools} \cup {Empty}

Numbered(n) == [k \in 1..n |-> k]

\* The calls react holds are the calls the upstream made, pieces in order.
CallsWhole ==
    /\ Len(got.tools) = Len(written.pieces)
    /\ \A k \in DOMAIN got.tools :
          /\ got.tools[k].id = CallId(k - 1)
          /\ got.tools[k].args = Numbered(written.pieces[k])

(* A reply that react takes for finished is the whole reply: the upstream had
   closed it, and text and tool calls are what it wrote, however chunks cut the
   lines and calls interleave (openai-compat lib.rs:380-428, 450-530), but for
   characters cut by a chunk.                                                 *)
FinishedRepliesAreWhole ==
    got.outcome = "done" /\ ~mangled =>
       /\ written.stage = "closed"
       /\ got.text = Numbered(written.texts)
       /\ api = "chat" => CallsWhole

(* The same of the calls of a Responses reply, whose argument events are said to
   carry "the item ID (tool call ID)" (capsule-openai schemas.rs:23, 35).     *)
ArgumentsReachTheirCall ==
    got.outcome = "done" /\ ~mangled => CallsWhole
=============================================================================
