--------------------------- MODULE AnthropicStream ---------------------------
(***************************************************************************)
(* The stream of a Messages response (http/anthropic.rs): the events of    *)
(* the upstream as content blocks.                                         *)
(*                                                                         *)
(* A block's index counts the blocks before it.  The handler has at most   *)
(* one block for text and one for thinking, remembers the block of every   *)
(* tool call by its key, and which blocks it has closed.  Its block_order  *)
(* is 0..next-1, since it grows whenever next_index does.                  *)
(***************************************************************************)
EXTENDS GenerationStream, GenerationAccumulator, Integers

VARIABLES acc,      \* GenerationAccumulator
          handler,  \* the other variables of the handler
          sent      \* the server-sent events so far

vars == <<streamVars, acc, handler, sent>>

NoBlock == -1
NoTool == "none"

MessageStart == [type |-> "message_start"]
BlockStart(index, kind, id, name) ==
    [type |-> "content_block_start", index |-> index, kind |-> kind, id |-> id, name |-> name]
BlockDelta(index, kind, text) ==
    [type |-> "content_block_delta", index |-> index, kind |-> kind, text |-> text]
BlockStop(index) == [type |-> "content_block_stop", index |-> index]
ErrorSent == [type |-> "error"]
MessageDelta(reason) == [type |-> "message_delta", reason |-> reason]
MessageStop == [type |-> "message_stop"]

NewHandler ==
    [text |-> NoBlock, thinking |-> NoBlock, tools |-> <<>>, active |-> NoTool,
     closed |-> {}, next |-> 0, filter |-> <<>>]

-----------------------------------------------------------------------------
(* The steps that the handler's arms share.  A state s has the handler h    *)
(* and what the arm sends, out.                                             *)

\* Mutated form: a block is closed again whenever it is asked for.
CloseAgain(s, index) ==
    IF index = NoBlock THEN s
    ELSE [h |-> [s.h EXCEPT !.closed = @ \cup {index}], out |-> Append(s.out, BlockStop(index))]
Close(s, index) ==
    IF index = NoBlock \/ index \in s.h.closed THEN s
    ELSE [h |-> [s.h EXCEPT !.closed = @ \cup {index}], out |-> Append(s.out, BlockStop(index))]

Open(s, kind, id, name) ==
    [h |-> [s.h EXCEPT !.next = @ + 1], out |-> Append(s.out, BlockStart(s.h.next, kind, id, name))]

Delta(s, index, kind, text) ==
    IF text = <<>> THEN s ELSE [s EXCEPT !.out = Append(@, BlockDelta(index, kind, text))]

\* Mutated form: the closed block stays the block for text.
CloseTextOnly(s) == Close(s, s.h.text)
CloseText(s) ==
    LET closed == Close(s, s.h.text)
    IN  [closed EXCEPT !.h.text = NoBlock]
CloseThinking(s) ==
    LET closed == Close(s, s.h.thinking)
    IN  [closed EXCEPT !.h.thinking = NoBlock]
CloseContent(s) == CloseThinking(CloseText(s))

EnsureText(s) ==
    IF s.h.text # NoBlock THEN s
    ELSE [Open(s, "text", "", "") EXCEPT !.h.text = s.h.next]
EnsureThinking(s) ==
    IF s.h.thinking # NoBlock THEN s
    ELSE [Open(s, "thinking", "", "") EXCEPT !.h.thinking = s.h.next]

KeyOf(h, id) ==
    IF id # "" THEN id
    ELSE IF h.active # NoTool THEN h.active
    ELSE GeneratedId(Cardinality(DOMAIN h.tools) + 1)
EnsureTool(s, key, name) ==
    IF key \in DOMAIN s.h.tools THEN s
    ELSE [Open(s, "tool_use", key, name) EXCEPT
             !.h.tools = [k \in DOMAIN s.h.tools \cup {key} |->
                              IF k = key THEN s.h.next ELSE s.h.tools[k]]]
Activate(s, key) == [s EXCEPT !.h.active = key]

-----------------------------------------------------------------------------
(* One arm for each kind of event                                           *)

OnText(s, event) ==
    LET ready == EnsureText(CloseThinking(s))
        drained == FilterPush(ready.h.filter, event.text)
    IN  Delta([ready EXCEPT !.h.filter = drained.pending], ready.h.text, "text", drained.output)

OnThinking(s, event) ==
    LET ready == EnsureThinking(CloseText(s))
    IN  Delta(ready, ready.h.thinking, "thinking", event.text)

OnToolStart(s, event) ==
    LET key == KeyOf(s.h, event.id)
    IN  Activate(EnsureTool(CloseContent(s), key, event.name), key)

OnToolDelta(s, event) ==
    LET key == KeyOf(s.h, event.id)
        ready == Activate(EnsureTool(CloseContent(s), key, ""), key)
    IN  Delta(ready, ready.h.tools[key], "tool_use", event.arguments)

OnToolEnd(s, event) ==
    LET key == IF event.id # "" THEN event.id ELSE s.h.active
        closed == IF key \in DOMAIN s.h.tools THEN Close(s, s.h.tools[key]) ELSE s
    IN  IF s.h.active = key THEN Activate(closed, NoTool) ELSE closed

OnEvent(s, event) ==
    CASE event.kind = "text"     -> OnText(s, event)
      [] event.kind = "thinking" -> OnThinking(s, event)
      [] event.kind = "start"    -> OnToolStart(s, event)
      [] event.kind = "delta"    -> OnToolDelta(s, event)
      [] event.kind = "end"      -> OnToolEnd(s, event)
      [] event.kind \in {"usage", "stop"} -> s

\* What the filter still holds when the upstream has ended.
SendTail(s) ==
    LET tail == FilterFinish(s.h.filter).output
        ready == EnsureText(Close(s, s.h.thinking))
    IN  IF tail = <<>> THEN s ELSE Delta(ready, ready.h.text, "text", tail)

\* Mutated form: only the blocks of text and thinking are closed at the end.
CloseContentOnly(s) == CloseContent(s)
CloseRest(s) ==
    LET after[n \in 0..s.h.next] == IF n = 0 THEN s ELSE Close(after[n - 1], n - 1)
    IN  after[s.h.next]

-----------------------------------------------------------------------------
Init ==
    /\ StreamInit
    /\ acc = NewAccumulator
    /\ handler = NewHandler
    /\ sent = <<MessageStart>>

Ended == sent[Len(sent)] = MessageStop

Receive ==
    \E event \in {queue[i] : i \in DOMAIN queue} :
        LET after == OnEvent([h |-> handler, out |-> sent], event)
        IN  /\ ~Ended /\ event.kind # "error" /\ Takes(event)
            /\ acc' = ApplyEvent(acc, event)
            /\ handler' = after.h
            /\ sent' = after.out

Fail ==
    /\ ~Ended
    /\ \/ Takes(Error)
       \/ AtFailure /\ UNCHANGED streamVars
    /\ sent' = sent \o <<ErrorSent, MessageStop>>
    /\ UNCHANGED <<acc, handler>>

Finish ==
    LET after == CloseRest(SendTail([h |-> handler, out |-> sent]))
    IN  /\ ~Ended /\ AtEnd
        /\ sent' = after.out \o <<MessageDelta(AnthropicStopReason(Finished(acc))), MessageStop>>
        /\ UNCHANGED <<streamVars, acc, handler>>

Done == Ended /\ UNCHANGED vars

Next == (~Ended /\ StreamStep /\ UNCHANGED <<acc, handler, sent>>) \/ Receive \/ Fail \/ Finish \/ Done

Spec == Init /\ [][Next]_vars

-----------------------------------------------------------------------------
(* Properties                                                               *)

IsStart(i) == sent[i].type = "content_block_start"
IsDelta(i) == sent[i].type = "content_block_delta"
IsStop(i) == sent[i].type = "content_block_stop"
HasEndedWell == Ended /\ sent[Len(sent) - 1] # ErrorSent

\* Blocks start in the order of their indexes, and none starts twice; what belongs to a
\* block comes after its start and has its kind, and no block stops twice (anthropic.rs:148-251).
BlocksAreCounted ==
    \A i \in DOMAIN sent :
        /\ IsStart(i) => sent[i].index = Cardinality({j \in 1..(i - 1) : IsStart(j)})
        /\ IsDelta(i) => \E j \in 1..(i - 1) : IsStart(j) /\ sent[j].index = sent[i].index
                                                          /\ sent[j].kind = sent[i].kind
        /\ IsStop(i) => /\ \E j \in 1..(i - 1) : IsStart(j) /\ sent[j].index = sent[i].index
                        /\ \A j \in 1..(i - 1) : IsStop(j) => sent[j].index # sent[i].index

\* Text and thinking never go to a block that is closed, and never while the other
\* one's block is open: a client that shows the last block shows them in order.
ContentGoesToTheOpenBlock ==
    \A i \in DOMAIN sent :
        IsDelta(i) /\ sent[i].kind # "tool_use" =>
            \A j \in 1..(i - 1) :
                IsStart(j) /\ sent[j].kind # "tool_use" =>
                    (sent[j].index = sent[i].index) =
                        ~\E k \in (j + 1)..(i - 1) : IsStop(k) /\ sent[k].index = sent[j].index

\* A stream that ends without an error has closed every block, and nothing follows its
\* message_stop; one that fails has no stop_reason.
EndsClean ==
    /\ \A i \in DOMAIN sent : sent[i] = MessageStop => i = Len(sent)
    /\ HasEndedWell =>
           /\ \A i \in DOMAIN sent : IsStart(i) =>
                  \E j \in (i + 1)..Len(sent) : IsStop(j) /\ sent[j].index = sent[i].index
           /\ sent[Len(sent) - 1].type = "message_delta"

DeltasOf(kind) ==
    FlattenSeq([i \in DOMAIN sent |-> IF IsDelta(i) /\ sent[i].kind = kind THEN sent[i].text ELSE <<>>])
ToolBlocks ==
    LET starts == SelectSeq(sent, LAMBDA e : e.type = "content_block_start" /\ e.kind = "tool_use")
    IN  [k \in DOMAIN starts |->
            [id |-> starts[k].id, name |-> starts[k].name,
             input |-> FlattenSeq([i \in DOMAIN sent |->
                          IF IsDelta(i) /\ sent[i].index = starts[k].index THEN sent[i].text ELSE <<>>])]]

\* A client that streams puts the same answer together as one that does not
\* (anthropic_response): the text without its markers, the thinking, and, unless the
\* upstream leaves in doubt which call a fragment is for, the tool calls.
StreamIsTheAnswer ==
    HasEndedWell =>
        LET result == Finished(acc)
        IN  /\ DeltasOf("text") = result.text
            /\ DeltasOf("thinking") = result.thinking
            /\ HasIds(seen) => ToolBlocks = ToolUses(result)
=============================================================================
