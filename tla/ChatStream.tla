------------------------------ MODULE ChatStream ------------------------------
(***************************************************************************)
(* The stream of a Chat Completions response (http/openai.rs): the events  *)
(* of the upstream as chunks.                                              *)
(***************************************************************************)
EXTENDS GenerationStream, GenerationAccumulator

VARIABLES acc,      \* GenerationAccumulator
          indices,  \* tool_indices: the index of each call id
          filter,   \* text_filter
          sent      \* the chunks so far

vars == <<streamVars, acc, indices, filter, sent>>

Role == [type |-> "role"]
Content(text) == [type |-> "content", text |-> text]
ReasoningContent(text) == [type |-> "reasoning_content", text |-> text]
CallStart(index, id, name) == [type |-> "call", index |-> index, id |-> id, name |-> name]
CallArguments(index, text) == [type |-> "arguments", index |-> index, text |-> text]
ErrorSent == [type |-> "error"]
FinishChunk(reason) == [type |-> "finish", reason |-> reason]
DoneSent == [type |-> "[DONE]"]

\* What tool_indices gives an id; next_tool_index is the number of ids that it knows.
\* Mutated form: every start counts.
EveryIndex(id) == Cardinality({i \in DOMAIN sent : sent[i].type = "call"})
IndexOf(id) == IF id \in DOMAIN indices THEN indices[id] ELSE Cardinality(DOMAIN indices)
Indexed(id) == [k \in DOMAIN indices \cup {id} |-> IF k = id THEN IndexOf(id) ELSE indices[k]]

Send(chunks) == sent' = sent \o chunks

-----------------------------------------------------------------------------
Init ==
    /\ StreamInit
    /\ acc = NewAccumulator
    /\ indices = <<>>
    /\ filter = <<>>
    /\ sent = <<Role>>

Ended == sent[Len(sent)] = DoneSent

Accept(event) ==
    /\ ~Ended /\ event.kind # "error" /\ Takes(event)
    /\ acc' = ApplyEvent(acc, event)

SendText(event) ==
    LET drained == FilterPush(filter, event.text)
    IN  /\ event.kind = "text"
        /\ filter' = drained.pending
        /\ Send(Optional(drained.output # <<>>, Content(drained.output)))
        /\ UNCHANGED indices

SendThinking(event) ==
    /\ event.kind = "thinking"
    /\ Send(Optional(event.text # <<>>, ReasoningContent(event.text)))
    /\ UNCHANGED <<indices, filter>>

SendCallStart(event) ==
    /\ event.kind = "start"
    /\ indices' = Indexed(event.id)
    /\ Send(<<CallStart(IndexOf(event.id), event.id, event.name)>>)
    /\ UNCHANGED filter

SendArguments(event) ==
    /\ event.kind = "delta"
    /\ indices' = Indexed(event.id)
    /\ Send(<<CallArguments(IndexOf(event.id), event.arguments)>>)
    /\ UNCHANGED filter

SendNothing(event) ==
    /\ event.kind \in {"end", "usage", "stop"}
    /\ UNCHANGED <<indices, filter, sent>>

Receive ==
    \E event \in {queue[i] : i \in DOMAIN queue} :
        /\ Accept(event)
        /\ \/ SendText(event) \/ SendThinking(event) \/ SendCallStart(event)
           \/ SendArguments(event) \/ SendNothing(event)

\* Mutated form: the loop goes on after an error.
FailAndGoOn ==
    /\ ~Ended
    /\ \/ Takes(Error) /\ Send(<<ErrorSent>>)
       \/ AtFailure /\ UNCHANGED streamVars /\ Send(<<ErrorSent, DoneSent>>)
    /\ UNCHANGED <<acc, indices, filter>>
Fail ==
    /\ ~Ended
    /\ \/ Takes(Error)
       \/ AtFailure /\ UNCHANGED streamVars
    /\ Send(<<ErrorSent, DoneSent>>)
    /\ UNCHANGED <<acc, indices, filter>>

\* Mutated form: what the filter still holds is dropped.
FinishWithoutTail ==
    /\ ~Ended /\ AtEnd
    /\ Send(<<FinishChunk(ChatFinishReason(Finished(acc))), DoneSent>>)
    /\ UNCHANGED <<streamVars, acc, indices, filter>>
Finish ==
    LET tail == FilterFinish(filter).output
    IN  /\ ~Ended /\ AtEnd
        /\ Send(Optional(tail # <<>>, Content(tail))
                \o <<FinishChunk(ChatFinishReason(Finished(acc))), DoneSent>>)
        /\ UNCHANGED <<streamVars, acc, indices, filter>>

Done == Ended /\ UNCHANGED vars

Next == (~Ended /\ StreamStep /\ UNCHANGED <<acc, indices, filter, sent>>)
            \/ Receive \/ Fail \/ Finish \/ Done

Spec == Init /\ [][Next]_vars

-----------------------------------------------------------------------------
(* Properties                                                               *)

HasEndedWell == Ended /\ sent[Len(sent) - 1].type = "finish"

\* A client that puts the chunks together by their index, as the protocol has it.
PutTogether ==
    LET starts == SelectSeq(sent, LAMBDA e : e.type = "call")
        first == SelectSeq([k \in DOMAIN starts |-> k],
                           LAMBDA k : \A j \in 1..(k - 1) : starts[j].index # starts[k].index)
    IN  [n \in DOMAIN first |->
            [id |-> starts[first[n]].id, name |-> starts[first[n]].name,
             input |-> FlattenSeq([i \in DOMAIN sent |->
                          IF sent[i].type = "arguments" /\ sent[i].index = starts[first[n]].index
                            THEN sent[i].text ELSE <<>>])]]
TextOfType(type) ==
    FlattenSeq([i \in DOMAIN sent |-> IF sent[i].type = type THEN sent[i].text ELSE <<>>])

\* A client that streams puts the same answer together as one that does not
\* (openai_chat_response): the text without its markers, and, unless the upstream
\* leaves in doubt which call a fragment is for, the tool calls (openai.rs:104-131).
StreamIsTheAnswer ==
    HasEndedWell =>
        LET result == Finished(acc)
        IN  /\ TextOfType("content") = result.text
            /\ TextOfType("reasoning_content") = result.thinking
            /\ HasIds(seen) => PutTogether = ToolUses(result)

\* A new call gets the next index, whatever was sent before, and a call keeps its index.
IndexesAreStable ==
    \A i \in DOMAIN sent :
        sent[i].type \in {"call", "arguments"} =>
            LET before == {sent[j].index : j \in {j \in 1..(i - 1) : sent[j].type \in {"call", "arguments"}}}
            IN  /\ sent[i].index \in before \cup {Cardinality(before)}
                /\ sent[i].type = "call" =>
                       \A j \in 1..(i - 1) : sent[j].type = "call" =>
                           (sent[j].id = sent[i].id) = (sent[j].index = sent[i].index)

\* A stream ends with one finish_reason or with one error, and then with [DONE]; a client
\* that was told of a call is not told that the answer just stopped.
EndsOnce ==
    /\ \A i \in DOMAIN sent :
           /\ sent[i] = DoneSent => i = Len(sent)
           /\ sent[i].type \in {"error", "finish"} => i = Len(sent) - 1 /\ Ended
    /\ HasEndedWell /\ HasIds(seen) /\ (\E i \in DOMAIN sent : sent[i].type = "call") =>
           sent[Len(sent) - 1].reason # "stop"
=============================================================================
