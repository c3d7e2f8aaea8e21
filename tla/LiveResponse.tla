----------------------------- MODULE LiveResponse -----------------------------
(***************************************************************************)
(* What responses_live_stream (http/responses/live.rs) makes of the events *)
(* of the upstream: the output items of a streamed response, and the       *)
(* snapshot of it that is stored when the client goes away.  How an event  *)
(* is stored before it is sent is in Responses; here storing may fail.     *)
(*                                                                         *)
(* An item is named by its output_index.  Items are in item_order as their *)
(* indexes go, and a response has at most one of text and one of reasoning, *)
(* since active_reasoning is never reset.                                  *)
(***************************************************************************)
EXTENDS GenerationStream, GenerationAccumulator, Integers

CONSTANT CustomTools    \* names of the custom tools of the request

VARIABLES acc,       \* GenerationAccumulator
          live,      \* LiveResponseState, and the text filter
          snapshot,  \* the response that would be stored if the client went away
          sent       \* the events so far

vars == <<streamVars, acc, live, snapshot, sent>>

NoItem == -1

Plain(type) == [type |-> type]
Added(index, kind, callId) == [type |-> "added", index |-> index, kind |-> kind, callId |-> callId]
PartAdded(index) == [type |-> "part_added", index |-> index]
DeltaOf(index, text) == [type |-> "delta", index |-> index, text |-> text]
TextDone(index, text) == [type |-> "text_done", index |-> index, text |-> text]
PartDone(index, text) == [type |-> "part_done", index |-> index, text |-> text]
ItemDone(index, item) == [type |-> "item_done", index |-> index, item |-> item]
Terminal(status, output) == [type |-> "terminal", status |-> status, output |-> output]
HasIndex(event) == event.type \notin {"created", "in_progress", "terminal"}

NewLive == [textIndex |-> NoItem, reasoning |-> NoItem, tools |-> <<>>, next |-> 0,
            text |-> <<>>, thinking |-> <<>>, stop |-> "", filter |-> <<>>]

IsCustom(name) == name \in CustomTools

\* An object with anything in it stands for one with that as its "input".
CustomInput(arguments) ==
    IF AreComplete(arguments) /\ Len(arguments) > 2 THEN SubSeq(arguments, 2, Len(arguments) - 1)
    ELSE arguments

MessageItem(index, status, text) == [kind |-> "message", index |-> index, status |-> status, text |-> text]
ReasoningItem(index, status, text) == [kind |-> "reasoning", index |-> index, status |-> status, text |-> text]
ToolItem(index, callId, name, arguments, status, custom) ==
    [kind |-> IF custom THEN "custom_tool_call" ELSE "function_call", index |-> index, callId |-> callId,
     name |-> name, status |-> status, text |-> IF custom THEN CustomInput(arguments) ELSE arguments]

-----------------------------------------------------------------------------
(* The state of the items.  A step s has the live state l and what is sent.  *)

ToolAt(l, callId) ==
    IF \E i \in DOMAIN l.tools : l.tools[i].callId = callId
      THEN CHOOSE i \in DOMAIN l.tools : l.tools[i].callId = callId ELSE 0

EnsureText(s) ==
    IF s.l.textIndex # NoItem THEN s
    ELSE [l |-> [s.l EXCEPT !.textIndex = s.l.next, !.next = @ + 1],
          out |-> s.out \o <<Added(s.l.next, "message", ""), PartAdded(s.l.next)>>]

EnsureReasoning(s) ==
    IF s.l.reasoning # NoItem THEN s
    ELSE [l |-> [s.l EXCEPT !.reasoning = s.l.next, !.next = @ + 1],
          out |-> s.out \o <<Added(s.l.next, "reasoning", ""), PartAdded(s.l.next)>>]

EnsureTool(s, callId, name) ==
    LET i == ToolAt(s.l, callId)
        tool == [callId |-> callId, name |-> name, arguments |-> <<>>, index |-> s.l.next,
                 ended |-> FALSE, custom |-> IsCustom(name)]
    IN  IF i # 0
          THEN [s EXCEPT !.l.tools[i].name = IF @ = "" THEN name ELSE @,
                         !.l.tools[i].custom = @ \/ IsCustom(name)]
          ELSE [l |-> [s.l EXCEPT !.tools = Append(@, tool), !.next = @ + 1],
                out |-> Append(s.out, Added(s.l.next, IF tool.custom THEN "custom_tool_call" ELSE "function_call", callId))]

Say(s, index, text) == IF text = <<>> THEN s ELSE [s EXCEPT !.out = Append(@, DeltaOf(index, text))]

-----------------------------------------------------------------------------
(* One arm for each kind of event                                           *)

GeneratedKey(l) == GeneratedId(Len(l.tools) + 1)
LastKey(l) == IF l.tools = <<>> THEN GeneratedKey(l) ELSE l.tools[Len(l.tools)].callId

OnText(s, event) ==
    LET drained == FilterPush(s.l.filter, event.text)
        ready == EnsureText([s EXCEPT !.l.filter = drained.pending, !.l.text = @ \o drained.output])
    IN  Say(ready, ready.l.textIndex, drained.output)

OnThinking(s, event) ==
    LET ready == EnsureReasoning([s EXCEPT !.l.thinking = @ \o event.text])
    IN  Say(ready, ready.l.reasoning, event.text)

OnToolStart(s, event) ==
    EnsureTool(s, IF event.id # "" THEN event.id ELSE GeneratedKey(s.l), event.name)

OnToolDelta(s, event) ==
    LET key == IF event.id # "" THEN event.id ELSE LastKey(s.l)
        ready == EnsureTool(s, key, "")
        i == ToolAt(ready.l, key)
        longer == [ready EXCEPT !.l.tools[i].arguments = @ \o event.arguments]
    IN  IF ready.l.tools[i].custom THEN longer ELSE Say(longer, ready.l.tools[i].index, event.arguments)

ToolStatus(complete) == IF complete THEN "completed" ELSE "incomplete"

\* The input of a custom tool is sent in one piece, when all of it is there.
Inputs(tool, arguments) ==
    IF tool.custom
      THEN Optional(CustomInput(arguments) # <<>>, DeltaOf(tool.index, CustomInput(arguments)))
           \o <<TextDone(tool.index, CustomInput(arguments))>>
      ELSE <<TextDone(tool.index, arguments)>>

\* Mutated form: a call whose end comes twice is done twice.
OnEveryToolEnd(s, event) ==
    LET i == IF event.id # "" THEN ToolAt(s.l, event.id) ELSE Len(s.l.tools)
        tool == s.l.tools[i]
        item == ToolItem(tool.index, tool.callId, tool.name, tool.arguments,
                         ToolStatus(event.complete /\ AreComplete(tool.arguments)), tool.custom)
    IN  IF i = 0 THEN s
        ELSE [l |-> [s.l EXCEPT !.tools[i].ended = TRUE],
              out |-> s.out \o Inputs(tool, tool.arguments) \o <<ItemDone(tool.index, item)>>]
\* Mutated form: the end of a call says that it is complete.
OnToolEndCareless(s, event) ==
    LET i == IF event.id # "" THEN ToolAt(s.l, event.id) ELSE Len(s.l.tools)
        tool == s.l.tools[i]
        item == ToolItem(tool.index, tool.callId, tool.name, tool.arguments, "completed", tool.custom)
    IN  IF i = 0 \/ tool.ended THEN s
        ELSE [l |-> [s.l EXCEPT !.tools[i].ended = TRUE],
              out |-> s.out \o Inputs(tool, tool.arguments) \o <<ItemDone(tool.index, item)>>]
OnToolEnd(s, event) ==
    LET i == IF event.id # "" THEN ToolAt(s.l, event.id) ELSE Len(s.l.tools)
        tool == s.l.tools[i]
        item == ToolItem(tool.index, tool.callId, tool.name, tool.arguments,
                         ToolStatus(event.complete /\ AreComplete(tool.arguments)), tool.custom)
    IN  IF i = 0 \/ tool.ended THEN s
        ELSE [l |-> [s.l EXCEPT !.tools[i].ended = TRUE],
              out |-> s.out \o Inputs(tool, tool.arguments) \o <<ItemDone(tool.index, item)>>]

OnEvent(s, event) ==
    CASE event.kind = "text"     -> OnText(s, event)
      [] event.kind = "thinking" -> OnThinking(s, event)
      [] event.kind = "start"    -> OnToolStart(s, event)
      [] event.kind = "delta"    -> OnToolDelta(s, event)
      [] event.kind = "end"      -> OnToolEnd(s, event)
      [] event.kind = "stop"     -> [s EXCEPT !.l.stop = event.reason]
      [] event.kind = "usage"    -> s

-----------------------------------------------------------------------------
(* The response of a result: its items by their index.                      *)

\* The first of these positions, or 0.
FirstOf(positions) ==
    IF positions = {} THEN 0 ELSE CHOOSE i \in positions : \A j \in positions : i <= j

\* Mutated form: a call that was cut off is not part of the response.
CompleteCallOf(result, callId) ==
    FirstOf({i \in DOMAIN result.calls : result.calls[i].id = callId /\ result.calls[i].complete})
CallOf(result, callId) == FirstOf({i \in DOMAIN result.calls : result.calls[i].id = callId})

ToolIndexed(l, index) == FirstOf({i \in DOMAIN l.tools : l.tools[i].index = index})

ItemsAt(l, result, status, index) ==
    IF index = l.textIndex THEN <<MessageItem(index, status, result.text)>>
    ELSE IF index = l.reasoning THEN <<ReasoningItem(index, status, l.thinking)>>
    ELSE LET tool == l.tools[ToolIndexed(l, index)]
             call == result.calls[CallOf(result, tool.callId)]
         IN  IF CallOf(result, tool.callId) = 0 THEN <<>>
             ELSE <<ToolItem(index, tool.callId, call.name, call.arguments,
                             ToolStatus(call.complete), tool.custom \/ IsCustom(call.name))>>

\* responses_payload_with_live_items_and_tools
Response(l, result) ==
    LET status == IF ResponsesIncompleteReason(result) = "" THEN "completed" ELSE "incomplete"
        items == FlattenSeq([k \in 1..l.next |-> ItemsAt(l, result, status, k - 1)])
    IN  [status |-> status, output |-> IF items = <<>> THEN <<MessageItem(0, status, <<>>)>> ELSE items]

\* snapshot_response
ResultSoFar(l) ==
    [text |-> l.text, thinking |-> l.thinking, reason |-> l.stop, incomplete |-> l.stop = "",
     calls |-> [i \in DOMAIN l.tools |->
        [id |-> l.tools[i].callId, name |-> l.tools[i].name, arguments |-> l.tools[i].arguments,
         complete |-> l.tools[i].ended /\ AreComplete(l.tools[i].arguments)]]]

\* Mutated form: the snapshot is of the time before the event.
StaleSnapshot(l) == Response(live, ResultSoFar(live))
RefreshSnapshot(l) == Response(l, ResultSoFar(l))

\* What the filter still holds when the upstream has ended.
SendTail(s) ==
    LET tail == FilterFinish(s.l.filter).output
        ready == EnsureText(s)
    IN  IF tail = <<>> THEN s ELSE Say([ready EXCEPT !.l.text = @ \o tail], ready.l.textIndex, tail)

\* The events that close an item which the response has or lacks.
ItemIn(response, index) ==
    LET i == FirstOf({i \in DOMAIN response.output : response.output[i].index = index})
    IN  IF i = 0 THEN <<>> ELSE <<ItemDone(index, response.output[i])>>
CloseItem(l, result, response, index) ==
    IF index = l.textIndex
      THEN <<TextDone(index, result.text), PartDone(index, result.text)>> \o ItemIn(response, index)
    ELSE IF index = l.reasoning
      THEN <<TextDone(index, l.thinking), PartDone(index, l.thinking)>> \o ItemIn(response, index)
    ELSE LET tool == l.tools[ToolIndexed(l, index)]
             call == CallOf(result, tool.callId)
         IN  IF tool.ended THEN <<>>
             ELSE Inputs(tool, IF call = 0 THEN <<>> ELSE result.calls[call].arguments)
                  \o ItemIn(response, index)

EmptyMessage(response) ==
    <<Added(0, "message", ""), PartAdded(0), TextDone(0, <<>>), PartDone(0, <<>>), ItemDone(0, response.output[1])>>

CloseItems(s, result, response) ==
    LET closed[k \in 0..s.l.next] ==
            IF k = 0 THEN s.out ELSE closed[k - 1] \o CloseItem(s.l, result, response, k - 1)
    IN  IF s.l.next = 0 THEN s.out \o EmptyMessage(response) ELSE closed[s.l.next]

-----------------------------------------------------------------------------
Ended == sent # <<>> /\ sent[Len(sent)].type = "terminal"

Init ==
    /\ StreamInit
    /\ acc = NewAccumulator
    /\ live = NewLive
    /\ snapshot = [status |-> "in_progress", output |-> <<>>]
    /\ sent = <<Plain("created"), Plain("in_progress")>>

Receive ==
    \E event \in {queue[i] : i \in DOMAIN queue} :
        LET after == OnEvent([l |-> live, out |-> sent], event)
        IN  /\ ~Ended /\ event.kind # "error" /\ Takes(event)
            /\ acc' = ApplyEvent(acc, event)
            /\ live' = after.l
            /\ snapshot' = RefreshSnapshot(after.l)
            /\ sent' = after.out

Failed == Terminal("failed", <<>>)

\* Mutated form: the snapshot stays as it was.
FailUnnoted ==
    /\ ~Ended
    /\ \/ Takes(Error)
       \/ AtFailure /\ UNCHANGED streamVars
    /\ sent' = Append(sent, Failed)
    /\ UNCHANGED <<acc, live, snapshot>>
Fail ==
    /\ ~Ended
    /\ \/ Takes(Error)
       \/ AtFailure /\ UNCHANGED streamVars
    /\ sent' = Append(sent, Failed)
    /\ snapshot' = Failed
    /\ UNCHANGED <<acc, live>>

Closing ==
    LET tail == SendTail([l |-> live, out |-> sent])
        result == Finished(acc)
        response == Response(tail.l, result)
    IN  [response |-> response, out |-> CloseItems(tail, result, response)]

Finish ==
    /\ ~Ended /\ AtEnd
    /\ sent' = Append(Closing.out, Terminal(Closing.response.status, Closing.response.output))
    /\ snapshot' = Closing.response
    /\ UNCHANGED <<streamVars, acc, live>>

StorageError == Terminal("storage_error", <<>>)

\* An event cannot be stored: it is not sent, nor is anything after it.
StopAfter(steps, last) ==
    /\ \E n \in Len(sent)..last : sent' = Append(SubSeq(steps, 1, n), StorageError)
    /\ snapshot' = StorageError
    /\ UNCHANGED <<acc, live>>

StoreFails ==
    \E event \in {queue[i] : i \in DOMAIN queue} :
        LET steps == OnEvent([l |-> live, out |-> sent], event).out
        IN  /\ ~Ended /\ event.kind # "error" /\ Takes(event)
            /\ StopAfter(steps, Len(steps) - 1)

StoreFailsAtEnd ==
    /\ ~Ended
    /\ \/ Takes(Error) /\ StopAfter(sent, Len(sent))
       \/ AtFailure /\ UNCHANGED streamVars /\ StopAfter(sent, Len(sent))
       \/ AtEnd /\ UNCHANGED streamVars /\ StopAfter(Closing.out, Len(Closing.out))

Done == Ended /\ UNCHANGED vars

Next == (~Ended /\ StreamStep /\ UNCHANGED <<acc, live, snapshot, sent>>)
            \/ Receive \/ Fail \/ Finish \/ StoreFails \/ StoreFailsAtEnd \/ Done

Spec == Init /\ [][Next]_vars

-----------------------------------------------------------------------------
(* Properties                                                               *)

IsOf(event, index) == HasIndex(event) /\ event.index = index
Indexes == {sent[i].index : i \in {i \in DOMAIN sent : HasIndex(sent[i])}}
Deltas(index) ==
    LET joined[n \in 0..Len(sent)] ==
            IF n = 0 THEN <<>>
            ELSE IF IsOf(sent[n], index) /\ sent[n].type = "delta" THEN joined[n - 1] \o sent[n].text
            ELSE joined[n - 1]
    IN  joined[Len(sent)]
HasEndedWell == Ended /\ sent[Len(sent)].status \in {"completed", "incomplete"}
Output == sent[Len(sent)].output
IsCall(item) == item.kind \notin {"message", "reasoning"}

\* Items come with the indexes 0, 1, 2, ..., each is added before anything else is said
\* of it and once, and nothing is said of it when it is done; of a call, if the upstream
\* leaves no doubt which call it speaks of (live.rs:366-520).
ItemsAreSound ==
    \A i \in DOMAIN sent :
        /\ sent[i].type = "added" =>
               sent[i].index = Cardinality({j \in 1..(i - 1) : sent[j].type = "added"})
        /\ HasIndex(sent[i]) =>
               \E j \in 1..i : sent[j].type = "added" /\ sent[j].index = sent[i].index
        /\ sent[i].type = "item_done" =>
               \A j \in (i + 1)..Len(sent) : IsOf(sent[j], sent[i].index) =>
                   /\ sent[j].type # "item_done"
                   /\ ~HasIds(seen)
                   /\ \E k \in 1..i : /\ sent[k].type = "added" /\ sent[k].index = sent[i].index
                                      /\ sent[k].kind \notin {"message", "reasoning"}

\* When a response ends, with whatever status, every item has been done just as the
\* response lists it, and its deltas add up to it (live.rs:556-632).
OutputWasStreamed ==
    HasEndedWell /\ HasIds(seen) =>
        /\ Indexes = {k - 1 : k \in DOMAIN Output}
        /\ \A k \in DOMAIN Output :
               /\ \E i \in DOMAIN sent : /\ sent[i] = ItemDone(k - 1, Output[k])
                                         /\ \A j \in (i + 1)..Len(sent) : ~IsOf(sent[j], k - 1)
               /\ Deltas(k - 1) = Output[k].text

\* A client that streams gets the output that one that does not gets: the text without
\* its markers, whatever else came between, and the calls as they add up.
StreamIsTheAnswer ==
    HasEndedWell =>
        LET result == Finished(acc)
            messages == {k \in DOMAIN Output : Output[k].kind = "message"}
            calls(k) == Cardinality({j \in 1..k : IsCall(Output[j])})
        IN  /\ \A j, k \in messages : j = k
            /\ \A k \in messages : Output[k].text = result.text
            /\ messages = {} => result.text = <<>>
            /\ HasIds(seen) =>
                   /\ calls(Len(Output)) = Len(result.calls)
                   /\ \A k \in DOMAIN Output : IsCall(Output[k]) =>
                          /\ Output[k].callId = result.calls[calls(k)].id
                          /\ Output[k].status = ToolStatus(result.calls[calls(k)].complete)

\* Whenever the client goes away between two events, the response that is stored has what
\* the client was sent until then (live.rs:524-532, lifecycle.rs).
SnapshotIsCurrent ==
    ~Ended /\ live.next > 0 =>
        /\ Len(snapshot.output) = live.next
        /\ \A k \in DOMAIN snapshot.output :
               LET item == snapshot.output[k]
               IN  item.kind # "custom_tool_call" => item.text = Deltas(item.index)

\* The end of a stream is one event and its last, and when the events cannot be stored it
\* says so and not that the response is complete.
EndsOnce ==
    /\ \A i \in DOMAIN sent : sent[i].type = "terminal" => i = Len(sent)
    /\ Ended => snapshot.status = sent[Len(sent)].status
=============================================================================
