--------------------------- MODULE GenerationStream ---------------------------
(***************************************************************************)
(* The stream that UpstreamClient::event_stream hands to a handler: the    *)
(* events of any messages, or of a JSON answer, and then the end, or a     *)
(* failure at any point.  UpstreamRequest shows how a call gets there; here *)
(* its retry is over, and what matters is which events a handler may see.  *)
(*                                                                         *)
(* The second half says what the tool calls among the events mean, for     *)
(* streams that leave no doubt: the yardstick of the handlers' properties. *)
(***************************************************************************)
EXTENDS GenerationEvents, SequencesExt

CONSTANTS Frames,      \* messages of the event stream
          JsonAnswers, \* the events of JSON answers
          MaxFrames    \* bound: messages of one stream

VARIABLES seen,     \* the events the handler has taken
          queue,    \* the events of the message that was decoded last
          frames,   \* number of messages so far
          upstream  \* "open", "ended" or "failed"

streamVars == <<seen, queue, frames, upstream>>

StreamInit == seen = <<>> /\ queue = <<>> /\ frames = 0 /\ upstream = "open"

\* event_marks_completion
MarksCompletion(event) ==
    \/ event.kind = "stop" /\ ~IsIncomplete(event.reason)
    \/ event.kind = "end" /\ event.complete

MessageArrives ==
    /\ upstream = "open" /\ queue = <<>> /\ frames < MaxFrames
    /\ \E message \in Frames : queue' = DecodeGenerationEvents(message)
    /\ frames' = frames + 1
    /\ UNCHANGED <<seen, upstream>>

JsonArrives ==
    /\ upstream = "open" /\ frames = 0
    /\ \E answer \in JsonAnswers : queue' = answer
    /\ upstream' = "ended"
    /\ UNCHANGED <<seen, frames>>

\* A stream that nothing has completed says so itself.
UpstreamEnds ==
    /\ upstream = "open" /\ queue = <<>> /\ frames > 0
    /\ queue' = Optional(\A i \in DOMAIN seen : ~MarksCompletion(seen[i]), Stop("stream_incomplete"))
    /\ upstream' = "ended"
    /\ UNCHANGED <<seen, frames>>

UpstreamFails ==
    /\ upstream = "open" /\ queue = <<>>
    /\ upstream' = "failed"
    /\ UNCHANGED <<seen, queue, frames>>

StreamStep == MessageArrives \/ JsonArrives \/ UpstreamEnds \/ UpstreamFails

\* The handler takes this event from the stream.
Takes(event) ==
    /\ queue # <<>> /\ event = Head(queue)
    /\ queue' = Tail(queue)
    /\ seen' = Append(seen, event)
    /\ UNCHANGED <<frames, upstream>>

AtEnd == upstream = "ended" /\ queue = <<>>
AtFailure == upstream = "failed" /\ queue = <<>>

-----------------------------------------------------------------------------
(* What the events mean.                                                    *)

ToolEvents(events) == SelectSeq(events, LAMBDA e : e.kind \in {"start", "delta", "end"})

Arguments(events) ==
    FlattenSeq([i \in DOMAIN events |-> IF events[i].kind = "delta" THEN events[i].arguments ELSE <<>>])

TextOfKind(events, kind) ==
    FlattenSeq([i \in DOMAIN events |-> IF events[i].kind = kind THEN events[i].text ELSE <<>>])

\* Every event names its call, a call starts with its name and keeps it, and its end is
\* its last.
HasIds(events) ==
    LET tool == {i \in DOMAIN events : events[i].kind \in {"start", "delta", "end"}}
    IN  \A i \in tool :
            LET before == {j \in tool : j < i /\ events[j].id = events[i].id}
            IN  /\ events[i].id # ""
                /\ before = {} => events[i].kind = "start" /\ events[i].name # ""
                /\ \A j \in before :
                       /\ events[j].kind # "end"
                       /\ events[i].kind = "start" /\ events[j].kind = "start" =>
                              \/ "" \in {events[i].name, events[j].name}
                              \/ events[i].name = events[j].name

\* The calls of such events, in the order in which they started.
CallsById(events) ==
    LET tool == ToolEvents(events)
        first == SelectSeq([i \in DOMAIN tool |-> i],
                           LAMBDA i : \A j \in 1..(i - 1) : tool[j].id # tool[i].id)
    IN  [k \in DOMAIN first |->
            LET its == SelectSeq(tool, LAMBDA e : e.id = tool[first[k]].id)
            IN  [id |-> its[1].id, name |-> its[1].name, arguments |-> Arguments(its)]]

\* No event names its call: a call goes on until its end, or until another name comes.
Begins(tool, i) ==
    /\ tool[i].kind = "start"
    /\ \/ i = 1
       \/ tool[i - 1].kind = "end"
       \/ LET names == {j \in 1..(i - 1) : tool[j].kind = "start"}
          IN  tool[i].name # tool[CHOOSE j \in names : \A n \in names : n <= j].name
HasNoIds(events) ==
    LET tool == ToolEvents(events)
    IN  \A i \in DOMAIN tool :
            /\ tool[i].id = ""
            /\ (i = 1 \/ tool[i - 1].kind = "end") => tool[i].kind = "start"
CallsInTurn(events) ==
    LET tool == ToolEvents(events)
        first == SelectSeq([i \in DOMAIN tool |-> i], LAMBDA i : Begins(tool, i))
        last(k) == IF k = Len(first) THEN Len(tool) ELSE first[k + 1] - 1
    IN  [k \in DOMAIN first |->
            [name |-> tool[first[k]].name, arguments |-> Arguments(SubSeq(tool, first[k], last(k)))]]

\* One call, whose id comes only with a later event.
HasLateId(events) ==
    LET tool == ToolEvents(events)
        ids == {tool[i].id : i \in DOMAIN tool} \ {""}
        names == {tool[i].name : i \in {j \in DOMAIN tool : tool[j].kind = "start"}} \ {""}
    IN  /\ tool # <<>> /\ tool[1].kind = "start" /\ tool[1].id = ""
        /\ Cardinality(ids) = 1 /\ Cardinality(names) = 1
        /\ \A i \in DOMAIN tool : tool[i].kind = "end" => i = Len(tool)
        /\ \A i \in DOMAIN tool :
               tool[i].id # "" /\ (\A j \in 1..(i - 1) : tool[j].id = "") => tool[i].kind = "start"
=============================================================================
