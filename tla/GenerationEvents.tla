--------------------------- MODULE GenerationEvents ---------------------------
(***************************************************************************)
(* The events that every protocol handler consumes (generation/domain.rs)  *)
(* and how the messages of the upstream's event stream become events       *)
(* (decode_generation_events in upstream/event_stream.rs).                 *)
(*                                                                         *)
(* Texts and arguments are sequences, "" is an absent id, name or reason.  *)
(***************************************************************************)
EXTENDS Sequences, Naturals

TextDelta(text) == [kind |-> "text", text |-> text]
ThinkingDelta(text) == [kind |-> "thinking", text |-> text]
ToolCallStart(id, name) == [kind |-> "start", id |-> id, name |-> name]
ToolCallDelta(id, arguments) == [kind |-> "delta", id |-> id, arguments |-> arguments]
ToolCallEnd(id, complete) == [kind |-> "end", id |-> id, complete |-> complete]
Usage == [kind |-> "usage"]
Stop(reason) == [kind |-> "stop", reason |-> reason]
Error == [kind |-> "error"]

\* A reason that leaves the answer incomplete although the stream has ended.
IsIncomplete(reason) == reason = "stream_incomplete"

IsTerminal(event) == event.kind \in {"stop", "error"}

Text == Seq(STRING)
\* What the upstream says, or what the call says for it when the stream breaks off.
Reasons == STRING \cup {"stream_incomplete"}
Events ==
    [kind : {"text", "thinking"}, text : Text]
    \cup [kind : {"start"}, id : STRING, name : STRING]
    \cup [kind : {"delta"}, id : STRING, arguments : Text]
    \cup [kind : {"end"}, id : STRING, complete : BOOLEAN]
    \cup [kind : {"stop"}, reason : Reasons]
    \cup [kind : {"usage", "error"}]

Optional(present, event) == IF present THEN <<event>> ELSE <<>>

-----------------------------------------------------------------------------
(* The messages of the event stream.  The input of a tool use is absent,    *)
(* <<>>, or <<f>>, where f is the fragment that value_to_fragment makes of   *)
(* the JSON value: {} and null give an empty one.                            *)

Assistant(text) == [type |-> "assistant", text |-> text]
Reasoning(text) == [type |-> "reasoning", text |-> text]
ToolUse(id, name, input, stop) ==
    [type |-> "tool", id |-> id, name |-> name, input |-> input, stop |-> stop]
Metadata(usage, reason) == [type |-> "metadata", usage |-> usage, reason |-> reason]
ErrorEvent == [type |-> "error"]
Other == [type |-> "other"]          \* context usage, metering, unknown types
Exception == [type |-> "exception"]  \* :message-type is error or exception
Malformed == [type |-> "malformed"]  \* the payload is no JSON

Messages ==
    [type : {"assistant", "reasoning"}, text : Text]
    \cup [type : {"tool"}, id : STRING, name : STRING,
          input : [1..0 -> Text] \cup [1..1 -> Text], stop : BOOLEAN]
    \cup [type : {"metadata"}, usage : BOOLEAN, reason : STRING]
    \cup {ErrorEvent, Other, Exception, Malformed}

DecodeToolUse(m) ==
    Optional(m.name # "" \/ m.id # "", ToolCallStart(m.id, m.name))
    \o (IF m.input = <<>> THEN <<>> ELSE <<ToolCallDelta(m.id, m.input[1])>>)
    \o Optional(m.stop, ToolCallEnd(m.id, TRUE))

\* The events of a message that is neither an exception nor malformed.
DecodeGenerationEvents(m) ==
    CASE m.type = "assistant" -> <<TextDelta(m.text)>>
      [] m.type = "reasoning" -> <<ThinkingDelta(m.text)>>
      [] m.type = "tool"      -> DecodeToolUse(m)
      [] m.type = "metadata"  -> Optional(m.usage, Usage) \o Optional(m.reason # "", Stop(m.reason))
      [] m.type = "error"     -> <<Error>>
      [] OTHER                -> <<>>
=============================================================================
