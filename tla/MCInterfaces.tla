----------------------------- MODULE MCInterfaces -----------------------------
(***************************************************************************)
(* The four ways of answering a request, side by side: each handler reads  *)
(* one stream of the upstream into one accumulator. A behaviour is one     *)
(* request; interface says which handler reads, and the variables of the   *)
(* others stay Unused.                                                     *)
(*                                                                         *)
(* For each interface there are the messages that its handler tells apart: *)
(* text with half a marker, thinking, tool calls with and without an id or *)
(* a name, in pieces, errors and both kinds of ends.                       *)
(***************************************************************************)
EXTENDS XmlLeakFilter, GenerationEvents

Brace == <<"{">>
Unbrace == <<"}">>

\* A tool use that opens its arguments, closes them, closes them and stops, or stops.
ToolFrames(ids, names) ==
    UNION {{ToolUse(id, name, <<Brace>>, FALSE), ToolUse(id, name, <<Unbrace>>, FALSE),
            ToolUse(id, name, <<Unbrace>>, TRUE), ToolUse(id, name, <<>>, TRUE)} :
                id \in ids, name \in names}

Texts == {Assistant(<<"t">>), Assistant(<<"<">>), Assistant(<<"k">>), Reasoning(<<"r">>)}
Endings == {Metadata(FALSE, "max_tokens"), Metadata(TRUE, "end_turn"), ErrorEvent}

MCCompletionFrames ==
    ToolFrames({"", "a", "b"}, {"f"}) \cup ToolFrames({"", "a"}, {""})
    \cup {ToolUse("", "g", <<Brace>>, FALSE), Assistant(<<"t">>)} \cup Endings

MCMessagesFrames ==
    ToolFrames({"", "a"}, {"f"})
    \cup {ToolUse("", "", <<Unbrace>>, TRUE), ToolUse("b", "f", <<Brace>>, FALSE),
          ToolUse("b", "", <<Unbrace>>, TRUE), Reasoning(<<>>)}
    \cup Texts \cup Endings

MCChatFrames ==
    ToolFrames({"", "a"}, {"f"})
    \cup {ToolUse("b", "f", <<Brace>>, FALSE), ToolUse("b", "f", <<Unbrace>>, TRUE),
          ToolUse("a", "", <<Unbrace>>, TRUE), Assistant(<<>>)}
    \cup Texts \cup Endings

MCResponsesFrames ==
    ToolFrames({"a"}, {"f"}) \cup ToolFrames({"b"}, {"c"})
    \cup {ToolUse("a", "", <<Unbrace>>, TRUE), ToolUse("b", "c", <<<<"{", "x", "}">>>>, TRUE),
          ToolUse("", "f", <<Brace>>, FALSE)}
    \cup Texts \cup Endings

MCMarkers == {<<"<", "k">>}

MCJsonAnswers ==
    {<<ToolCallStart("a", "f"), ToolCallDelta("a", Brace), ToolCallEnd("a", FALSE), Usage, Stop("end_turn")>>,
     <<TextDelta(<<"t">>), ThinkingDelta(<<"r">>), Stop("end_turn")>>,
     <<Error>>}

-----------------------------------------------------------------------------
CONSTANTS
    CompletionFrames, MessagesFrames, ChatFrames, ResponsesFrames,  \* what each may read
    JsonAnswers, MaxFrames, CustomTools

\* A JSON answer is an error or ends with a reason to stop (json.rs:28, 109).
ASSUME InterfaceAssumption ==
    /\ \A frames \in {CompletionFrames, MessagesFrames, ChatFrames, ResponsesFrames} :
           frames \subseteq Messages
    /\ JsonAnswers \subseteq Seq(Events)
    /\ \A events \in JsonAnswers : events # <<>> /\ IsTerminal(events[Len(events)])
    /\ MaxFrames \in Nat

VARIABLES
    interface,                      \* "completion", "messages", "chat" or "responses"
    seen, queue, frames, upstream,  \* of GenerationStream
    acc,                            \* of every handler
    answer,                         \* of Completion
    sent,                           \* of the handlers that stream
    handler,                        \* of AnthropicStream
    indices, filter,                \* of ChatStream
    live, snapshot                  \* of LiveResponse

Drive == INSTANCE Completion WITH Frames <- CompletionFrames
Anthropic == INSTANCE AnthropicStream WITH Frames <- MessagesFrames
OpenAi == INSTANCE ChatStream WITH Frames <- ChatFrames
Live == INSTANCE LiveResponse WITH Frames <- ResponsesFrames

streamed == <<seen, queue, frames, upstream, acc>>
allVars == <<interface, streamed, answer, sent, handler, indices, filter, live, snapshot>>

Unused == <<>>

InterfaceInit ==
    \/ /\ interface = "completion" /\ Drive!Init
       /\ sent = Unused /\ handler = Unused /\ indices = Unused
       /\ filter = Unused /\ live = Unused /\ snapshot = Unused
    \/ /\ interface = "messages" /\ Anthropic!Init
       /\ answer = Unused /\ indices = Unused /\ filter = Unused /\ live = Unused /\ snapshot = Unused
    \/ /\ interface = "chat" /\ OpenAi!Init
       /\ answer = Unused /\ handler = Unused /\ live = Unused /\ snapshot = Unused
    \/ /\ interface = "responses" /\ Live!Init
       /\ answer = Unused /\ handler = Unused /\ indices = Unused /\ filter = Unused

InterfaceNext ==
    /\ \/ /\ interface = "completion" /\ Drive!Next
          /\ UNCHANGED <<sent, handler, indices, filter, live, snapshot>>
       \/ /\ interface = "messages" /\ Anthropic!Next
          /\ UNCHANGED <<answer, indices, filter, live, snapshot>>
       \/ /\ interface = "chat" /\ OpenAi!Next
          /\ UNCHANGED <<answer, handler, live, snapshot>>
       \/ /\ interface = "responses" /\ Live!Next
          /\ UNCHANGED <<answer, handler, indices, filter>>
    /\ UNCHANGED interface

InterfaceSpec == InterfaceInit /\ [][InterfaceNext]_allVars

-----------------------------------------------------------------------------
(* What each interface promises; the modules say it in full.                *)

\* Without streaming: the fragments of a tool call end up in it, and calls differ in their
\* ids, the made-up ones included (tool_state.rs:33-87).
CallsAreWhole == interface = "completion" => Drive!CallsAreWhole /\ Drive!CallsAreDistinct

\* Only a complete answer passes for one, and a failure, or nothing at all, is no answer
\* (accumulator.rs:91-111, app_state.rs:44-50).
CompleteIsTrue == interface = "completion" => Drive!CompleteIsTrue /\ Drive!FailureIsNoAnswer

\* Anthropic: blocks start, go on and stop in the order of the protocol, content goes to the
\* block that is open, and a good end leaves none open (anthropic.rs:148-293).
MessagesAreSound ==
    interface = "messages" =>
        Anthropic!BlocksAreCounted /\ Anthropic!ContentGoesToTheOpenBlock /\ Anthropic!EndsClean

\* Chat Completions: a call keeps its index while others come between, and the stream ends
\* once, with a reason that fits what was sent (openai.rs:83-152).
ChatIsSound == interface = "chat" => OpenAi!IndexesAreStable /\ OpenAi!EndsOnce

\* Responses: items are added, go on and are done in order, and one terminal event ends the
\* stream, also when the store fails (live.rs:257-677).
ItemsAreSound == interface = "responses" => Live!ItemsAreSound /\ Live!EndsOnce

\* Whatever the interface, a client that puts its stream together gets the answer that a
\* client which does not stream gets (anthropic.rs:98, openai.rs:71, live.rs:249).
StreamsAreTheAnswer ==
    /\ interface = "messages" => Anthropic!StreamIsTheAnswer
    /\ interface = "chat" => OpenAi!StreamIsTheAnswer
    /\ interface = "responses" => Live!StreamIsTheAnswer /\ Live!OutputWasStreamed

\* A client of Responses that leaves has been sent what is stored (live.rs:513-532).
SnapshotIsCurrent == interface = "responses" => Live!SnapshotIsCurrent
=============================================================================
