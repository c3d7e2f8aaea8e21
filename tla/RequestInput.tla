---------------------------- MODULE RequestInput ----------------------------
(***************************************************************************)
(* into_generation of the three protocols: a client's request, one input   *)
(* item after the other, becomes messages, tools and instructions. In      *)
(* each state the request could be complete; RequestBody is its body then.  *)
(*                                                                         *)
(* The client plays by the rules of its protocol: it replays the answers   *)
(* of the model with the calls as the gateway showed them, or, in          *)
(* Responses, continues from a stored response; it answers calls it knows, *)
(* one by one or several at once, and may answer one twice. Requests that  *)
(* are refused (content that is not text, a tool_choice, an item without   *)
(* its id) have no body and are left out.                                  *)
(***************************************************************************)
EXTENDS Conversation

CONSTANTS Protocols,  \* those among "anthropic", "chat", "responses" that are checked
          Tools,      \* the tools the client offers: [custom, space, name], of which all but the
              \* name is for Responses only
          Strays,     \* upstream names that the model makes up
          MaxInputs,   \* bound on the input items
          MaxCalls    \* bound on the calls of the conversation

ASSUME InputAssumption == MaxInputs \in Nat

VARIABLES protocol,
          previous,  \* into_generation's previous_len: the messages of the stored response
          messages,  \* GenerationRequest::messages
          guidance,  \* GenerationRequest::system or instructions, part by part
          items,     \* number of input items so far; parts are numbered by it
          shown      \* history: for each call, what was asked and what the client was shown

inputVars == <<protocol, previous, messages, guidance, items, shown>>

-----------------------------------------------------------------------------
(* Names. A written name is a list of words with a separator.              *)

\* kiro_tool_name
KiroToolName(name) == [name EXCEPT !.sep = "_"]

\* qualified_custom_tool_name, and the names of parse_additional_tools; <<>> is no namespace.
QualifiedName(space, name) == KiroToolName([name EXCEPT !.words = space \o @])

\* The name of a tool in the request to the upstream: as it is but in Responses.
UpstreamName(tool) ==
    IF protocol = "responses" THEN QualifiedName(tool.space, tool.name) ELSE tool.name

Declared == {UpstreamName(t) : t \in Tools}

\* custom_tool_info: the first custom tool of that name.
CustomInfo(name) == {t \in Tools : protocol = "responses" /\ t.custom /\ UpstreamName(t) = name}

\* How a call of the model is shown to the client: a custom tool under its own name.
Shown(name) ==
    IF CustomInfo(name) # {} THEN CHOOSE t \in CustomInfo(name) : TRUE
    ELSE [custom |-> FALSE, space |-> <<>>, name |-> name]

\* Mutated form: a custom tool's call is taken under the name it was shown with.
ReplayedAsShown(item) == item.name

\* parse_custom_tool_call and parse_function_call: a replayed call's name.
ReplayedName(item) ==
    IF item.custom THEN QualifiedName(item.space, item.name) ELSE item.name

-----------------------------------------------------------------------------
Ids == DOMAIN shown

\* What the model asks for, and what the client makes of it in its next request.
Asked(name, complete) ==
    [id |-> Len(shown) + 1, name |-> ReplayedName(Shown(name)), complete |-> complete]

\* A stored call keeps the name that the upstream gave it.
AskedAndStored(name, complete) == [id |-> Len(shown) + 1, name |-> name, complete |-> complete]

Note(name) == shown' = Append(shown, [asked |-> name, item |-> Shown(name)])

HasRoom == items < MaxInputs
Number == items + 1
Counts == items' = items + 1

\* Mutated form: the first new call joins the stored answer.
CanMergeAlways == messages # <<>> /\ Last(messages).role = "assistant"

\* append_item: a call joins the assistant's message before it unless that was stored.
CanMerge == Len(messages) > previous /\ Last(messages).role = "assistant"

WithCall(message, call) == [message EXCEPT !.calls = Append(@, call)]
WithResult(message, result) == [message EXCEPT !.results = Append(@, result)]

\* append_item of a function_call or a custom_tool_call.
AppendCall(call) ==
    messages' = IF CanMerge
                THEN Front(messages) \o <<WithCall(Last(messages), call)>>
                ELSE Append(messages, WithCall(EmptyMessage("assistant"), call))

Calls(name, complete) ==
    /\ Len(shown) < MaxCalls
    /\ name \in Declared \union Strays
    /\ Note(name)

-----------------------------------------------------------------------------
(* The items of all three protocols                                         *)

\* A user's or an assistant's text: parse_message, or append_item of a message item.
MessageItem(role) ==
    /\ HasRoom /\ Counts
    /\ messages' = Append(messages, TextMessage(role, Number))
    /\ UNCHANGED <<protocol, previous, guidance, shown>>

\* Mutated form: a developer's message stays among the others.
GuidanceAsMessage(number) ==
    messages' = Append(messages, TextMessage("developer", number)) /\ UNCHANGED guidance

\* append_instruction, and the system_parts of Chat Completions.
Guides(number) == guidance' = Append(guidance, number) /\ UNCHANGED messages

\* A system or developer message, or the system field, guides the model.
GuidanceItem ==
    /\ HasRoom /\ Counts
    /\ Guides(Number)
    /\ UNCHANGED <<protocol, previous, shown>>

\* Chat Completions and Responses: one message for each result.
OutputItem(id) ==
    /\ protocol # "anthropic"
    /\ HasRoom /\ Counts
    /\ messages' = Append(messages, WithResult(EmptyMessage("tool"), [nr |-> Number, call |-> id]))
    /\ UNCHANGED <<protocol, previous, guidance, shown>>

-----------------------------------------------------------------------------
(* Responses                                                                *)

\* The model's call is replayed as an item of the input.
CallItem(name, complete) ==
    /\ protocol = "responses"
    /\ HasRoom /\ Counts
    /\ Calls(name, complete)
    /\ AppendCall(Asked(name, complete))
    /\ UNCHANGED <<protocol, previous, guidance>>

\* append_item of an opaque item, which is stored but never sent.
OpaqueItem ==
    /\ protocol = "responses"
    /\ HasRoom /\ Counts
    /\ UNCHANGED <<protocol, previous, messages, guidance, shown>>

\* The request is answered by calls and stored; the next one continues from it with an empty
\* input. The instructions are not stored.
ContinueFromStored(name, complete) ==
    /\ protocol = "responses" /\ messages # <<>> /\ Last(messages).role # "assistant"
    /\ HasRoom /\ Counts
    /\ Calls(name, complete)
    /\ messages' = Append(messages, WithCall(EmptyMessage("assistant"),
                                             AskedAndStored(name, complete)))
    /\ previous' = Len(messages')
    /\ guidance' = <<>>
    /\ UNCHANGED protocol

-----------------------------------------------------------------------------
(* Anthropic Messages and Chat Completions                                  *)

\* An assistant's message with one call, or one more call in it: all blocks, and all tool_calls,
\* of a message are one message.
AssistantCalls(name, complete, joins) ==
    /\ protocol # "responses"
    /\ HasRoom /\ Counts
    /\ Calls(name, complete)
    /\ joins => messages # <<>> /\ Last(messages).role = "assistant"
    /\ messages' =
           IF joins THEN Front(messages) \o <<WithCall(Last(messages), Asked(name, complete))>>
           ELSE Append(messages, WithCall(EmptyMessage("assistant"), Asked(name, complete)))
    /\ UNCHANGED <<protocol, previous, guidance>>

\* Anthropic: a tool_result block in a new user message, or in the user message that is last.
ResultBlock(id, joins) ==
    /\ protocol = "anthropic"
    /\ HasRoom /\ Counts
    /\ joins => messages # <<>> /\ Last(messages).role = "user"
    /\ LET result == [nr |-> Number, call |-> id]
       IN  messages' = IF joins THEN Front(messages) \o <<WithResult(Last(messages), result)>>
                       ELSE Append(messages, WithResult(EmptyMessage("user"), result))
    /\ UNCHANGED <<protocol, previous, guidance, shown>>

-----------------------------------------------------------------------------
InputInit ==
    /\ protocol \in Protocols
    /\ previous = 0
    /\ messages = <<>> /\ guidance = <<>>
    /\ items = 0
    /\ shown = <<>>

InputNext ==
    \/ \E role \in {"user", "assistant"} : MessageItem(role)
    \/ GuidanceItem
    \/ OpaqueItem
    \/ \E name \in Declared \union Strays, complete \in BOOLEAN :
          \/ CallItem(name, complete)
          \/ ContinueFromStored(name, complete)
          \/ \E joins \in BOOLEAN : AssistantCalls(name, complete, joins)
    \/ \E id \in Ids : OutputItem(id) \/ \E joins \in BOOLEAN : ResultBlock(id, joins)

InputSpec == InputInit /\ [][InputNext]_inputVars

\* transform_api_body of the request as it stands.
RequestBody == ConversationBody(messages, Declared, guidance)

-----------------------------------------------------------------------------
Count(seq, Test(_)) == Cardinality({i \in DOMAIN seq : Test(seq[i])})

Uses(body) == FlattenSeq([i \in DOMAIN body.history |-> body.history[i].uses])

Concat(turns, Part(_)) == FlattenSeq([i \in DOMAIN turns |-> Part(turns[i])])

AllOf(Part(_), body) == Concat(body.history, Part) \o Part(body)

\* The messages have the shape of their types, the stored ones are some of them, and what guides
\* the model is never one of them.
InputTypeOK ==
    /\ protocol \in Protocols
    /\ previous \in 0..Len(messages)
    /\ items \in 0..MaxInputs
    /\ \A i \in DOMAIN messages :
          /\ messages[i].role \in {"user", "assistant", "tool"}
          /\ \A c \in Range(messages[i].calls) : c.id \in Ids /\ c.complete \in BOOLEAN
          /\ \A r \in Range(messages[i].results) : r.call \in Ids /\ r.nr \in 1..items

\* The structures in a body are whole rounds: each call has one result and each result its call,
\* the call is of a tool that this body offers and has all its arguments, and it stands in the
\* last entry of the history, next to the results.
StructuresAreRounds ==
    LET body == RequestBody
        uses == Uses(body)
    IN  /\ \A c \in Range(uses) :
              /\ c.complete /\ c.name \in Declared
              /\ Count(body.toolResults, LAMBDA r : r.call = c.id) = 1
        /\ \A r \in Range(body.toolResults) : Count(uses, LAMBDA c : c.id = r.call) = 1
        /\ uses # <<>> => Last(body.history).uses = uses

\* Messages and guidance keep their shapes, and structures in a body are whole rounds of
\* calls and results (endpoint/mod.rs:258-330).
RoundsAreWhole == InputTypeOK /\ StructuresAreRounds

\* Every text, every call and every result of the messages, and every instruction, is in the body
\* once, as text or as a structure; only a second result for a call of the round is dropped.
NothingIsLost ==
    LET body == RequestBody
        uses == Uses(body)
        texts == AllOf(LAMBDA m : m.texts, body)
        calls == AllOf(LAMBDA m : m.calls, body) \o uses
        results == AllOf(LAMBDA m : m.results, body) \o body.toolResults
    IN  /\ texts = Concat(messages, LAMBDA m : m.texts)
        /\ body.guidance = guidance
        /\ \A id \in Ids : Count(calls, LAMBDA c : c.id = id) = 1
        /\ \A r \in Range(Concat(messages, LAMBDA m : m.results)) :
              LET answers == Count(results, LAMBDA x : x.nr = r.nr)
              IN  IF \E c \in Range(uses) : c.id = r.call
                  THEN answers <= 1 /\ \E x \in Range(body.toolResults) : x.call = r.call
                  ELSE answers = 1

\* A call is one of the last round if nothing but results follows the assistant's message it is
\* in; that message is the client's replay of one answer, or the stored one.
LastTurn ==
    LET turns == {i \in DOMAIN messages : messages[i].role = "assistant"}
    IN  IF turns = {} THEN 0 ELSE Max(turns)

\* The round that a request answers is sent as structures: if the last answer of the model called
\* offered tools, whole calls only, and all that follows are results, each call having one, then
\* its calls are in the body as structures, whatever names the client knows the tools by.
CurrentRoundIsNative ==
    LET turn == messages[LastTurn]
    IN  (/\ LastTurn > 0 /\ LastTurn < Len(messages)
         /\ turn.calls # <<>>
         /\ \A c \in Range(turn.calls) : shown[c.id].asked \in Declared /\ c.complete
         /\ \A j \in (LastTurn + 1)..Len(messages) : messages[j].results # <<>>
         /\ IdsOf(turn.calls) \subseteq AnsweredAfter(messages, LastTurn))
        => Uses(RequestBody) = turn.calls

\* The answer of a stored response is not altered by what the next request brings: a call that the
\* client adds never joins calls that the model asked for in the stored answer, of which some may
\* have no result.
StoredIsKept == [][SubSeq(messages', 1, previous) = SubSeq(messages, 1, previous)]_inputVars
=============================================================================
