------------------------------ MODULE JsonEvents ------------------------------
(***************************************************************************)
(* decode_events (upstream/json.rs): a JSON answer of any of the shapes    *)
(* that the upstream is known to send, as generation events.               *)
(*                                                                         *)
(* A JSON value is a record; an object is a sequence of key-value pairs,   *)
(* in the order of its map.  An Option is <<>> or <<value>>.               *)
(***************************************************************************)
EXTENDS GenerationEvents
LOCAL INSTANCE SequencesExt

CONSTANTS Bodies,    \* bodies, each with the events that its answer stands for
          MaxDepth,  \* MAX_JSON_DEPTH
          MaxNodes,  \* MAX_JSON_NODES
          MaxItems   \* items of an array that are looked at

Str(text) == [type |-> "string", text |-> text]
Object(fields) == [type |-> "object", fields |-> fields]
Array(items) == [type |-> "array", items |-> items]
Flag(value) == [type |-> "bool", value |-> value]
Null == [type |-> "null"]
Absent == [type |-> "absent"]

Get(v, key) ==
    IF v.type = "object" /\ \E i \in DOMAIN v.fields : v.fields[i][1] = key
      THEN v.fields[CHOOSE i \in DOMAIN v.fields : v.fields[i][1] = key][2]
      ELSE Absent
Has(v, key) == Get(v, key) # Absent
\* The value of the first of these keys that is there.
GetAny(v, keys) ==
    LET there == SelectSeq(keys, LAMBDA k : Has(v, k))
    IN  IF there = <<>> THEN Absent ELSE Get(v, there[1])

\* find_map over a sequence of Options
FirstSome(options) ==
    LET some == SelectSeq(options, LAMBDA o : o # <<>>)
    IN  IF some = <<>> THEN <<>> ELSE some[1]

-----------------------------------------------------------------------------
(* Looking for the parts of an answer                                       *)

RECURSIVE ValueText(_), Nodes(_), Depth(_)

ValueText(v) ==
    CASE v.type = "string" -> <<v.text>>
      [] v.type = "object" ->
            FirstSome([i \in 1..4 |-> ValueText(Get(v, <<"text", "output_text", "outputText", "content">>[i]))])
      [] v.type = "array" ->
            LET text == FlattenSeq(FlattenSeq([i \in DOMAIN v.items |-> ValueText(v.items[i])]))
            IN  IF text = <<>> THEN <<>> ELSE <<text>>
      [] OTHER -> <<>>

\* text: the first of the names that holds one
TextOf(node, names) ==
    FirstSome([i \in DOMAIN names |->
        LET v == Get(node, names[i])
        IN  IF v.type = "object" THEN ValueText(GetAny(v, <<"text", "outputText", "content">>))
                                 ELSE ValueText(v)])

Children(v) ==
    CASE v.type = "object" -> [i \in DOMAIN v.fields |-> v.fields[i][2]]
      [] v.type = "array"  -> SubSeq(v.items, 1, IF Len(v.items) < MaxItems THEN Len(v.items) ELSE MaxItems)
      [] OTHER -> <<>>
\* collect_nodes
Nodes(v) == <<v>> \o FlattenSeq([i \in DOMAIN Children(v) |-> Nodes(Children(v)[i])])
Depth(v) ==
    LET below == {Depth(Children(v)[i]) : i \in DOMAIN Children(v)}
    IN  IF below = {} THEN 0 ELSE 1 + CHOOSE d \in below : \A e \in below : e <= d

HasErrorMessage(node) ==
    /\ Get(node, "__type").type = "string"
    /\ Get(node, "message").type = "string" /\ Get(node, "message").text # <<>>

\* Mutated form: a list without items does not count.
IsEmptyTextOnly(node) ==
    \/ \E key \in {"content", "output"} : Get(node, key) = Str(<<>>)
    \/ Get(node, "status") \in {Str(<<s>>) : s \in {"complete", "completed", "succeeded"}}
IsExplicitlyEmpty(node) ==
    \/ \E key \in {"content", "output"} : Get(node, key) \in {Str(<<>>), Array(<<>>)}
    \/ Get(node, "status") \in {Str(<<s>>) : s \in {"complete", "completed", "succeeded"}}

-----------------------------------------------------------------------------
(* Tool calls                                                               *)

\* The arguments that text holds; Null stands for an object or value that is there.
\* (serde_json::from_str)
IsObjectText(raw) == Len(raw) > 1 /\ raw[1] = "{" /\ raw[Len(raw)] = "}"
Rendered(v) == IF v.type = "object" THEN <<"{">> \o [i \in DOMAIN v.fields |-> v.fields[i][1]] \o <<"}">>
                                    ELSE <<"value">>
Arguments(v) ==
    CASE v.type = "absent" \/ v = Str(<<>>) -> [text |-> <<"{", "}">>, complete |-> TRUE]
      [] v.type = "string" /\ v # Str(<<>>) -> [text |-> v.text, complete |-> IsObjectText(v.text)]
      [] v.type = "object" -> [text |-> Rendered(v), complete |-> TRUE]
      [] OTHER -> [text |-> Rendered(v), complete |-> FALSE]

\* x, or what x has under a key of its "function", as OpenAI nests it.
OrFunction(x, item, key) == IF x # Absent THEN x ELSE Get(Get(item, "function"), key)

ParseItem(item) ==
    LET id == GetAny(item, <<"toolUseId", "tool_use_id", "call_id", "id">>)
        name == OrFunction(GetAny(item, <<"name", "toolName">>), item, "name")
        arguments == Arguments(OrFunction(GetAny(item, <<"input", "arguments">>), item, "arguments"))
        kind == Get(item, "type")
    IN  IF \/ kind.type = "string" /\ kind \notin {Str(<<k>>) : k \in {"function_call", "tool_use", "function"}}
           \/ id.type # "string" \/ name.type # "string"
          THEN <<>>
          ELSE << [id |-> id.text, name |-> name.text, arguments |-> arguments.text,
                   complete |-> /\ Get(item, "complete") # Flag(FALSE)
                                /\ arguments.complete
                                /\ Get(item, "status") \notin
                                       {Str(<<s>>) : s \in {"incomplete", "failed", "cancelled"}}] >>

CallKeys == <<"toolUses", "tool_uses", "toolUse", "toolCalls", "tool_calls", "toolCall", "output">>
ParseToolCalls(node) ==
    LET items == FlattenSeq([i \in DOMAIN CallKeys |->
                     LET v == Get(node, CallKeys[i])
                     IN  CASE v.type = "array" -> v.items [] v.type = "object" -> <<v>> [] OTHER -> <<>>])
        itself == items = <<>> /\ Has(node, "name") /\ (Has(node, "input") \/ Has(node, "arguments"))
        all == IF itself THEN <<node>> ELSE items
    IN  FlattenSeq([i \in DOMAIN all |-> ParseItem(all[i])])

DedupeKey(call) == IF call.id = <<>> THEN <<call.name, call.arguments>> ELSE <<call.id>>

\* A call is found at the node that lists it and again at its own node.
\* Mutated form: no call is dropped.
Undeduplicated(calls) == calls
Deduplicated(calls) ==
    LET first(i) == \A j \in 1..(i - 1) : DedupeKey(calls[j]) # DedupeKey(calls[i])
        kept == SelectSeq([i \in DOMAIN calls |-> i], first)
    IN  [k \in DOMAIN kept |-> calls[kept[k]]]

IdOf(call) == IF call.id = <<>> THEN "" ELSE call.id[1]
CallEvents(call) ==
    <<ToolCallStart(IdOf(call), call.name[1]), ToolCallDelta(IdOf(call), call.arguments),
      ToolCallEnd(IdOf(call), call.complete)>>

-----------------------------------------------------------------------------
(* decode_events                                                            *)

Pending == [kind |-> "pending", events |-> <<>>]
Failed == [kind |-> "integrity", events |-> <<>>]
Decoded(events) == [kind |-> "events", events |-> events]

Said(text) == SelectSeq(text, LAMBDA t : t # <<>>)

DecodeAnswer(nodes) ==
    LET find(names) == FirstSome([i \in DOMAIN nodes |-> TextOf(nodes[i], names)])
        text == find(<<"content", "text", "output_text", "outputText">>)
        thinking == find(<<"thinking", "reasoning", "reasoningText">>)
        calls == Deduplicated(FlattenSeq([i \in DOMAIN nodes |-> ParseToolCalls(nodes[i])]))
        usage == \E i \in DOMAIN nodes : Has(nodes[i], "usage")
        reason == FirstSome([i \in DOMAIN nodes |->
                      FirstSome([k \in 1..4 |->
                          LET v == Get(nodes[i], <<"stopReason", "stop_reason", "finish_reason", "finishReason">>[k])
                          IN  IF v.type = "string" THEN <<v.text>> ELSE <<>>])])
        recognized == \/ \E i \in DOMAIN nodes : IsExplicitlyEmpty(nodes[i])
                      \/ text # <<>> \/ thinking # <<>> \/ calls # <<>> \/ usage \/ reason # <<>>
    IN  IF ~recognized THEN Failed
        ELSE Decoded(Optional(Said(text) # <<>>, TextDelta(text[1]))
                     \o Optional(Said(thinking) # <<>>, ThinkingDelta(thinking[1]))
                     \o FlattenSeq([i \in DOMAIN calls |-> CallEvents(calls[i])])
                     \o Optional(usage, Usage)
                     \o <<Stop(IF reason = <<>> THEN "end_turn" ELSE reason[1][1])>>)

IsError(value, nodes) == Has(value, "error") \/ \E i \in DOMAIN nodes : HasErrorMessage(nodes[i])

\* Mutated form: what else the body of an error holds is decoded too.
DecodeErrorToo(value) ==
    LET nodes == Nodes(value)
    IN  CASE Len(nodes) > MaxNodes \/ Depth(value) > MaxDepth -> Failed
          [] OTHER -> Decoded(Optional(IsError(value, nodes), Error) \o DecodeAnswer(nodes).events)
DecodeEvents(value) ==
    LET nodes == Nodes(value)
    IN  IF Len(nodes) > MaxNodes \/ Depth(value) > MaxDepth THEN Failed
        ELSE IF IsError(value, nodes) THEN Decoded(<<Error>>)
        ELSE DecodeAnswer(nodes)

-----------------------------------------------------------------------------
VARIABLES body,    \* a JSON body with the events it stands for
          result   \* of decode_events

vars == <<body, result>>

Init == body \in Bodies /\ result = Pending

Decode == result = Pending /\ result' = DecodeEvents(body.value) /\ UNCHANGED body

Done == result # Pending /\ UNCHANGED vars

Next == Decode \/ Done

Spec == Init /\ [][Next]_vars

-----------------------------------------------------------------------------
(* Properties                                                               *)

\* What event_stream relies on (request.rs:131-143): a body is a sequence of events
\* with one stop or error, at its end.
EndsOnce ==
    result.kind = "events" =>
        /\ result.events \in Seq(Events) /\ result.events # <<>>
        /\ \A i \in DOMAIN result.events : IsTerminal(result.events[i]) = (i = Len(result.events))

\* Every tool call comes out once, however often its object is found (json.rs:60).
CallsComeOnce ==
    \A i, j \in DOMAIN result.events :
        LET start == result.events[i]
            other == result.events[j]
        IN  start.kind = "start" /\ other.kind = "start" /\ i # j =>
                \/ start.id # other.id
                \/ start.id = "" /\ SubSeq(result.events, i, i + 1) # SubSeq(result.events, j, j + 1)

\* A body becomes the events that the same answer would be in an event stream.
SameLogicalEvents ==
    result # Pending => result = IF body.events = <<>> THEN Failed ELSE Decoded(body.events)

\* In whichever of its shapes an answer comes, its events are the same; what is no
\* answer is an error and never an empty one (json.rs:13-15).  Arguments that look like
\* an answer, and calls without an id that look alike, are left out: their text, reason
\* and number are not what the comment there promises.
ShapeIsInvisible == body.plain => SameLogicalEvents
=============================================================================
