----------------------------- MODULE MCJsonEvents -----------------------------
(* Answers, and the JSON shapes in which an upstream sends them.               *)
EXTENDS JsonEvents
LOCAL INSTANCE SequencesExt

Field(key, v) == IF v = Absent THEN <<>> ELSE << <<key, v>> >>
Text1(x) == Str(<<x>>)

Call(id, arguments, complete) == [id |-> id, arguments |-> arguments, complete |-> complete]

Simple == Call(<<"a">>, Object(<< <<"q", Null>> >>), TRUE)
CallLists ==
    {<<>>, <<Simple>>, <<Simple, Call(<<"b">>, Object(<<>>), FALSE)>>}
    \cup {<<Call(<<"a">>, v, TRUE)>> : v \in {Str(<<>>), Str(<<"{", "}">>), Str(<<"{">>), Array(<<>>)}}
    \cup {<<Call(<<>>, Str(<<>>), TRUE), Call(<<>>, Str(<<"{">>), TRUE)>>}
\* Arguments with the keys of an answer, and twins without an id.
MisleadingCallLists ==
    {<<Call(<<"a">>, Object(<< <<key, Text1("file")>> >>), TRUE)>> : key \in {"content", "stopReason"}}
    \cup {<<Call(<<>>, Str(<<>>), TRUE), Call(<<>>, Str(<<>>), TRUE)>>}

Answers(lists) ==
    [text : {<<>>, <<"t">>}, thinking : BOOLEAN, calls : lists, usage : BOOLEAN, reason : {"", "max_tokens"}]

\* The events of an answer as its event stream would give them.
EventsOf(a) ==
    Optional(a.text # <<>>, TextDelta(a.text))
    \o Optional(a.thinking, ThinkingDelta(<<"r">>))
    \o FlattenSeq([i \in DOMAIN a.calls |->
           LET c == a.calls[i]
               end == Arguments(c.arguments)
           IN  CallEvents([id |-> c.id, name |-> <<"n">>, arguments |-> end.text,
                           complete |-> c.complete /\ end.complete])])
    \o Optional(a.usage, Usage)
    \o <<Stop(IF a.reason = "" THEN "end_turn" ELSE a.reason)>>

Completion(c, style) ==
    IF c.complete THEN <<>>
    ELSE IF style = "runtime" THEN << <<"complete", Flag(FALSE)>> >> ELSE << <<"status", Text1("incomplete")>> >>
Item(c, style) ==
    CASE style = "runtime" ->
            Object(Completion(c, style) \o << <<"input", c.arguments>>, <<"name", Text1("n")>>, <<"toolUseId", Str(c.id)>> >>)
      [] style = "responses" ->
            Object(<< <<"arguments", c.arguments>>, <<"call_id", Str(c.id)>>, <<"name", Text1("n")>> >>
                   \o Completion(c, style) \o << <<"type", Text1("function_call")>> >>)
      [] style = "chat" ->
            Object(<< <<"function", Object(<< <<"arguments", c.arguments>>, <<"name", Text1("n")>> >>)>>,
                      <<"id", Str(c.id)>> >> \o Completion(c, style) \o << <<"type", Text1("function")>> >>)
Items(a, style) == [i \in DOMAIN a.calls |-> Item(a.calls[i], style)]

TextItem(a) == Object(<< <<"text", Str(a.text)>>, <<"type", Text1("output_text")>> >>)
Tail3(a) == Field("usage", IF a.usage THEN Object(<<>>) ELSE Absent)
Reason(a, key) == Field(key, IF a.reason = "" THEN Absent ELSE Text1(a.reason))
Thinking(a, key) == Field(key, IF a.thinking THEN Text1("r") ELSE Absent)

Shaped(a, style) ==
    CASE style = "runtime" ->
            << <<"content", Str(a.text)>> >> \o Reason(a, "stopReason") \o Thinking(a, "thinking")
            \o << <<"toolUses", Array(Items(a, style))>> >> \o Tail3(a)
      [] style = "responses" ->
            << <<"output", Array(<<Object(<< <<"content", Array(IF a.text = <<>> THEN <<>> ELSE <<TextItem(a)>>)>>,
                                             <<"type", Text1("message")>> >>)>>
                                 \o Items(a, style))>> >>
            \o Thinking(a, "reasoning") \o Reason(a, "stop_reason") \o Tail3(a)
      [] style = "chat" ->
            Reason(a, "finish_reason") \o << <<"output_text", Str(a.text)>> >> \o Thinking(a, "reasoningText")
            \o << <<"toolCalls", IF Len(a.calls) = 1 THEN Items(a, style)[1] ELSE Array(Items(a, style))>> >>
            \o Tail3(a)

Wrapped(fields, depth) ==
    CASE depth = 0 -> Object(fields)
      [] depth = 1 -> Object(<< <<"assistantResponseEvent", Object(fields)>> >>)
      [] depth = 2 -> Object(<< <<"response", Object(<< <<"message", Object(fields)>> >>)>> >>)

Body(value, events, plain) == [value |-> value, events |-> events, plain |-> plain]
AnswerBodies(lists, plain) ==
    {Body(Wrapped(Shaped(a, style), depth), EventsOf(a), plain) :
        a \in Answers(lists), style \in {"runtime", "responses", "chat"}, depth \in 0..2}

Deep == Object(<< <<"a", Object(<< <<"b", Wrapped(<< <<"content", Text1("t")>> >>, 2)>> >>)>> >>)
OtherBodies ==
    {Body(Object(<< <<"error", Text1("overloaded")>>, <<"content", Text1("t")>> >>), <<Error>>, TRUE),
     Body(Object(<< <<"Output", Object(<< <<"__type", Text1("e")>>, <<"message", Text1("m")>> >>)>> >>), <<Error>>, TRUE),
     Body(Object(<< <<"message", Text1("completed")>> >>), <<>>, TRUE),
     Body(Object(<< <<"status", Text1("ok")>> >>), <<>>, TRUE),
     Body(Object(<< <<"response", Object(<< <<"status", Text1("completed")>> >>)>> >>), <<Stop("end_turn")>>, TRUE),
     Body(Array(<<>>), <<>>, TRUE),
     Body(Array([i \in 1..20 |-> Text1("x")]), <<>>, TRUE),
     Body(Wrapped(<< <<"a", Wrapped(<< <<"b", Deep>> >>, 2)>> >>, 2), <<>>, TRUE)}

MCBodies == AnswerBodies(CallLists, TRUE) \cup AnswerBodies(MisleadingCallLists, FALSE) \cup OtherBodies
=============================================================================
