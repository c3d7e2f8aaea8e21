------------------------- MODULE ToolCallAccumulator -------------------------
(***************************************************************************)
(* ToolCallAccumulator (upstream/tool_state.rs): puts the fragments of     *)
(* tool calls together, with ids that come late or never.                  *)
(*                                                                         *)
(* buffers maps the key of a call to what is known of it, order lists the  *)
(* keys as they arrived, last is the key that a fragment without an id     *)
(* belongs to, or "".                                                      *)
(***************************************************************************)
EXTENDS Sequences, Naturals, Functions, TLC

NoTools == [buffers |-> <<>>, order |-> <<>>, last |-> ""]

GeneratedId(n) == "tool_call_" \o ToString(n)

\* arguments_are_complete: nothing, or the text of one JSON object.
AreComplete(arguments) ==
    \/ arguments = <<>>
    \/ /\ Len(arguments) > 1 /\ arguments[1] = "{" /\ arguments[Len(arguments)] = "}"
       /\ \A i \in 2..(Len(arguments) - 1) : arguments[i] \notin {"{", "}"}

IsOpen(tools, key) == key \in DOMAIN tools.buffers /\ ~tools.buffers[key].ended
LastOpenTool(tools) == IF IsOpen(tools, tools.last) THEN tools.last ELSE ""

InsertBuffer(tools, key, name, generated) ==
    LET buffer == [name |-> name, arguments |-> <<>>, complete |-> FALSE,
                   ended |-> FALSE, generated |-> generated]
    IN  [buffers |-> [k \in DOMAIN tools.buffers \cup {key} |->
                          IF k = key THEN buffer ELSE tools.buffers[k]],
         order |-> Append(tools.order, key),
         last |-> key]

CompleteBuffer(tools, key, complete) ==
    IF key \notin DOMAIN tools.buffers THEN tools
    ELSE [tools EXCEPT !.buffers[key].complete = complete /\ AreComplete(tools.buffers[key].arguments),
                       !.buffers[key].ended = TRUE]

\* rebind_generated: an open call that came without an id gets the one that came late.
CanRebind(tools, name) ==
    LET last == LastOpenTool(tools)
    IN  last # "" /\ tools.buffers[last].generated /\ name \in {"", tools.buffers[last].name}
RebindGenerated(tools, id) ==
    LET last == LastOpenTool(tools)
    IN  [buffers |-> [k \in (DOMAIN tools.buffers \ {last}) \cup {id} |->
                          IF k = id THEN [tools.buffers[last] EXCEPT !.generated = FALSE]
                                    ELSE tools.buffers[k]],
         order |-> [i \in DOMAIN tools.order |-> IF tools.order[i] = last THEN id ELSE tools.order[i]],
         last |-> id]

\* Mutated form: a call that is known starts again.
StartAgain(tools, id, name) ==
    IF CanRebind(tools, name) THEN RebindGenerated(tools, id)
    ELSE IF name = "" THEN tools
    ELSE InsertBuffer(tools, id, name, FALSE)
StartWithId(tools, id, name) ==
    CASE id \in DOMAIN tools.buffers -> [tools EXCEPT !.last = id]
      [] id \notin DOMAIN tools.buffers /\ CanRebind(tools, name) -> RebindGenerated(tools, id)
      [] id \notin DOMAIN tools.buffers /\ ~CanRebind(tools, name) ->
            IF name = "" THEN tools ELSE InsertBuffer(tools, id, name, FALSE)

\* A name other than that of the open call starts another one and ends it.
StartWithoutId(tools, name) ==
    LET last == LastOpenTool(tools)
        fresh == GeneratedId(Len(tools.order) + 1)
    IN  IF name = "" \/ (last # "" /\ tools.buffers[last].name = name)
          THEN tools
          ELSE InsertBuffer(CompleteBuffer(tools, last, TRUE), fresh, name, TRUE)

\* Mutated form: a call without an id always starts anew.
StartAnew(tools, id, name) ==
    IF id # "" THEN StartWithId(tools, id, name)
    ELSE IF name = "" THEN tools
    ELSE InsertBuffer(tools, GeneratedId(Len(tools.order) + 1), name, TRUE)
StartCall(tools, id, name) ==
    IF id # "" THEN StartWithId(tools, id, name) ELSE StartWithoutId(tools, name)

AppendFragment(tools, id, fragment) ==
    LET key == IF id # "" THEN id ELSE LastOpenTool(tools)
    IN  IF ~IsOpen(tools, key) THEN tools
        ELSE [tools EXCEPT !.buffers[key].arguments = @ \o fragment,
                           !.buffers[key].complete = FALSE, !.last = key]

FinishWithState(tools, id, complete) ==
    LET key == IF id # "" THEN id ELSE tools.last
    IN  [CompleteBuffer(tools, key, complete) EXCEPT !.last = IF @ = key THEN "" ELSE @]

\* finish_all and to_call: the calls in their order of arrival.
FinishAll(tools) ==
    [i \in DOMAIN tools.order |->
        LET buffer == tools.buffers[tools.order[i]]
        IN  [id |-> tools.order[i], name |-> buffer.name, arguments |-> buffer.arguments,
             complete |-> IF buffer.ended THEN buffer.complete ELSE AreComplete(buffer.arguments)]]
=============================================================================
