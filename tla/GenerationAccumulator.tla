------------------------ MODULE GenerationAccumulator ------------------------
(***************************************************************************)
(* GenerationAccumulator (upstream/accumulator.rs): the one result that    *)
(* events add up to, and what the protocols say of it                      *)
(* (transform/converter.rs).                                               *)
(*                                                                         *)
(* Its StreamIntegrity is written and never read, and is left out.         *)
(***************************************************************************)
EXTENDS GenerationEvents, ToolCallAccumulator, XmlLeakFilter

NewAccumulator ==
    [text |-> <<>>, thinking |-> <<>>, filter |-> <<>>, tools |-> NoTools, reason |-> "", usage |-> FALSE]

\* Mutated form: text reaches the result past the filter.
ApplyUnfiltered(acc, event) ==
    CASE event.kind = "text"     -> [acc EXCEPT !.text = @ \o event.text]
      [] event.kind = "thinking" -> [acc EXCEPT !.thinking = @ \o event.text]
      [] event.kind = "start"    -> [acc EXCEPT !.tools = StartCall(@, event.id, event.name)]
      [] event.kind = "delta"    -> [acc EXCEPT !.tools = AppendFragment(@, event.id, event.arguments)]
      [] event.kind = "end"      -> [acc EXCEPT !.tools = FinishWithState(@, event.id, event.complete)]
      [] event.kind = "usage"    -> [acc EXCEPT !.usage = TRUE]
      [] event.kind = "stop"     -> [acc EXCEPT !.reason = event.reason]
\* apply_event; an error is reported by its callers before.
ApplyEvent(acc, event) ==
    CASE event.kind = "text"     -> LET drained == FilterPush(acc.filter, event.text)
                                    IN  [acc EXCEPT !.text = @ \o drained.output,
                                                    !.filter = drained.pending]
      [] event.kind = "thinking" -> [acc EXCEPT !.thinking = @ \o event.text]
      [] event.kind = "start"    -> [acc EXCEPT !.tools = StartCall(@, event.id, event.name)]
      [] event.kind = "delta"    -> [acc EXCEPT !.tools = AppendFragment(@, event.id, event.arguments)]
      [] event.kind = "end"      -> [acc EXCEPT !.tools = FinishWithState(@, event.id, event.complete)]
      [] event.kind = "usage"    -> [acc EXCEPT !.usage = TRUE]
      [] event.kind = "stop"     -> [acc EXCEPT !.reason = event.reason]

\* Mutated form: an answer that hit the limit of tokens passes for complete.
CutOffByOthers == {"context_window_exceeded", "refusal", "stream_incomplete"}
CutOff == {"max_tokens", "context_window_exceeded", "refusal", "stream_incomplete"}

\* finish and finish_result
Finished(acc) ==
    LET calls == FinishAll(acc.tools)
        text == acc.text \o FilterFinish(acc.filter).output
        truncated == acc.reason = "" /\ calls = <<>> /\ (text # <<>> \/ acc.thinking # <<>>)
    IN  [text |-> text, thinking |-> acc.thinking, calls |-> calls, usage |-> acc.usage,
         reason |-> acc.reason,
         incomplete |-> (\E i \in DOMAIN calls : ~calls[i].complete) \/ truncated \/ acc.reason \in CutOff]

\* What AppState::complete refuses to give to a client that does not stream.
IsEmptyAnswer(result) ==
    result.text = <<>> /\ result.thinking = <<>> /\ result.calls = <<>> /\ result.reason = ""

-----------------------------------------------------------------------------
(* What a result is called in each protocol.                                *)

AnthropicStopReason(result) ==
    CASE result.incomplete -> "max_tokens"
      [] ~result.incomplete /\ result.calls # <<>> -> "tool_use"
      [] ~result.incomplete /\ result.calls = <<>> ->
            IF result.reason \in {"stop_sequence", "pause_turn"} THEN result.reason ELSE "end_turn"

ChatFinishReason(result) ==
    CASE result.incomplete -> "length"
      [] ~result.incomplete /\ result.calls # <<>> -> "tool_calls"
      [] ~result.incomplete /\ result.calls = <<>> -> "stop"

\* "" for a complete answer
ResponsesIncompleteReason(result) ==
    CASE result.reason \in {"max_tokens", "context_window_exceeded"} -> "max_output_tokens"
      [] result.reason = "refusal" -> "content_filter"
      [] result.reason = "stream_incomplete" -> "error"
      [] result.reason \notin CutOff -> IF result.incomplete THEN "max_output_tokens" ELSE ""

\* anthropic_response without its text: the tool_use blocks.
ToolUses(result) ==
    [i \in DOMAIN result.calls |->
        [id |-> result.calls[i].id, name |-> result.calls[i].name, input |-> result.calls[i].arguments]]
=============================================================================
