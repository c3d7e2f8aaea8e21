------------------------------ MODULE Completion ------------------------------
(***************************************************************************)
(* AppState::complete: what a client that does not stream gets.  drive     *)
(* (http/stream.rs) puts every event of the upstream into one accumulator. *)
(***************************************************************************)
EXTENDS GenerationStream, GenerationAccumulator

VARIABLES acc,    \* the accumulator of the driver
          answer  \* [kind |-> "pending"], "error" or "result"

vars == <<streamVars, acc, answer>>

Pending == [kind |-> "pending"]
Refused == [kind |-> "error"]
Answered(result) == [kind |-> "result", result |-> result]

Init == StreamInit /\ acc = NewAccumulator /\ answer = Pending

Push ==
    \E event \in {queue[i] : i \in DOMAIN queue} :
        /\ answer = Pending /\ event.kind # "error" /\ Takes(event)
        /\ acc' = ApplyEvent(acc, event)
        /\ UNCHANGED answer

\* push returns what the upstream reported, and drive gives up.
ErrorComes ==
    /\ answer = Pending /\ Takes(Error)
    /\ answer' = Refused
    /\ UNCHANGED acc

\* Mutated form: what came before the failure is answered.
StreamFailsQuietly ==
    /\ answer = Pending /\ AtFailure
    /\ answer' = IF IsEmptyAnswer(Finished(acc)) THEN Refused ELSE Answered(Finished(acc))
    /\ UNCHANGED <<streamVars, acc>>
StreamFails ==
    /\ answer = Pending /\ AtFailure
    /\ answer' = Refused
    /\ UNCHANGED <<streamVars, acc>>

Finish ==
    /\ answer = Pending /\ AtEnd
    /\ answer' = IF IsEmptyAnswer(Finished(acc)) THEN Refused ELSE Answered(Finished(acc))
    /\ UNCHANGED <<streamVars, acc>>

Done == answer # Pending /\ UNCHANGED vars

Next == (answer = Pending /\ StreamStep /\ UNCHANGED <<acc, answer>>)
            \/ Push \/ ErrorComes \/ StreamFails \/ Finish \/ Done

Spec == Init /\ [][Next]_vars

-----------------------------------------------------------------------------
(* Properties                                                               *)

Result == answer.result
Calls(result) == [i \in DOMAIN result.calls |->
    [id |-> result.calls[i].id, name |-> result.calls[i].name, arguments |-> result.calls[i].arguments]]

\* Every fragment of arguments ends up in the call that it belongs to, whether the
\* calls come with ids, interleaved or not, or one after the other without them, or
\* with an id that comes late (tool_state.rs:33-66, 88-111).
CallsAreWhole ==
    answer.kind = "result" =>
        /\ HasIds(seen) => Calls(Result) = CallsById(seen)
        /\ HasNoIds(seen) =>
               [i \in DOMAIN Result.calls |->
                    [name |-> Result.calls[i].name, arguments |-> Result.calls[i].arguments]] = CallsInTurn(seen)
        /\ HasLateId(seen) =>
               /\ Len(Result.calls) = 1 /\ Result.calls[1].id # GeneratedId(1)
               /\ Result.calls[1].arguments = Arguments(seen)

\* No two calls of an answer share an id, not even with one that was made up for a call
\* that had none (tool_state.rs:84), and every call of an answer has a name.
CallsAreDistinct ==
    answer.kind = "result" =>
        \A i, j \in DOMAIN Result.calls :
            /\ Result.calls[i].name # ""
            /\ Result.calls[i].id = Result.calls[j].id => i = j

\* An answer passes for complete only if the upstream said that it was done, with a
\* reason that cuts nothing off or with the end of a call, and the arguments of all its
\* calls are (accumulator.rs:91-111).
CompleteIsTrue ==
    answer.kind = "result" /\ ~Result.incomplete =>
        /\ \E i \in DOMAIN seen : MarksCompletion(seen[i])
        /\ \A i \in DOMAIN Result.calls : AreComplete(Result.calls[i].arguments)
        /\ \A i \in DOMAIN seen : seen[i] # Stop("max_tokens") \/ \E j \in (i + 1)..Len(seen) : seen[j].kind = "stop"

\* What went wrong is never an answer, and an answer that holds nothing is an error
\* (app_state.rs:44-50).
FailureIsNoAnswer ==
    answer.kind = "result" => /\ upstream = "ended"
                              /\ \A i \in DOMAIN seen : seen[i] # Error
                              /\ \E i \in DOMAIN seen : seen[i].kind \notin {"usage", "end", "delta"}
=============================================================================
