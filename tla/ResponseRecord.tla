--------------------------- MODULE ResponseRecord ---------------------------
(***************************************************************************)
(* What the Responses store promises of one stored response, whoever talks *)
(* to it and in whatever order: a record is created once, its lifecycle    *)
(* events only accumulate while it is in progress, it is closed at most    *)
(* once by a terminal event that agrees with its final status, a closed    *)
(* record never changes again, and a deleted one never comes back.         *)
(* Responses.tla, the model of the code, is shown to implement this.       *)
(***************************************************************************)
EXTENDS Sequences, Naturals

CONSTANT Ids              \* the response identifiers

VARIABLES state,          \* state[id]: status of the record, or "absent" or "deleted"
          history         \* history[id]: types of its lifecycle events, in order

recordVars == <<state, history>>

\* The terminal statuses; each is also the name of the event that announces it.
Final == {"completed", "incomplete", "failed"}

\* Types of the events that leave a record in progress. "item" stands for all
\* the output_item, content_part, output_text, reasoning and tool events.
Progress == {"created", "in_progress", "item"}

RecordInit ==
    /\ state   = [id \in Ids |-> "absent"]
    /\ history = [id \in Ids |-> <<>>]

Open(id) ==
    /\ state[id] = "absent"
    /\ state' = [state EXCEPT ![id] = "in_progress"]
    /\ UNCHANGED history

Extend(id) ==
    /\ state[id] = "in_progress"
    /\ \E type \in Progress :
          history' = [history EXCEPT ![id] = Append(@, type)]
    /\ UNCHANGED state

\* One transaction moves the status and appends the closing events, of which
\* the last, and only the last, is terminal and names the status.
Close(id) ==
    /\ state[id] = "in_progress"
    /\ \E final \in Final :
          /\ state' = [state EXCEPT ![id] = final]
          /\ \E before \in {<<>>, <<"created", "in_progress">>,
                            <<"created", "in_progress", "item">>} :
                history' = [history EXCEPT ![id] = @ \o Append(before, final)]

Remove(id) ==
    /\ state[id] \notin {"absent", "deleted"}
    /\ state'   = [state EXCEPT ![id] = "deleted"]
    /\ history' = [history EXCEPT ![id] = <<>>]

RecordNext == \E id \in Ids : Open(id) \/ Extend(id) \/ Close(id) \/ Remove(id)

RecordSpec == RecordInit /\ [][RecordNext]_recordVars

=============================================================================
