------------------------------ MODULE Responses ------------------------------
(***************************************************************************)
(* The life of POST /v1/responses: the handler (http/responses/handler.rs) *)
(* and the live stream (live.rs, lifecycle.rs) of every request, composed  *)
(* with the store actor they share (ResponseStore.tla), with DELETE        *)
(* requests, clients that disconnect, an actor thread that ends and a      *)
(* process that is killed and restarted. A task runs without interruption  *)
(* from one await to the next, so each action goes from one await to the   *)
(* next one.                                                               *)
(***************************************************************************)
EXTENDS ResponseStore

CONSTANTS
    MaxItems,       \* bound: "item" events a live stream emits
    MaxCrashes,     \* bound: how often the process is killed and restarted
    ActorMayStop,   \* may the actor thread end while the process goes on?
    MayDisconnect   \* where a client may disconnect, a subset of Places

Places == {"handler", "stream"}

ASSUME ResponsesAssumption ==
    /\ MaxItems \in Nat
    /\ MaxCrashes \in Nat
    /\ ActorMayStop \in BOOLEAN
    /\ MayDisconnect \subseteq Places

VARIABLES
    pc,         \* pc[r]: what the task of request r awaits
    mode,       \* mode[r]: the "stream" and "store" fields of the request
    pending,    \* pending[r]: the event of a terminal transition in flight
    sequence,   \* sequence[r]: the stream's local sequence counter
    snapshot,   \* snapshot[r]: what the drop guard shares with the stream
    client,     \* client[r]: the SSE events yielded to the client
    answer,     \* answer[r]: how the handler answered a request without a stream
    crashes     \* how often the process was killed

taskVars == <<pc, mode, pending, sequence, snapshot, client, answer>>
vars == <<storeVars, taskVars, crashes>>

-----------------------------------------------------------------------------
\* "new" is a request not yet received; "previous", "create", "fail" and
\* "finish" await the store, "resolve" the model catalog, "upstream" the
\* credential and, without a stream, the whole answer; "live" is a stream
\* between two events, "append" and "close" one that awaits the store.
InHandler == {"previous", "resolve", "create", "upstream", "fail", "finish"}
InStream  == {"live", "append", "close"}
Over      == {"returned", "dropped"}

Modes == [stream : BOOLEAN, store : BOOLEAN]

\* lost marks the response.incomplete that reports a storage_error.
ClientEvents == [type : EventTypes, seq : Nat, lost : BOOLEAN]
Event(type, seq) == [type |-> type, seq |-> seq, lost |-> FALSE]

\* The event that a live stream produces next, its terminal one apart.
NextEvent(r) ==
    CASE Len(client[r]) = 0 -> "created"
      [] Len(client[r]) = 1 -> "in_progress"
      [] OTHER              -> "item"

\* The events that the handler stores with a failure before any stream.
SetupFailureEvents == <<"created", "in_progress", "failed">>

\* responses_stream_events: the whole lifecycle of an answer without a stream.
StoredEvents(final) == <<"created", "in_progress", "item", final>>

Goto(r, place) == pc' = [pc EXCEPT ![r] = place]
Got(r, kind) == reply[r].kind = kind
Taken(r) == reply' = [reply EXCEPT ![r] = NoReply]
Return(r, outcome) ==
    /\ Goto(r, "returned")
    /\ answer' = [answer EXCEPT ![r] = outcome]

Init ==
    /\ StoreInit
    /\ pc       = [r \in Requests |-> "new"]
    /\ mode     = [r \in Requests |-> [stream |-> FALSE, store |-> FALSE]]
    /\ pending  = [r \in Requests |-> "none"]
    /\ sequence = [r \in Requests |-> 0]
    /\ snapshot = [r \in Requests |-> Row("in_progress")]
    /\ client   = [r \in Requests |-> <<>>]
    /\ answer   = [r \in Requests |-> "none"]
    /\ crashes  = 0

-----------------------------------------------------------------------------
(* The handler. *)

\* A valid request arrives; with previous_response_id it reads that record.
Receive(r) ==
    /\ pc[r] = "new"
    /\ \E m \in Modes : mode' = [mode EXCEPT ![r] = m]
    /\ \/ /\ Goto(r, "resolve")
          /\ UNCHANGED storeVars
       \/ \E previous \in Requests \ {r} :
             /\ Send(Command("Get", previous, r, NoRow, <<>>))
             /\ Goto(r, "previous")
             /\ UNCHANGED <<row, log, actor, deleted>>
    /\ UNCHANGED <<pending, sequence, snapshot, client, answer, crashes>>

\* An absent record is a 404; a read error or corrupt history, a storage error.
PreviousRead(r) ==
    /\ pc[r] = "previous"
    /\ \/ Got(r, "ok") /\ Goto(r, "resolve") /\ UNCHANGED answer
       \/ (\E kind \in {"ok", "missing", "error"} : Got(r, kind)) /\ Return(r, "error")
    /\ Taken(r)
    /\ UNCHANGED <<row, log, mailbox, actor, deleted,
                   mode, pending, sequence, snapshot, client, crashes>>

\* resolve_model answers: with store, the record is created before the upstream
\* is called.
ModelResolved(r) ==
    /\ pc[r] = "resolve"
    /\ IF mode[r].store
       THEN /\ Send(Command("Create", r, r, Row("in_progress"), <<>>))
            /\ Goto(r, "create")
       ELSE Goto(r, "upstream") /\ UNCHANGED <<mailbox, reply>>
    /\ UNCHANGED <<row, log, actor, deleted,
                   mode, pending, sequence, snapshot, client, answer, crashes>>

ModelRefused(r) ==
    /\ pc[r] = "resolve"
    /\ Return(r, "error")
    /\ UNCHANGED <<storeVars, mode, pending, sequence, snapshot, client, crashes>>

Created(r) ==
    /\ pc[r] = "create"
    /\ \/ Got(r, "ok") /\ Goto(r, "upstream") /\ UNCHANGED answer
       \/ Got(r, "error") /\ Return(r, "error")
    /\ Taken(r)
    /\ UNCHANGED <<row, log, mailbox, actor, deleted,
                   mode, pending, sequence, snapshot, client, crashes>>

\* event_stream or complete fails: the failure is stored, then returned.
UpstreamFailed(r) ==
    /\ pc[r] = "upstream"
    /\ IF mode[r].store
       THEN /\ Send(Command("Transition", r, r, Row("failed"), SetupFailureEvents))
            /\ Goto(r, "fail")
            /\ UNCHANGED answer
       ELSE Return(r, "error") /\ UNCHANGED <<mailbox, reply>>
    /\ UNCHANGED <<row, log, actor, deleted,
                   mode, pending, sequence, snapshot, client, crashes>>

\* Whatever the store answered, the client gets the upstream's error.
FailureStored(r) ==
    /\ pc[r] = "fail"
    /\ \E kind \in {"ok", "error"} : Got(r, kind)
    /\ Taken(r)
    /\ Return(r, "error")
    /\ UNCHANGED <<row, log, mailbox, actor, deleted,
                   mode, pending, sequence, snapshot, client, crashes>>

\* complete returns: the answer is stored with its whole lifecycle.
GenerationDone(r) ==
    /\ pc[r] = "upstream"
    /\ ~mode[r].stream
    /\ IF mode[r].store
       THEN /\ \E final \in {"completed", "incomplete"} :
                 Send(Command("Transition", r, r, Row(final), StoredEvents(final)))
            /\ Goto(r, "finish")
            /\ UNCHANGED answer
       ELSE Return(r, "ok") /\ UNCHANGED <<mailbox, reply>>
    /\ UNCHANGED <<row, log, actor, deleted,
                   mode, pending, sequence, snapshot, client, crashes>>

\* Mutated form: an answer returned although its transition failed.
AnswerIgnoring(kind) == "ok"

\* The transition's error becomes the answer's.
AnswerAfter(kind) == IF kind = "ok" THEN "ok" ELSE "error"

AnswerStored(r) ==
    /\ pc[r] = "finish"
    /\ \E kind \in {"ok", "error"} : Got(r, kind) /\ Return(r, AnswerAfter(kind))
    /\ Taken(r)
    /\ UNCHANGED <<row, log, mailbox, actor, deleted,
                   mode, pending, sequence, snapshot, client, crashes>>

\* event_stream succeeds: the SSE response starts, guarded from here on.
UpstreamOpened(r) ==
    /\ pc[r] = "upstream"
    /\ mode[r].stream
    /\ Goto(r, "live")
    /\ UNCHANGED <<storeVars, mode, pending, sequence, snapshot, client, answer, crashes>>

-----------------------------------------------------------------------------
(* The live stream. *)

Yield(r, event) == client' = [client EXCEPT ![r] = Append(@, event)]

\* sequence = assigned.saturating_add(1)
YieldAssigned(r, type, seq) ==
    /\ Yield(r, Event(type, seq))
    /\ sequence' = [sequence EXCEPT ![r] = seq + 1]

\* emit_event: a stored stream persists the event and yields it once the store
\* has answered; another one numbers and yields it at once.
Emit(r) ==
    /\ pc[r] = "live"
    /\ Len(client[r]) < 2 + MaxItems
    /\ IF mode[r].store
       THEN /\ Send(Command("AppendEvent", r, r, NoRow, <<NextEvent(r)>>))
            /\ Goto(r, "append")
            /\ UNCHANGED <<client, sequence>>
       ELSE /\ YieldAssigned(r, NextEvent(r), sequence[r])
            /\ UNCHANGED <<pc, mailbox, reply>>
    /\ UNCHANGED <<row, log, actor, deleted, mode, pending, snapshot, answer, crashes>>

EventStored(r) ==
    /\ pc[r] = "append"
    /\ Got(r, "ok")
    /\ Taken(r)
    /\ YieldAssigned(r, NextEvent(r), reply[r].seq)
    /\ Goto(r, "live")
    /\ UNCHANGED <<row, log, mailbox, actor, deleted, mode, pending, snapshot, answer, crashes>>

\* The loop body for one upstream event ends, after the events that it emitted,
\* if any (usage and stop emit none): refresh_snapshot rebuilds the document of
\* the guard, whose status is that of an answer which ends here.
UpstreamEventHandled(r) ==
    /\ pc[r] = "live"
    /\ Len(client[r]) >= 2
    /\ \E shown \in {"completed", "incomplete"} :
          snapshot' = [snapshot EXCEPT ![r].shown = shown]
    /\ UNCHANGED <<storeVars, pc, mode, pending, sequence, client, answer, crashes>>

\* The command of storage_failure_payload: the record is closed unless it is.
MarkIncomplete(r, shown) ==
    Command("TransitionIfInProgress", r, r,
            [status |-> "incomplete", shown |-> shown], <<"incomplete">>)

\* Mutated form: a failed append is ignored and the stream goes on.
GoesOn(r) == "live"

\* The stream returns after the storage_error.
AfterStoreError(r) == "returned"

\* A store error ends the stream: the snapshot is closed first, so the guard
\* stays quiet, a conditional transition is queued, and the client is told.
StoreFailed(r) ==
    /\ pc[r] \in {"append", "close"}
    /\ Got(r, "error")
    /\ Taken(r)
    /\ snapshot' = [snapshot EXCEPT ![r] = Row("incomplete")]
    /\ Post(MarkIncomplete(r, "incomplete"))
    /\ Yield(r, [type |-> "incomplete", seq |-> sequence[r], lost |-> TRUE])
    /\ Goto(r, AfterStoreError(r))
    /\ UNCHANGED <<row, log, actor, deleted, mode, pending, sequence, answer, crashes>>

\* The stream ends: by an upstream error ("failed", emit_failed) or after the
\* last upstream event ("completed" or "incomplete"). One transition stores the
\* final document and the terminal event.
CloseStream(r) ==
    /\ pc[r] = "live"
    /\ Len(client[r]) >= 2
    /\ \E final \in Final :
          IF mode[r].store
          THEN /\ Send(Command("Transition", r, r, Row(final), <<final>>))
               /\ pending' = [pending EXCEPT ![r] = final]
               /\ Goto(r, "close")
               /\ UNCHANGED <<client, sequence, snapshot>>
          ELSE /\ YieldAssigned(r, final, sequence[r])
               /\ snapshot' = [snapshot EXCEPT ![r] = Row(final)]
               /\ Goto(r, "returned")
               /\ UNCHANGED <<pending, mailbox, reply>>
    /\ UNCHANGED <<row, log, actor, deleted, mode, answer, crashes>>

StreamClosed(r) ==
    /\ pc[r] = "close"
    /\ Got(r, "ok")
    /\ Taken(r)
    /\ snapshot' = [snapshot EXCEPT ![r] = Row(pending[r])]
    /\ YieldAssigned(r, pending[r], reply[r].seq)
    /\ Goto(r, "returned")
    /\ UNCHANGED <<row, log, mailbox, actor, deleted, mode, pending, answer, crashes>>

-----------------------------------------------------------------------------
(* The environment. *)

\* Mutated form: a guard that stores the document of the snapshot as it is.
SnapshotDocument(r) == snapshot[r].shown

\* The guard overwrites the status in the document it stores.
DisconnectDocument(r) == "incomplete"

\* Mutated form: no guard, the stream is dropped and nothing is queued.
NoGuard(r) == FALSE

\* IncompleteRecordGuard::drop: only a stored stream has one, and it acts only
\* while the snapshot is in progress.
GuardActs(r) ==
    /\ pc[r] \in InStream
    /\ mode[r].store
    /\ snapshot[r].status = "in_progress"

\* The client goes away: the server drops the task where it waits, and the
\* drop guard, if there is one, queues the record's conditional transition.
Disconnect(r) ==
    /\ \/ pc[r] \in InHandler /\ "handler" \in MayDisconnect
       \/ pc[r] \in InStream /\ "stream" \in MayDisconnect
    /\ IF GuardActs(r) THEN Post(MarkIncomplete(r, DisconnectDocument(r)))
                       ELSE UNCHANGED mailbox
    /\ Taken(r)
    /\ Goto(r, "dropped")
    /\ UNCHANGED <<row, log, actor, deleted,
                   mode, pending, sequence, snapshot, client, answer, crashes>>

\* DELETE of a response that was requested; bound: one such command at a time.
RequestDelete(id) ==
    /\ pc[id] # "new"
    /\ \A i \in DOMAIN mailbox : mailbox[i].op # "Delete" \/ mailbox[i].id # id
    /\ Post(Command("Delete", id, id, NoRow, <<>>))
    /\ UNCHANGED <<row, log, actor, reply, deleted, taskVars, crashes>>

ActorEnds ==
    /\ ActorMayStop
    /\ StopActor
    /\ UNCHANGED <<taskVars, crashes>>

\* The process is killed and started again: the tables survive, the tasks and
\* the queue do not, no guard runs, and startup leaves the records alone.
Crash ==
    /\ crashes < MaxCrashes
    /\ crashes' = crashes + 1
    /\ mailbox' = <<>>
    /\ actor' = "running"
    /\ reply' = [r \in Requests |-> NoReply]
    /\ pc' = [r \in Requests |-> IF pc[r] \in InHandler \cup InStream THEN "dropped" ELSE pc[r]]
    /\ UNCHANGED <<row, log, deleted, mode, pending, sequence, snapshot, client, answer>>

StoreStep == Serve /\ UNCHANGED <<taskVars, crashes>>

-----------------------------------------------------------------------------
\* What a task does by itself once what it awaits is there.
TaskStep(r) ==
    \/ PreviousRead(r) \/ ModelResolved(r) \/ ModelRefused(r) \/ Created(r)
    \/ UpstreamFailed(r) \/ FailureStored(r) \/ GenerationDone(r) \/ AnswerStored(r)
    \/ UpstreamOpened(r) \/ EventStored(r) \/ StoreFailed(r) \/ StreamClosed(r)

Next ==
    \/ \E r \in Requests : \/ Receive(r) \/ TaskStep(r) \/ Emit(r) \/ UpstreamEventHandled(r)
                           \/ CloseStream(r) \/ Disconnect(r) \/ RequestDelete(r)
    \/ StoreStep
    \/ ActorEnds
    \/ Crash

Spec == Init /\ [][Next]_vars

\* The runtime polls a task that can go on, the actor thread takes the next
\* command, and the HTTP client's overall timeout ends every upstream call.
\* Nothing makes requests, disconnects, deletes or outages happen.
Fairness ==
    /\ WF_vars(StoreStep)
    /\ \A r \in Requests : WF_vars(TaskStep(r)) /\ WF_vars(Emit(r)) /\ WF_vars(CloseStream(r))

FairSpec == Spec /\ Fairness

-----------------------------------------------------------------------------
(* Properties. *)

\* Every variable has its type.
TypeOK ==
    /\ StoreTypeOK
    /\ pc \in [Requests -> {"new"} \cup InHandler \cup InStream \cup Over]
    /\ mode \in [Requests -> Modes]
    /\ pending \in [Requests -> Final \cup {"none"}]
    /\ sequence \in [Requests -> Nat]
    /\ snapshot \in [Requests -> Rows]
    /\ client \in [Requests -> Seq(ClientEvents)]
    /\ answer \in [Requests -> {"none", "ok", "error"}]
    /\ crashes \in Nat

\* The status and the lifecycle events of a record agree: no event without a
\* record, and a terminal event exactly when the status is terminal, then of
\* that name and last. At stake when a drop guard's transition, a storage
\* failure's and the stream's own terminal transition meet in the queue.
LogMatchesStatus ==
    \A id \in Requests :
        /\ Exists(id) \/ log[id] = <<>>
        /\ \A i \in DOMAIN log[id] :
              log[id][i].type \in Final =>
                  /\ i = Len(log[id])
                  /\ log[id][i].type = row[id].status
        /\ row[id].status \in Final =>
              log[id] # <<>> /\ log[id][Len(log[id])].type = row[id].status

\* The events of a response are numbered 0, 1, 2, ... without a gap, whoever
\* appends them (MAX(sequence_number) + 1 in append_events).
SequenceContiguous ==
    \A id \in Requests : \A i \in DOMAIN log[id] : log[id][i].seq = i - 1

\* What the client of a stored stream was sent can be replayed from the store:
\* each event it saw, a storage_error apart, is there with the same number and
\* type, unless the response was deleted (README: every lifecycle event is
\* written to the local actor before it is sent).
ReplayFaithful ==
    \A r \in Requests : mode[r].store /\ r \notin deleted =>
        \A k \in DOMAIN client[r] : ~client[r][k].lost =>
            /\ client[r][k].seq + 1 \in DOMAIN log[r]
            /\ log[r][client[r][k].seq + 1].type = client[r][k].type

\* A client sees the numbers 0, 1, 2, ... , at most one terminal event, and
\* nothing after it, although the numbers of a stored stream come from the
\* store, those of another stream and of a storage_error from a local counter.
ClientStreamWellFormed ==
    \A r \in Requests : \A k \in DOMAIN client[r] :
        /\ client[r][k].seq = k - 1
        /\ client[r][k].type \in Final => k = Len(client[r])

\* GET /v1/responses/{id} answers with the stored document, the drop guard and
\* the admin API go by the status column: the two never disagree.
DocumentMatchesStatus == \A id \in Requests : row[id].shown = row[id].status

\* A stored request without a stream that was answered with success has a final
\* record, until it is deleted: the next request can continue from it.
AnswerIsStored ==
    \A r \in Requests : answer[r] = "ok" /\ mode[r].store /\ r \notin deleted =>
        row[r].status \in {"completed", "incomplete"}

\* If no fault comes after a commit, a client told storage_error is told the
\* truth: its record is not completed or failed, nor will it be.
StorageErrorIsTrue ==
    \A r \in Requests : \A k \in DOMAIN client[r] :
        client[r][k].lost => row[r].status \notin {"completed", "failed"}

\* The store and its clients implement the record's promise: one creation, one
\* terminal transition, no change after it, no return after deletion.
Record == INSTANCE ResponseRecord
    WITH Ids     <- Requests,
         state   <- [id \in Requests |-> IF id \in deleted THEN "deleted" ELSE row[id].status],
         history <- [id \in Requests |-> [i \in DOMAIN log[id] |-> log[id][i].type]]

ImplementsRecord == Record!RecordSpec

\* Once a stored stream is live its record leaves in_progress, whether the
\* stream ends, fails, loses an event to the store or is dropped, unless the
\* actor thread is gone.
StreamLeavesInProgress ==
    \A r \in Requests :
        pc[r] \in InStream /\ row[r].status = "in_progress"
            ~> row[r].status # "in_progress" \/ actor = "stopped"

\* No request waits for ever, even if the actor thread ends under it.
EveryRequestEnds ==
    \A r \in Requests : pc[r] # "new" ~> pc[r] \in Over

\* README.md: when a client disconnects, its stored record is persisted as an
\* incomplete response.
DisconnectClosesRecord ==
    \A r \in Requests :
        pc[r] = "dropped" /\ mode[r].stream /\ row[r].status = "in_progress"
            ~> row[r].status # "in_progress"

=============================================================================
