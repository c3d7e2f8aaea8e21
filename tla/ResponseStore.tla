---------------------------- MODULE ResponseStore ----------------------------
(***************************************************************************)
(* The local store of Responses: one thread (run_actor) takes commands     *)
(* from an unbounded FIFO channel and runs each as one SQLite transaction. *)
(* Callers await a oneshot reply, except for TransitionIfInProgress, which *)
(* is queued and forgotten. Only the columns and fields the properties     *)
(* tell apart are kept: the status column, the status inside the stored    *)
(* response document, and the sequence number and type of each event.      *)
(***************************************************************************)
EXTENDS Naturals, Sequences, FiniteSetsExt

CONSTANTS
    Requests,   \* Responses requests; a request's name is also the id of its response
    Faults      \* what may go wrong in a transaction, a subset of FaultKinds

\* "sql": a statement or the commit fails, nothing is written;
\* "harden": harden_sidecars fails, after the transaction was committed.
FaultKinds == {"sql", "harden"}

ASSUME StoreAssumption == Faults \subseteq FaultKinds

VARIABLES
    row,        \* row[id]: the responses row with its snapshot, or NoRow
    log,        \* log[id]: the response_events rows of id, by insertion
    mailbox,    \* the commands queued to the actor, oldest first
    actor,      \* "running", or "stopped" once the actor thread is gone
    reply,      \* reply[r]: the oneshot channel on which request r awaits
    deleted     \* history variable: the ids whose row a Delete removed

storeVars == <<row, log, mailbox, actor, reply, deleted>>

-----------------------------------------------------------------------------
Final == {"completed", "incomplete", "failed"}
EventTypes == {"created", "in_progress", "item"} \cup Final
Statuses == {"absent", "in_progress"} \cup Final

\* status is the column, shown the "status" of the stored response document.
Rows == [status : Statuses, shown : Statuses]
NoRow == [status |-> "absent", shown |-> "absent"]
Row(status) == [status |-> status, shown |-> status]
Exists(id) == row[id].status # "absent"

Commands == [op     : {"Create", "Transition", "TransitionIfInProgress", "Get",
                       "Delete", "AppendEvent"},
             id     : Requests,
             caller : Requests,
             set    : Rows,
             events : Seq(EventTypes)]

\* An AppendEvent, Get or Delete command carries no record: set is then NoRow.
Command(op, id, caller, set, events) ==
    [op |-> op, id |-> id, caller |-> caller, set |-> set, events |-> events]

Replies == [kind : {"none", "waiting", "ok", "missing", "error"}, seq : Nat]
NoReply == [kind |-> "none", seq |-> 0]
Waiting == [kind |-> "waiting", seq |-> 0]
Failure == [kind |-> "error", seq |-> 0]
Ok(seq) == [kind |-> "ok", seq |-> seq]

-----------------------------------------------------------------------------
(* The SQL, as functions of the tables. *)

\* Mutated form: numbering that forgets the + 1 of MAX(sequence_number) + 1.
NextSequenceOffByOne(events) ==
    IF events = <<>> THEN 0 ELSE Max({events[i].seq : i \in DOMAIN events})

\* SELECT COALESCE(MAX(sequence_number) + 1, 0)
NextSequence(events) ==
    IF events = <<>> THEN 0 ELSE 1 + Max({events[i].seq : i \in DOMAIN events})

\* The rows of events followed by one row for each type of types.
AppendEvents(events, types) ==
    events \o [i \in 1..Len(types) |->
                  [seq |-> NextSequence(events) + i - 1, type |-> types[i]]]

\* Mutated form: the number of the event before the last one.
LastSeqOffByOne(events) == events[Len(events)].seq - 1

LastSeq(events) == events[Len(events)].seq

\* The foreign key of response_events: an event needs its response.
ForeignKeyHolds(id) == Exists(id)

\* Mutated form: a transition that inserts the row it does not find.
Upserts(id) == TRUE

\* update_record fails unless it changes one row.
Updates(id) == Exists(id)

\* Mutated form: a drop guard that overwrites whatever the status is.
UnconditionalClose(id) == Exists(id)

\* transition_if_in_progress writes only over a record still in progress.
MayClose(id) == row[id].status = "in_progress"

\* ON DELETE CASCADE
CascadeEvents(id) == [log EXCEPT ![id] = <<>>]

\* Mutated form: rows handed back without a look at the commit.
OutcomeBeforeCommit(committed, fault, seq) == Ok(seq)

\* A command succeeds if its transaction commits and the hardening after it.
Outcome(committed, fault, seq) ==
    IF committed /\ fault = "none" THEN Ok(seq) ELSE Failure

-----------------------------------------------------------------------------
(* Sending and replying. *)

\* ResponseStore::send then receive_reply: without an actor the send fails at
\* once, with the same kind of error as a reply that never comes.
Send(command) ==
    IF actor = "running"
    THEN /\ mailbox' = Append(mailbox, command)
         /\ reply' = [reply EXCEPT ![command.caller] = Waiting]
    ELSE /\ reply' = [reply EXCEPT ![command.caller] = Failure]
         /\ UNCHANGED mailbox

\* Mutated form: a guard whose command overtakes the one already queued.
PostFirst(command) ==
    mailbox' = IF actor = "running" THEN <<command>> \o mailbox ELSE mailbox

\* mark_incomplete_on_disconnect: queued without a reply, or lost (and logged).
Post(command) ==
    mailbox' = IF actor = "running" THEN Append(mailbox, command) ELSE mailbox

\* reply.send: lost when the caller no longer waits.
Answer(caller, answer) ==
    reply' = IF reply[caller].kind = "waiting"
             THEN [reply EXCEPT ![caller] = answer]
             ELSE reply

-----------------------------------------------------------------------------
StoreInit ==
    /\ row     = [id \in Requests |-> NoRow]
    /\ log     = [id \in Requests |-> <<>>]
    /\ mailbox = <<>>
    /\ actor   = "running"
    /\ reply   = [r \in Requests |-> NoReply]
    /\ deleted = {}

\* The actor takes the oldest command, which must be an op.
Take(op) ==
    /\ actor = "running"
    /\ mailbox # <<>>
    /\ Head(mailbox).op = op
    /\ mailbox' = Tail(mailbox)
    /\ UNCHANGED actor

ServeCreate(fault) ==
    LET c == Head(mailbox)
        committed == ~Exists(c.id) /\ fault # "sql"
    IN /\ Take("Create")
       /\ row' = IF committed THEN [row EXCEPT ![c.id] = c.set] ELSE row
       /\ Answer(c.caller, Outcome(committed, fault, 0))
       /\ UNCHANGED <<log, deleted>>

ServeTransition(fault) ==
    LET c == Head(mailbox)
        committed == Updates(c.id) /\ fault # "sql"
        events == AppendEvents(log[c.id], c.events)
    IN /\ Take("Transition")
       /\ row' = IF committed THEN [row EXCEPT ![c.id] = c.set] ELSE row
       /\ log' = IF committed THEN [log EXCEPT ![c.id] = events] ELSE log
       /\ Answer(c.caller, Outcome(committed, fault, LastSeq(events)))
       /\ UNCHANGED deleted

ServeTransitionIfInProgress(fault) ==
    LET c == Head(mailbox)
        committed == MayClose(c.id) /\ fault # "sql"
    IN /\ Take("TransitionIfInProgress")
       /\ row' = IF committed THEN [row EXCEPT ![c.id] = c.set] ELSE row
       /\ log' = IF committed THEN [log EXCEPT ![c.id] = AppendEvents(@, c.events)] ELSE log
       /\ UNCHANGED <<reply, deleted>>

ServeGet(fault) ==
    LET c == Head(mailbox)
    IN /\ Take("Get")
       /\ Answer(c.caller, CASE fault = "sql" -> Failure
                             [] Exists(c.id)   -> Ok(0)
                             [] OTHER          -> [Failure EXCEPT !.kind = "missing"])
       /\ UNCHANGED <<row, log, deleted>>

\* The delete endpoints only turn the answer into a status code, so no reply
\* is modelled and a "harden" fault shows nowhere else.
ServeDelete(fault) ==
    LET c == Head(mailbox)
        committed == Exists(c.id) /\ fault # "sql"
    IN /\ Take("Delete")
       /\ row' = IF committed THEN [row EXCEPT ![c.id] = NoRow] ELSE row
       /\ log' = IF committed THEN CascadeEvents(c.id) ELSE log
       /\ deleted' = IF committed THEN deleted \cup {c.id} ELSE deleted
       /\ UNCHANGED reply

ServeAppendEvent(fault) ==
    LET c == Head(mailbox)
        committed == ForeignKeyHolds(c.id) /\ fault # "sql"
        events == AppendEvents(log[c.id], c.events)
    IN /\ Take("AppendEvent")
       /\ log' = IF committed THEN [log EXCEPT ![c.id] = events] ELSE log
       /\ Answer(c.caller, Outcome(committed, fault, LastSeq(events)))
       /\ UNCHANGED <<row, deleted>>

Serve == \E fault \in Faults \cup {"none"} :
            \/ ServeCreate(fault)
            \/ ServeTransition(fault)
            \/ ServeTransitionIfInProgress(fault)
            \/ ServeGet(fault)
            \/ ServeDelete(fault)
            \/ ServeAppendEvent(fault)

\* Mutated form: the senders survive the actor, for instance in a backlog.
SendersKept == reply

\* Dropping a oneshot sender wakes its receiver with an error.
SendersDropped ==
    [r \in Requests |-> IF reply[r].kind = "waiting" THEN Failure ELSE reply[r]]

\* The actor thread ends: the channel and every oneshot sender in it are
\* dropped, so each caller that waits receives "stopped before replying".
StopActor ==
    /\ actor = "running"
    /\ actor' = "stopped"
    /\ mailbox' = <<>>
    /\ reply' = SendersDropped
    /\ UNCHANGED <<row, log, deleted>>

StoreTypeOK ==
    /\ row \in [Requests -> Rows]
    /\ log \in [Requests -> Seq([seq : Nat, type : EventTypes])]
    /\ mailbox \in Seq(Commands)
    /\ actor \in {"running", "stopped"}
    /\ reply \in [Requests -> Replies]
    /\ deleted \subseteq Requests

=============================================================================
