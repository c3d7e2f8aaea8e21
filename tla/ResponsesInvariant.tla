-------------------------- MODULE ResponsesInvariant --------------------------
(***************************************************************************)
(* The inductive invariant behind the safety properties of Responses: what *)
(* may be queued to the actor, in which order, and how the queue, the      *)
(* tables and the tasks fit together. Checked by TLC, proved inductive in  *)
(* ResponsesTheorems.                                                      *)
(***************************************************************************)
EXTENDS Responses

\* The commands whose caller awaits the reply, and those that write events.
Awaited == {"Create", "Transition", "Get", "AppendEvent"}
Writers == {"Transition", "AppendEvent"}
ProgressTypes == EventTypes \ Final

\* All commands but Get and Delete are about the caller's own response, and
\* they carry what the handler, the stream or the guard puts into them.
CommandShape(c) ==
    /\ c.op # "Get" => c.id = c.caller
    /\ c.op = "Create" => c.set = Row("in_progress")
    /\ c.op = "AppendEvent" => \E type \in ProgressTypes : c.events = <<type>>
    /\ c.op = "Transition" => \E final \in Final :
          /\ c.set = Row(final)
          /\ c.events \in {<<final>>, <<"created", "in_progress", final>>,
                           <<"created", "in_progress", "item", final>>}
    /\ c.op = "TransitionIfInProgress" =>
          c.set = Row("incomplete") /\ c.events = <<"incomplete">>

\* The task that sent a queued command still waits for it, or is over; only a
\* task that is over has queued a conditional transition.
CallerWaits(c) ==
    \/ c.op = "Delete"
    \/ pc[c.caller] \in Over
    \/ /\ reply[c.caller].kind = "waiting"
       /\ \/ c.op = "Get" /\ pc[c.caller] = "previous"
          \/ c.op = "Create" /\ pc[c.caller] = "create"
          \/ /\ c.op = "AppendEvent"
             /\ pc[c.caller] = "append"
             /\ c.events = <<NextEvent(c.caller)>>
          \/ /\ c.op = "Transition"
             /\ \/ pc[c.caller] = "fail"
                \/ pc[c.caller] = "finish" /\ c.set.status \in {"completed", "incomplete"}
                \/ /\ pc[c.caller] = "close"
                   /\ c.set = Row(pending[c.caller])
                   /\ c.events = <<pending[c.caller]>>

\* A caller has one awaited command in the queue at most, and none behind its
\* conditional transition.
QueueOrder ==
    \A i, j \in 1..Len(mailbox) :
        i < j /\ mailbox[i].caller = mailbox[j].caller /\ mailbox[j].op \in Awaited
            => mailbox[i].op = "Delete"

\* A record in progress, or one that was but is deleted by now.
OpenOrDeleted(id) == row[id].status = "in_progress" \/ id \in deleted

\* What a queued write finds: Create no row, the others an open record.
WriteFinds(c) ==
    /\ c.op = "Create" => row[c.id] = NoRow /\ c.id \notin deleted
    /\ c.op \in Writers => OpenOrDeleted(c.id)

QueueSound ==
    \A i \in 1..Len(mailbox) : /\ CommandShape(mailbox[i])
                               /\ CallerWaits(mailbox[i])
                               /\ WriteFinds(mailbox[i])

\* What a task knows of its own record from where it stands.
TaskKnows(r) ==
    /\ pc[r] \in {"new", "previous", "resolve"} =>
          row[r] = NoRow /\ r \notin deleted /\ client[r] = <<>>
    /\ pc[r] = "create" => client[r] = <<>> /\ (r \notin deleted => log[r] = <<>>)
    /\ pc[r] = "create" /\ reply[r].kind = "ok" => OpenOrDeleted(r)
    /\ pc[r] \in {"upstream", "fail", "finish"} => client[r] = <<>>
    /\ pc[r] = "upstream" /\ mode[r].store =>
          OpenOrDeleted(r) /\ (r \notin deleted => log[r] = <<>>)
    /\ pc[r] = "live" /\ mode[r].store => OpenOrDeleted(r)
    /\ pc[r] = "append" /\ reply[r].kind = "ok" => OpenOrDeleted(r)
    /\ pc[r] = "finish" /\ reply[r].kind = "ok" =>
          row[r].status \in {"completed", "incomplete"} \/ r \in deleted
    /\ pc[r] \in {"append", "close"} => mode[r].store
    /\ pc[r] = "close" => pending[r] \in Final
    /\ pc[r] # "returned" => answer[r] = "none"

\* A deleted response has no row, and no task or command will make it one.
DeletedStaysAway == \A id \in deleted : row[id] = NoRow

\* How far the client of a stored stream is behind the log of its response.
ClientTracksLog(r) ==
    /\ pc[r] \notin Over =>
          /\ sequence[r] = Len(client[r])
          /\ \A k \in DOMAIN client[r] : client[r][k].type \notin Final
    /\ pc[r] = "live" /\ mode[r].store /\ r \notin deleted => Len(log[r]) = Len(client[r])
    /\ pc[r] \in {"append", "close"} /\ reply[r].kind = "waiting" /\ r \notin deleted =>
          Len(log[r]) = Len(client[r])
    /\ pc[r] \in {"append", "close"} /\ reply[r].kind = "ok" =>
          reply[r].seq = Len(client[r])
    /\ pc[r] = "append" /\ reply[r].kind = "ok" /\ r \notin deleted =>
          Len(log[r]) = Len(client[r]) + 1 /\ log[r][Len(log[r])].type = NextEvent(r)
    /\ pc[r] = "close" /\ reply[r].kind = "ok" /\ r \notin deleted =>
          Len(log[r]) = Len(client[r]) + 1 /\ log[r][Len(log[r])].type = pending[r]

-----------------------------------------------------------------------------
\* The inductive invariant: each queued command finds its caller and its record
\* as they were when it was sent, whatever deletes, faults, disconnects and
\* outages come between, and from that the properties of Responses follow.
IInv ==
    /\ TypeOK
    /\ QueueOrder
    /\ QueueSound
    /\ DeletedStaysAway
    /\ \A r \in Requests : TaskKnows(r) /\ ClientTracksLog(r)
    /\ LogMatchesStatus
    /\ SequenceContiguous
    /\ DocumentMatchesStatus
    /\ ClientStreamWellFormed
    /\ ReplayFaithful
    /\ AnswerIsStored

=============================================================================
