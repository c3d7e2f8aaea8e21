-------------------------- MODULE ResponsesTheorems --------------------------
(***************************************************************************)
(* The inductive invariant of ResponsesInvariant holds of every behaviour  *)
(* of Responses, and with it the safety properties of Responses, for every *)
(* set of requests, every combination of faults and every bound. The       *)
(* invariant is cut into what it says of the queue and what it says of     *)
(* each request: a step of one task leaves the others' part alone.         *)
(***************************************************************************)
EXTENDS ResponsesInvariant, Shutdown, SequenceTheorems, TLAPS

LogRows == [seq : Nat, type : EventTypes]

\* A log numbered 0, 1, 2, ...
Contiguous(events) == \A i \in 1..Len(events) : events[i].seq = i - 1

-----------------------------------------------------------------------------
(* What append_events does to a contiguous log. *)

\* MAX(sequence_number) + 1 over a contiguous log is its length.
LEMMA NextSequenceIsLen ==
    ASSUME NEW events \in Seq(LogRows), Contiguous(events)
    PROVE  NextSequence(events) = Len(events)
<1>1. CASE events = <<>>
  BY <1>1 DEF NextSequence
<1>2. CASE events # <<>>
  <2> DEFINE S == {events[i].seq : i \in DOMAIN events}
             m == Len(events) - 1
  <2>1. /\ DOMAIN events = 1..Len(events)
        /\ Len(events) \in Nat \ {0}
    BY <1>2
  <2>2. events[Len(events)].seq = m
    BY <2>1 DEF Contiguous
  <2>3. m \in S
    BY <2>1, <2>2
  <2>4. \A n \in S : n \in Int /\ n <= m
    BY <2>1 DEF Contiguous
  <2>5. m \in Int
    BY <2>1
  <2> HIDE DEF S, m
  <2>6. /\ \A n \in S : m >= n
        /\ \A x \in S : (\A n \in S : x >= n) => x = m
    BY <2>3, <2>4, <2>5
  <2>7. Max(S) = m
    BY <2>3, <2>6 DEF Max
  <2>8. QED
    BY <1>2, <2>1, <2>7 DEF NextSequence, S, m
<1>3. QED
  BY <1>1, <1>2

\* The new rows follow the old ones and continue their numbers.
LEMMA AppendEventsExtends ==
    ASSUME NEW events \in Seq(LogRows), Contiguous(events),
           NEW types \in Seq(EventTypes)
    PROVE  LET new == AppendEvents(events, types)
           IN /\ new \in Seq(LogRows)
              /\ Contiguous(new)
              /\ Len(new) = Len(events) + Len(types)
              /\ \A i \in 1..Len(events) : new[i] = events[i]
              /\ \A i \in 1..Len(types) : new[Len(events) + i].type = types[i]
              /\ types # <<>> => /\ LastSeq(new) = Len(new) - 1
                                 /\ Len(new) \in Nat \ {0}
                                 /\ new[Len(new)].type = types[Len(types)]
<1> DEFINE n == Len(events)
           more == [i \in 1..Len(types) |-> [seq |-> n + i - 1, type |-> types[i]]]
<1>1. n \in Nat /\ Len(types) \in Nat
  OBVIOUS
<1>2. \A i \in 1..Len(types) : types[i] \in EventTypes
  OBVIOUS
<1>3. more \in Seq(LogRows) /\ Len(more) = Len(types)
  BY <1>1, <1>2 DEF LogRows
<1>4. AppendEvents(events, types) = events \o more
  BY NextSequenceIsLen DEF AppendEvents
<1>5. \A i \in 1..Len(types) : (events \o more)[n + i] = more[i]
  BY <1>1, <1>3
<1>6. \A i \in 1..n : (events \o more)[i] = events[i]
  BY <1>1, <1>3
<1>7. Len(events \o more) = n + Len(types)
  BY <1>1, <1>3
<1>8. events \o more \in Seq(LogRows)
  BY <1>3
<1>9. Contiguous(events \o more)
  <2> SUFFICES ASSUME NEW i \in 1..(n + Len(types))
               PROVE  (events \o more)[i].seq = i - 1
    BY <1>7 DEF Contiguous
  <2>1. CASE i \in 1..n
    BY <2>1, <1>6 DEF Contiguous
  <2>2. CASE i \notin 1..n
    <3> DEFINE k == i - n
    <3>1. k \in 1..Len(types) /\ i = n + k
      BY <2>2, <1>1
    <3>2. more[k].seq = n + k - 1
      BY <3>1
    <3>3. QED
      BY <3>1, <3>2, <1>5, <1>1
  <2>3. QED
    BY <2>1, <2>2
<1>10. \A i \in 1..Len(types) : (events \o more)[n + i].type = types[i]
  BY <1>1, <1>5
<1>11. types # <<>> => Len(types) \in 1..Len(types) /\ n + Len(types) \in Nat \ {0}
  BY <1>1
<1>12. types # <<>> => /\ LastSeq(events \o more) = n + Len(types) - 1
                       /\ (events \o more)[n + Len(types)].type = types[Len(types)]
  BY <1>1, <1>7, <1>9, <1>10, <1>11 DEF LastSeq, Contiguous
<1>13. QED
  BY <1>4, <1>6, <1>7, <1>8, <1>9, <1>10, <1>11, <1>12

-----------------------------------------------------------------------------
(* Types. *)

\* A command put together from typed parts is a command.
LEMMA CommandType ==
    ASSUME NEW op \in {"Create", "Transition", "TransitionIfInProgress", "Get",
                       "Delete", "AppendEvent"},
           NEW id \in Requests, NEW caller \in Requests,
           NEW set \in Rows, NEW events \in Seq(EventTypes)
    PROVE  Command(op, id, caller, set, events) \in Commands
  BY DEF Command, Commands

\* A row whose document shows the status of its column is a row.
LEMMA RowType ==
    ASSUME NEW status \in Statuses
    PROVE  Row(status) \in Rows
  BY DEF Row, Rows

\* Sending a command, or failing to, keeps the types of the queue and the replies.
LEMMA SendType ==
    ASSUME TypeOK, NEW c \in Commands, Send(c)
    PROVE  mailbox' \in Seq(Commands) /\ reply' \in [Requests -> Replies]
<1>1. mailbox \in Seq(Commands) /\ reply \in [Requests -> Replies]
  BY DEF TypeOK, StoreTypeOK
<1>2. Append(mailbox, c) \in Seq(Commands)
  BY <1>1
<1>3. Waiting \in Replies /\ Failure \in Replies
  BY DEF Waiting, Failure, Replies
<1>4. QED
  BY <1>1, <1>2, <1>3 DEF Send

\* Queueing a command without a reply keeps the type of the queue.
LEMMA PostType ==
    ASSUME TypeOK, NEW c \in Commands, Post(c)
    PROVE  mailbox' \in Seq(Commands)
<1>1. mailbox \in Seq(Commands)
  BY DEF TypeOK, StoreTypeOK
<1>2. Append(mailbox, c) \in Seq(Commands)
  BY <1>1
<1>3. QED
  BY <1>1, <1>2 DEF Post

\* The event lists that commands carry.
LEMMA EventListType ==
    /\ <<>> \in Seq(EventTypes)
    /\ \A type \in EventTypes : <<type>> \in Seq(EventTypes)
    /\ SetupFailureEvents \in Seq(EventTypes)
    /\ \A final \in Final : StoredEvents(final) \in Seq(EventTypes)
<1>1. /\ {"created", "in_progress", "item", "failed"} \subseteq EventTypes
      /\ Final \subseteq EventTypes
  BY DEF EventTypes, Final
<1>2. QED
  BY <1>1 DEF SetupFailureEvents, StoredEvents

\* Initially every variable has its type.
LEMMA InitType == Init => TypeOK
  BY DEF Init, StoreInit, TypeOK, StoreTypeOK, NoRow, Rows, Statuses, Row, NoReply, Replies,
         Modes

\* Every step of the handler keeps the types.
LEMMA HandlerType ==
    ASSUME TypeOK, NEW r \in Requests,
           \/ Receive(r) \/ PreviousRead(r) \/ ModelResolved(r) \/ ModelRefused(r)
           \/ Created(r) \/ UpstreamFailed(r) \/ FailureStored(r) \/ GenerationDone(r)
           \/ AnswerStored(r) \/ UpstreamOpened(r)
    PROVE  TypeOK'
<1> USE DEF Goto, Return, Taken, InHandler, InStream, Over
<1>1. CASE Receive(r)
  <2> /\ mode' \in [Requests -> Modes]
      /\ pc' \in [Requests -> {"new"} \cup InHandler \cup InStream \cup Over]
    BY <1>1 DEF Receive, TypeOK
  <2>1. CASE UNCHANGED storeVars
    BY <1>1, <2>1 DEF Receive, TypeOK, StoreTypeOK, storeVars
  <2>2. CASE ~UNCHANGED storeVars
    <3>1. PICK previous \in Requests : Send(Command("Get", previous, r, NoRow, <<>>))
      BY <1>1, <2>2 DEF Receive
    <3>2. Command("Get", previous, r, NoRow, <<>>) \in Commands
      BY CommandType, EventListType DEF NoRow, Rows, Statuses
    <3>3. mailbox' \in Seq(Commands) /\ reply' \in [Requests -> Replies]
      BY <3>1, <3>2, SendType
    <3>4. QED
      BY <1>1, <2>2, <3>3 DEF Receive, TypeOK, StoreTypeOK
  <2>3. QED
    BY <2>1, <2>2
<1>2. CASE PreviousRead(r)
  <2>1. pc' \in [Requests -> {"new"} \cup InHandler \cup InStream \cup Over]
    BY <1>2 DEF PreviousRead, TypeOK
  <2>2. answer' \in [Requests -> {"none", "ok", "error"}]
    BY <1>2 DEF PreviousRead, TypeOK
  <2>3. reply' \in [Requests -> Replies]
    BY <1>2 DEF PreviousRead, TypeOK, StoreTypeOK, NoReply, Replies
  <2>4. QED
    BY <1>2, <2>1, <2>2, <2>3 DEF PreviousRead, TypeOK, StoreTypeOK
<1>3. CASE ModelResolved(r)
  <2>1. Command("Create", r, r, Row("in_progress"), <<>>) \in Commands
    BY CommandType, RowType, EventListType DEF Statuses
  <2>2. mailbox' \in Seq(Commands) /\ reply' \in [Requests -> Replies]
    BY <1>3, <2>1, SendType DEF ModelResolved, TypeOK, StoreTypeOK
  <2>3. QED
    BY <1>3, <2>2 DEF ModelResolved, TypeOK, StoreTypeOK
<1>4. CASE ModelRefused(r)
  BY <1>4 DEF ModelRefused, TypeOK, StoreTypeOK, storeVars
<1>5. CASE Created(r)
  BY <1>5 DEF Created, TypeOK, StoreTypeOK, NoReply, Replies
<1>6. CASE UpstreamFailed(r)
  <2>1. Command("Transition", r, r, Row("failed"), SetupFailureEvents) \in Commands
    BY CommandType, RowType, EventListType DEF Statuses, Final
  <2>2. mailbox' \in Seq(Commands) /\ reply' \in [Requests -> Replies]
    BY <1>6, <2>1, SendType DEF UpstreamFailed, TypeOK, StoreTypeOK
  <2>3. QED
    BY <1>6, <2>2 DEF UpstreamFailed, TypeOK, StoreTypeOK
<1>7. CASE FailureStored(r)
  BY <1>7 DEF FailureStored, TypeOK, StoreTypeOK, NoReply, Replies
<1>8. CASE GenerationDone(r)
  <2>1. \A final \in Final :
           Command("Transition", r, r, Row(final), StoredEvents(final)) \in Commands
    BY CommandType, RowType, EventListType DEF Statuses, Final
  <2>2. mailbox' \in Seq(Commands) /\ reply' \in [Requests -> Replies]
    BY <1>8, <2>1, SendType DEF GenerationDone, TypeOK, StoreTypeOK, Final
  <2>3. QED
    BY <1>8, <2>2 DEF GenerationDone, TypeOK, StoreTypeOK
<1>9. CASE AnswerStored(r)
  BY <1>9 DEF AnswerStored, AnswerAfter, TypeOK, StoreTypeOK, NoReply, Replies
<1>10. CASE UpstreamOpened(r)
  BY <1>10 DEF UpstreamOpened, TypeOK, StoreTypeOK, storeVars
<1>11. QED
  BY <1>1, <1>2, <1>3, <1>4, <1>5, <1>6, <1>7, <1>8, <1>9, <1>10

\* Every step of the live stream keeps the types; the terminal event that it
\* yields is one because a stream that closes has chosen it (TaskKnows).
LEMMA StreamType ==
    ASSUME TypeOK, NEW r \in Requests, TaskKnows(r),
           \/ Emit(r) \/ EventStored(r) \/ UpstreamEventHandled(r) \/ StoreFailed(r)
           \/ CloseStream(r) \/ StreamClosed(r)
    PROVE  TypeOK'
<1> USE DEF Goto, Taken, InHandler, InStream, Over
<1> DEFINE Places2 == {"new"} \cup InHandler \cup InStream \cup Over
<1>1. NextEvent(r) \in EventTypes
  BY DEF NextEvent, EventTypes
<1>2. \A type \in EventTypes, seq \in Nat : Event(type, seq) \in ClientEvents
  BY DEF Event, ClientEvents
<1>3. Final \subseteq EventTypes /\ Final \subseteq Statuses
  BY DEF EventTypes, Statuses
<1>4. \A event \in ClientEvents : Yield(r, event) => client' \in [Requests -> Seq(ClientEvents)]
  <2> SUFFICES ASSUME NEW event \in ClientEvents, Yield(r, event)
               PROVE  client' \in [Requests -> Seq(ClientEvents)]
    OBVIOUS
  <2>1. client \in [Requests -> Seq(ClientEvents)]
    BY DEF TypeOK
  <2>2. Append(client[r], event) \in Seq(ClientEvents)
    BY <2>1
  <2>3. QED
    BY <2>1, <2>2 DEF Yield
<1>5. \A type \in EventTypes, seq \in Nat : YieldAssigned(r, type, seq) =>
         client' \in [Requests -> Seq(ClientEvents)] /\ sequence' \in [Requests -> Nat]
  BY <1>2, <1>4 DEF YieldAssigned, TypeOK
<1>6. reply[r].seq \in Nat /\ sequence[r] \in Nat
  BY DEF TypeOK, StoreTypeOK, Replies
<1>7. NoReply \in Replies
  BY DEF NoReply, Replies
<1>8. CASE Emit(r)
  <2>1. Command("AppendEvent", r, r, NoRow, <<NextEvent(r)>>) \in Commands
    BY CommandType, EventListType, <1>1 DEF NoRow, Rows, Statuses
  <2>2. mailbox' \in Seq(Commands) /\ reply' \in [Requests -> Replies]
    BY <1>8, <2>1, SendType DEF Emit, TypeOK, StoreTypeOK
  <2>3. client' \in [Requests -> Seq(ClientEvents)] /\ sequence' \in [Requests -> Nat]
    BY <1>8, <1>1, <1>5, <1>6 DEF Emit, TypeOK
  <2>4. pc' \in [Requests -> Places2]
    BY <1>8 DEF Emit, TypeOK
  <2>5. QED
    BY <1>8, <2>2, <2>3, <2>4 DEF Emit, TypeOK, StoreTypeOK
<1>9. CASE EventStored(r)
  <2>1. client' \in [Requests -> Seq(ClientEvents)] /\ sequence' \in [Requests -> Nat]
    BY <1>9, <1>1, <1>5, <1>6 DEF EventStored
  <2>2. pc' \in [Requests -> Places2]
    BY <1>9 DEF EventStored, TypeOK
  <2>3. reply' \in [Requests -> Replies]
    BY <1>9, <1>7 DEF EventStored, TypeOK, StoreTypeOK
  <2>4. QED
    BY <1>9, <2>1, <2>2, <2>3 DEF EventStored, TypeOK, StoreTypeOK
<1>10. CASE UpstreamEventHandled(r)
  <2>1. snapshot' \in [Requests -> Rows]
    <3>1. snapshot \in [Requests -> Rows] /\ snapshot[r] \in Rows
      BY DEF TypeOK
    <3>2. PICK final \in Statuses : snapshot' = [snapshot EXCEPT ![r].shown = final]
      BY <1>10 DEF UpstreamEventHandled, Statuses, Final
    <3>3. [snapshot[r] EXCEPT !.shown = final] \in Rows
      BY <3>1 DEF Rows
    <3>4. QED
      BY <3>1, <3>2, <3>3
  <2>2. QED
    BY <1>10, <2>1 DEF UpstreamEventHandled, TypeOK, StoreTypeOK, storeVars
<1>11. CASE StoreFailed(r)
  <2>1. MarkIncomplete(r, "incomplete") \in Commands
    BY CommandType, EventListType DEF MarkIncomplete, Rows, Statuses, Final, EventTypes
  <2>2. mailbox' \in Seq(Commands)
    BY <1>11, <2>1, PostType DEF StoreFailed
  <2>3. [type |-> "incomplete", seq |-> sequence[r], lost |-> TRUE] \in ClientEvents
    BY <1>6 DEF ClientEvents, EventTypes, Final
  <2>4. client' \in [Requests -> Seq(ClientEvents)]
    BY <1>11, <1>4, <2>3 DEF StoreFailed
  <2>5. Row("incomplete") \in Rows
    BY RowType DEF Statuses, Final
  <2>6. QED
    BY <1>11, <2>2, <2>4, <2>5, <1>7 DEF StoreFailed, AfterStoreError, TypeOK, StoreTypeOK
<1>12. CASE CloseStream(r)
  <2>1. PICK final \in Final :
           IF mode[r].store
           THEN /\ Send(Command("Transition", r, r, Row(final), <<final>>))
                /\ pending' = [pending EXCEPT ![r] = final]
                /\ Goto(r, "close")
                /\ UNCHANGED <<client, sequence, snapshot>>
           ELSE /\ YieldAssigned(r, final, sequence[r])
                /\ snapshot' = [snapshot EXCEPT ![r] = Row(final)]
                /\ Goto(r, "returned")
                /\ UNCHANGED <<pending, mailbox, reply>>
    BY <1>12 DEF CloseStream
  <2>2. Row(final) \in Rows
    BY RowType, <1>3
  <2>3. Command("Transition", r, r, Row(final), <<final>>) \in Commands
    BY CommandType, EventListType, <1>3, <2>2
  <2>4. mailbox' \in Seq(Commands) /\ reply' \in [Requests -> Replies]
    BY <2>1, <2>3, SendType DEF TypeOK, StoreTypeOK
  <2>5. client' \in [Requests -> Seq(ClientEvents)] /\ sequence' \in [Requests -> Nat]
    BY <2>1, <1>3, <1>5, <1>6 DEF TypeOK
  <2>6. pc' \in [Requests -> Places2] /\ pending' \in [Requests -> Final \cup {"none"}]
    BY <2>1 DEF TypeOK
  <2>7. snapshot' \in [Requests -> Rows]
    BY <2>1, <2>2 DEF TypeOK
  <2>8. QED
    BY <1>12, <2>4, <2>5, <2>6, <2>7 DEF CloseStream, TypeOK, StoreTypeOK
<1>13. CASE StreamClosed(r)
  <2>1. pending[r] \in Final
    BY <1>13 DEF StreamClosed, TaskKnows
  <2>2. client' \in [Requests -> Seq(ClientEvents)] /\ sequence' \in [Requests -> Nat]
    BY <1>13, <2>1, <1>3, <1>5, <1>6 DEF StreamClosed
  <2>3. Row(pending[r]) \in Rows
    BY <2>1, <1>3, RowType
  <2>4. snapshot' \in [Requests -> Rows]
    BY <1>13, <2>3 DEF StreamClosed, TypeOK
  <2>5. pc' \in [Requests -> Places2] /\ reply' \in [Requests -> Replies]
    BY <1>13, <1>7 DEF StreamClosed, TypeOK, StoreTypeOK
  <2>6. QED
    BY <1>13, <2>2, <2>4, <2>5 DEF StreamClosed, TypeOK, StoreTypeOK
<1>14. QED
  BY <1>8, <1>9, <1>10, <1>11, <1>12, <1>13

\* What taking the oldest command leaves of the queue.
LEMMA TailFacts ==
    ASSUME TypeOK, mailbox # <<>>
    PROVE  /\ Head(mailbox) = mailbox[1]
           /\ Head(mailbox) \in Commands
           /\ Len(mailbox) \in Nat \ {0}
           /\ Tail(mailbox) \in Seq(Commands)
           /\ Len(Tail(mailbox)) = Len(mailbox) - 1
           /\ \A i \in 1..(Len(mailbox) - 1) : Tail(mailbox)[i] = mailbox[i + 1]
<1>1. mailbox \in Seq(Commands)
  BY DEF TypeOK, StoreTypeOK
<1>2. QED
  BY <1>1

\* A reply reaches its caller if it waits, and nobody else.
LEMMA AnswerType ==
    ASSUME TypeOK, NEW r \in Requests, NEW value \in Replies, Answer(r, value)
    PROVE  /\ reply' \in [Requests -> Replies]
           /\ \A q \in Requests : q # r \/ reply[q].kind # "waiting" => reply'[q] = reply[q]
           /\ reply[r].kind = "waiting" => reply'[r] = value
  BY DEF Answer, TypeOK, StoreTypeOK

\* What the tables look like after the events of a command were appended.
LEMMA AppendedLog ==
    ASSUME TypeOK, SequenceContiguous, NEW c \in Commands
    PROVE  LET events == AppendEvents(log[c.id], c.events)
           IN /\ events \in Seq(LogRows)
              /\ Contiguous(events)
              /\ Len(events) = Len(log[c.id]) + Len(c.events)
              /\ \A i \in 1..Len(log[c.id]) : events[i] = log[c.id][i]
              /\ \A i \in 1..Len(c.events) :
                    events[Len(log[c.id]) + i].type = c.events[i]
              /\ c.events # <<>> => /\ LastSeq(events) = Len(events) - 1
                                    /\ Len(events) \in Nat \ {0}
                                    /\ events[Len(events)].type = c.events[Len(c.events)]
<1>1. log[c.id] \in Seq(LogRows) /\ c.events \in Seq(EventTypes) /\ c.id \in Requests
  BY DEF TypeOK, StoreTypeOK, LogRows, Commands
<1>2. Contiguous(log[c.id])
  BY <1>1 DEF SequenceContiguous, Contiguous
<1>3. QED
  BY <1>1, <1>2, AppendEventsExtends

\* An AppendEvent carries one event, which does not end the response.
LEMMA AppendShape ==
    ASSUME NEW c, CommandShape(c), c.op = "AppendEvent"
    PROVE  c.events # <<>> /\ Len(c.events) = 1 /\ c.events[1] \in ProgressTypes
<1>1. PICK type \in ProgressTypes : c.events = <<type>>
  BY DEF CommandShape
<1>2. QED
  BY <1>1

\* A transition carries the event of the new status, last, and no other such.
LEMMA CloseShape ==
    ASSUME NEW c, CommandShape(c), c.op \in {"Transition", "TransitionIfInProgress"}
    PROVE  \E final \in Final :
              /\ c.set = Row(final)
              /\ c.events # <<>>
              /\ Len(c.events) \in Nat \ {0}
              /\ c.events[Len(c.events)] = final
              /\ \A i \in 1..(Len(c.events) - 1) : c.events[i] \notin Final
<1>1. PICK final \in Final :
         /\ c.set = Row(final)
         /\ \/ c.events = <<final>>
            \/ c.events = <<"created", "in_progress", final>>
            \/ c.events = <<"created", "in_progress", "item", final>>
  BY DEF CommandShape, Final
<1>2. "created" \notin Final /\ "in_progress" \notin Final /\ "item" \notin Final
  BY DEF Final
<1>3. CASE c.events = <<final>>
  BY <1>1, <1>3
<1>4. CASE c.events = <<"created", "in_progress", final>>
  BY <1>1, <1>2, <1>4
<1>5. CASE c.events = <<"created", "in_progress", "item", final>>
  BY <1>1, <1>2, <1>5
<1>6. QED
  BY <1>1, <1>3, <1>4, <1>5

\* Every command that the actor runs keeps the types of the tables and replies.
LEMMA StoreTypes ==
    ASSUME TypeOK, SequenceContiguous, QueueSound, StoreStep
    PROVE  TypeOK'
<1> DEFINE c == Head(mailbox)
           appended == AppendEvents(log[c.id], c.events)
<1> USE DEF Take
<1>1. PICK fault \in Faults \cup {"none"} :
         \/ ServeCreate(fault) \/ ServeTransition(fault) \/ ServeTransitionIfInProgress(fault)
         \/ ServeGet(fault) \/ ServeDelete(fault) \/ ServeAppendEvent(fault)
  BY DEF StoreStep, Serve
<1>2. mailbox # <<>> /\ mailbox' = Tail(mailbox) /\ UNCHANGED actor
  BY <1>1 DEF ServeCreate, ServeTransition, ServeTransitionIfInProgress, ServeGet,
              ServeDelete, ServeAppendEvent
<1>3. c \in Commands /\ c = mailbox[1] /\ mailbox' \in Seq(Commands) /\ 1 \in 1..Len(mailbox)
  BY <1>2, TailFacts
<1>4. c.id \in Requests /\ c.caller \in Requests /\ c.set \in Rows
  BY <1>3 DEF Commands
<1>5. appended \in Seq(LogRows) /\ Contiguous(appended)
      /\ Len(appended) = Len(log[c.id]) + Len(c.events)
  BY <1>3, AppendedLog
<1>6. [log EXCEPT ![c.id] = appended] \in [Requests -> Seq(LogRows)]
  BY <1>5 DEF TypeOK, StoreTypeOK, LogRows
<1>7. [row EXCEPT ![c.id] = c.set] \in [Requests -> Rows]
  BY <1>4 DEF TypeOK, StoreTypeOK
<1>8. c.op \in Writers => LastSeq(appended) \in Nat
  <2>1. CommandShape(c)
    BY <1>3 DEF QueueSound
  <2>2. c.op \in Writers => c.events # <<>>
    BY <2>1, AppendShape, CloseShape DEF Writers
  <2>3. c.events # <<>> =>
           LastSeq(appended) = Len(appended) - 1 /\ Len(appended) \in Nat \ {0}
    BY <1>3, AppendedLog
  <2>4. \A n \in Nat \ {0} : n - 1 \in Nat
    OBVIOUS
  <2> HIDE DEF appended
  <2>5. QED
    BY <2>2, <2>3, <2>4
<1>9. Failure \in Replies /\ \A seq \in Nat : Ok(seq) \in Replies
  BY DEF Ok, Failure, Replies
<1>10. row \in [Requests -> Rows] /\ log \in [Requests -> Seq(LogRows)]
       /\ reply \in [Requests -> Replies] /\ deleted \subseteq Requests
  BY DEF TypeOK, StoreTypeOK, LogRows
<1> SUFFICES /\ row' \in [Requests -> Rows]
             /\ log' \in [Requests -> Seq(LogRows)]
             /\ reply' \in [Requests -> Replies]
             /\ deleted' \subseteq Requests
  BY <1>2, <1>3 DEF StoreStep, TypeOK, StoreTypeOK, taskVars, LogRows
<1>11. CASE ServeCreate(fault)
  <2>1. PICK value \in Replies : Answer(c.caller, value)
    BY <1>11, <1>9 DEF ServeCreate, Outcome
  <2>2. QED
    BY <1>11, <1>4, <1>7, <1>10, <2>1, AnswerType DEF ServeCreate
<1>12. CASE ServeTransition(fault)
  <2>1. LastSeq(appended) \in Nat
    BY <1>8, <1>12 DEF ServeTransition, Writers
  <2>2. PICK value \in Replies : Answer(c.caller, value)
    BY <1>12, <1>9, <2>1 DEF ServeTransition, Outcome
  <2>3. QED
    BY <1>12, <1>4, <1>6, <1>7, <1>10, <2>2, AnswerType DEF ServeTransition
<1>13. CASE ServeTransitionIfInProgress(fault)
  BY <1>13, <1>6, <1>7, <1>10 DEF ServeTransitionIfInProgress
<1>14. CASE ServeGet(fault)
  <2>1. [Failure EXCEPT !.kind = "missing"] \in Replies
    BY DEF Failure, Replies
  <2>2. PICK value \in Replies : Answer(c.caller, value)
    BY <1>14, <1>9, <2>1 DEF ServeGet
  <2>3. QED
    BY <1>14, <1>4, <1>10, <2>2, AnswerType DEF ServeGet
<1>15. CASE ServeDelete(fault)
  <2>1. NoRow \in Rows /\ <<>> \in Seq(LogRows)
    BY DEF NoRow, Rows, Statuses
  <2>2. [row EXCEPT ![c.id] = NoRow] \in [Requests -> Rows]
    BY <1>4, <1>10, <2>1
  <2>3. CascadeEvents(c.id) \in [Requests -> Seq(LogRows)]
    BY <1>4, <1>10, <2>1 DEF CascadeEvents
  <2>4. QED
    BY <1>15, <1>4, <1>10, <2>2, <2>3 DEF ServeDelete
<1>16. CASE ServeAppendEvent(fault)
  <2>1. LastSeq(appended) \in Nat
    BY <1>8, <1>16 DEF ServeAppendEvent, Writers
  <2>2. PICK value \in Replies : Answer(c.caller, value)
    BY <1>16, <1>9, <2>1 DEF ServeAppendEvent, Outcome
  <2>3. QED
    BY <1>16, <1>4, <1>6, <1>10, <2>2, AnswerType DEF ServeAppendEvent
<1>17. QED
  BY <1>1, <1>11, <1>12, <1>13, <1>14, <1>15, <1>16

\* A client that leaves or deletes, an outage and a crash keep the types.
LEMMA EnvironmentType ==
    ASSUME TypeOK,
           \/ \E r \in Requests : Disconnect(r) \/ RequestDelete(r)
           \/ ActorEnds
           \/ Crash
    PROVE  TypeOK'
<1>1. NoReply \in Replies /\ Failure \in Replies /\ NoRow \in Rows
  BY DEF NoReply, Failure, Replies, NoRow, Rows, Statuses
<1>2. <<>> \in Seq(Commands)
  OBVIOUS
<1>3. ASSUME NEW r \in Requests, Disconnect(r) PROVE TypeOK'
  <2>1. MarkIncomplete(r, "incomplete") \in Commands
    BY CommandType, EventListType DEF MarkIncomplete, Rows, Statuses, Final, EventTypes
  <2>2. mailbox' \in Seq(Commands)
    BY <1>3, <2>1, PostType DEF Disconnect, DisconnectDocument, TypeOK, StoreTypeOK
  <2>3. reply' \in [Requests -> Replies]
    BY <1>3, <1>1 DEF Disconnect, Taken, TypeOK, StoreTypeOK
  <2>4. pc' \in [Requests -> {"new"} \cup InHandler \cup InStream \cup Over]
    BY <1>3 DEF Disconnect, Goto, Over, TypeOK
  <2>5. QED
    BY <1>3, <2>2, <2>3, <2>4 DEF Disconnect, TypeOK, StoreTypeOK
<1>4. ASSUME NEW r \in Requests, RequestDelete(r) PROVE TypeOK'
  <2>1. Command("Delete", r, r, NoRow, <<>>) \in Commands
    BY <1>1, CommandType, EventListType
  <2>2. mailbox' \in Seq(Commands)
    BY <1>4, <2>1, PostType DEF RequestDelete
  <2>3. QED
    BY <1>4, <2>2 DEF RequestDelete, TypeOK, StoreTypeOK, taskVars
<1>5. CASE ActorEnds
  BY <1>5, <1>1, <1>2 DEF ActorEnds, StopActor, SendersDropped, TypeOK, StoreTypeOK, taskVars
<1>6. CASE Crash
  <2>1. pc' \in [Requests -> {"new"} \cup InHandler \cup InStream \cup Over]
    BY <1>6 DEF Crash, Over, TypeOK
  <2>2. crashes' \in Nat
    BY <1>6 DEF Crash, TypeOK
  <2>3. QED
    BY <1>6, <1>1, <1>2, <2>1, <2>2 DEF Crash, TypeOK, StoreTypeOK
<1>7. QED
  BY <1>3, <1>4, <1>5, <1>6

-----------------------------------------------------------------------------
(* The invariant, cut.                                                      *)

\* What the invariant says of the record of one response ...
RecordSound(id) ==
    /\ Exists(id) \/ log[id] = <<>>
    /\ \A i \in 1..Len(log[id]) :
          /\ log[id][i].seq = i - 1
          /\ log[id][i].type \in Final => i = Len(log[id]) /\ log[id][i].type = row[id].status
    /\ row[id].status \in Final =>
          log[id] # <<>> /\ log[id][Len(log[id])].type = row[id].status
    /\ row[id].shown = row[id].status
    /\ id \in deleted => row[id] = NoRow

\* ... and of what its client was sent and answered.
ClientSound(r) ==
    /\ \A k \in 1..Len(client[r]) :
          /\ client[r][k].seq = k - 1
          /\ client[r][k].type \in Final => k = Len(client[r])
    /\ mode[r].store /\ r \notin deleted =>
          \A k \in 1..Len(client[r]) : ~client[r][k].lost =>
              k <= Len(log[r]) /\ log[r][k].type = client[r][k].type
    /\ answer[r] = "ok" /\ mode[r].store /\ r \notin deleted =>
          row[r].status \in {"completed", "incomplete"}

RequestSound(r) == TaskKnows(r) /\ ClientTracksLog(r) /\ RecordSound(r) /\ ClientSound(r)
RequestsSound == \A r \in Requests : RequestSound(r)

\* The index sets of the logs and of what the clients were sent.
LEMMA Domains ==
    ASSUME TypeOK, NEW r \in Requests
    PROVE  /\ DOMAIN log[r] = 1..Len(log[r]) /\ Len(log[r]) \in Nat
           /\ DOMAIN client[r] = 1..Len(client[r]) /\ Len(client[r]) \in Nat
           /\ \A k \in DOMAIN client[r] : client[r][k].seq \in Nat
           /\ \A k \in DOMAIN log[r] : log[r][k].seq \in Nat
<1>1. log[r] \in Seq(LogRows) /\ client[r] \in Seq(ClientEvents)
  BY DEF TypeOK, StoreTypeOK, LogRows
<1>2. /\ \A k \in 1..Len(log[r]) : log[r][k] \in LogRows
      /\ \A k \in 1..Len(client[r]) : client[r][k] \in ClientEvents
  BY <1>1
<1>3. QED
  BY <1>1, <1>2 DEF LogRows, ClientEvents

\* What the invariant says, regrouped by request.
LEMMA InvariantGives ==
    ASSUME IInv
    PROVE  /\ TypeOK /\ QueueOrder /\ QueueSound /\ SequenceContiguous
           /\ \A r \in Requests : RequestSound(r)
<1>1. TypeOK /\ QueueOrder /\ QueueSound /\ SequenceContiguous
  BY DEF IInv
<1>2. ASSUME NEW r \in Requests PROVE RequestSound(r)
  <2>1. TaskKnows(r) /\ ClientTracksLog(r)
    BY DEF IInv
  <2>2. RecordSound(r)
    BY <1>1, Domains DEF IInv, RecordSound, LogMatchesStatus, SequenceContiguous,
                         DocumentMatchesStatus, DeletedStaysAway
  <2>3. ClientSound(r)
    <3>1. \A k \in 1..Len(client[r]) :
             /\ client[r][k].seq = k - 1
             /\ client[r][k].type \in Final => k = Len(client[r])
      BY <1>1, Domains DEF IInv, ClientStreamWellFormed
    <3>2. ASSUME mode[r].store, r \notin deleted, NEW k \in 1..Len(client[r]),
                 ~client[r][k].lost
          PROVE  k <= Len(log[r]) /\ log[r][k].type = client[r][k].type
      <4>1. client[r][k].seq + 1 = k
        BY <3>1, <1>1, Domains
      <4>2. QED
        BY <3>2, <4>1, <1>1, Domains DEF IInv, ReplayFaithful
    <3>3. QED
      BY <3>1, <3>2 DEF ClientSound, IInv, AnswerIsStored
  <2>4. QED
    BY <2>1, <2>2, <2>3 DEF RequestSound
<1>3. QED
  BY <1>1, <1>2

\* The invariant, from what it says regrouped by request.
LEMMA InvariantFrom ==
    TypeOK /\ QueueOrder /\ QueueSound /\ RequestsSound => IInv
<1> SUFFICES ASSUME TypeOK, QueueOrder, QueueSound, \A r \in Requests : RequestSound(r)
             PROVE  IInv
  BY DEF RequestsSound
<1>1. \A r \in Requests : TaskKnows(r) /\ ClientTracksLog(r) /\ RecordSound(r) /\ ClientSound(r)
  BY DEF RequestSound
<1>2. LogMatchesStatus /\ SequenceContiguous /\ DocumentMatchesStatus /\ DeletedStaysAway
  <2>1. deleted \subseteq Requests
    BY DEF TypeOK, StoreTypeOK
  <2>2. QED
    BY <1>1, <2>1, Domains DEF RecordSound, LogMatchesStatus, SequenceContiguous,
                               DocumentMatchesStatus, DeletedStaysAway
<1>3. ClientStreamWellFormed /\ AnswerIsStored
  BY <1>1, Domains DEF ClientSound, ClientStreamWellFormed, AnswerIsStored
<1>4. ReplayFaithful
  <2> SUFFICES ASSUME NEW r \in Requests, mode[r].store, r \notin deleted,
                      NEW k \in 1..Len(client[r]), ~client[r][k].lost
               PROVE  /\ client[r][k].seq + 1 \in DOMAIN log[r]
                      /\ log[r][client[r][k].seq + 1].type = client[r][k].type
    BY Domains DEF ReplayFaithful
  <2>1. client[r][k].seq + 1 = k
    BY <1>1, Domains DEF ClientSound
  <2>2. QED
    BY <2>1, <1>1, Domains DEF ClientSound
<1>5. QED
  BY <1>1, <1>2, <1>3, <1>4 DEF IInv

-----------------------------------------------------------------------------
\* The invariant holds initially, when nothing is queued or stored.
LEMMA InitInvariant == Init => IInv
<1> SUFFICES ASSUME Init PROVE IInv
  OBVIOUS
<1>1. TypeOK
  BY InitType
<1>2. mailbox = <<>> /\ Len(mailbox) = 0
  BY DEF Init, StoreInit
<1>3. QueueOrder /\ QueueSound
  BY <1>2 DEF QueueOrder, QueueSound
<1>4. ASSUME NEW r \in Requests PROVE RequestSound(r)
  <2>1. /\ pc[r] = "new" /\ client[r] = <<>> /\ log[r] = <<>> /\ row[r] = NoRow
        /\ deleted = {} /\ answer[r] = "none" /\ sequence[r] = 0
    BY DEF Init, StoreInit
  <2>2. TaskKnows(r) /\ ClientTracksLog(r)
    BY <2>1 DEF TaskKnows, ClientTracksLog
  <2>3. RecordSound(r) /\ ClientSound(r)
    BY <2>1 DEF RecordSound, ClientSound, NoRow, Final
  <2>4. QED
    BY <2>2, <2>3 DEF RequestSound
<1>5. QED
  BY <1>1, <1>3, <1>4, InvariantFrom DEF RequestsSound

\* A task that no step touches keeps its part of the invariant.
Untouched(r) ==
    /\ pc'[r] = pc[r] /\ mode'[r] = mode[r] /\ pending'[r] = pending[r]
    /\ sequence'[r] = sequence[r] /\ client'[r] = client[r] /\ answer'[r] = answer[r]
    /\ reply'[r] = reply[r]
    /\ row'[r] = row[r] /\ log'[r] = log[r] /\ (r \in deleted' <=> r \in deleted)

\* A request that a step does not touch stays sound.
LEMMA UntouchedSound ==
    ASSUME NEW r \in Requests, RequestSound(r), Untouched(r)
    PROVE  RequestSound(r)'
<1>1. TaskKnows(r)'
  BY DEF RequestSound, Untouched, TaskKnows, OpenOrDeleted
<1>2. ClientTracksLog(r)'
  BY DEF RequestSound, Untouched, ClientTracksLog, NextEvent
<1>3. RecordSound(r)'
  BY DEF RequestSound, Untouched, RecordSound, Exists
<1>4. ClientSound(r)'
  BY DEF RequestSound, Untouched, ClientSound
<1>5. QED
  BY <1>1, <1>2, <1>3, <1>4 DEF RequestSound

\* No command of r is queued, deletes of its response apart.
Quiet(r) == \A i \in 1..Len(mailbox) : mailbox[i].caller = r => mailbox[i].op = "Delete"

\* A task that is not over and has nothing in flight has no command queued.
LEMMA QuietTask ==
    ASSUME QueueSound, NEW r \in Requests, pc[r] \notin Over,
           \/ reply[r].kind # "waiting"
           \/ pc[r] \in {"new", "resolve", "upstream", "live"}
    PROVE  Quiet(r)
  BY DEF QueueSound, CallerWaits, Quiet

\* The queue after a step of the task of r, or of its client: the tables stay,
\* other tasks stay, and r may have queued a command c behind the others.
LEMMA QueueAfterTask ==
    ASSUME TypeOK, QueueOrder, QueueSound, NEW r \in Requests,
           UNCHANGED <<row, deleted>>,
           \A q \in Requests \ {r} : /\ pc'[q] = pc[q] /\ reply'[q] = reply[q]
                                     /\ client'[q] = client[q] /\ pending'[q] = pending[q],
           Quiet(r) \/ pc'[r] \in Over,
           \/ mailbox' = mailbox
           \/ \E c \in Commands :
                 /\ mailbox' = Append(mailbox, c)
                 /\ c.caller = r
                 /\ c.op \in Awaited => Quiet(r)
                 /\ CommandShape(c) /\ CallerWaits(c)' /\ WriteFinds(c)
    PROVE  QueueOrder' /\ QueueSound'
<1>1. mailbox \in Seq(Commands) /\ Len(mailbox) \in Nat
  BY DEF TypeOK, StoreTypeOK
<1>2. \A d : WriteFinds(d)' <=> WriteFinds(d)
  BY DEF WriteFinds, OpenOrDeleted
<1>3. ASSUME NEW i \in 1..Len(mailbox) PROVE CallerWaits(mailbox[i])'
  <2>1. mailbox[i] \in Commands /\ CallerWaits(mailbox[i])
    BY <1>1, <1>3 DEF QueueSound
  <2>2. CASE mailbox[i].caller = r
    BY <2>1, <2>2, <1>3 DEF CallerWaits, Quiet
  <2>3. CASE mailbox[i].caller # r
    BY <2>1, <2>3 DEF CallerWaits, Commands, NextEvent
  <2>4. QED
    BY <2>2, <2>3
<1>4. CASE mailbox' = mailbox
  BY <1>2, <1>3, <1>4 DEF QueueOrder, QueueSound, CommandShape
<1>5. ASSUME NEW c \in Commands,
             mailbox' = Append(mailbox, c),
             c.caller = r,
             c.op \in Awaited => Quiet(r),
             CommandShape(c), CallerWaits(c)', WriteFinds(c)
      PROVE  QueueOrder' /\ QueueSound'
  <2>1. /\ Len(mailbox') = Len(mailbox) + 1
        /\ \A i \in 1..Len(mailbox) : mailbox'[i] = mailbox[i]
        /\ mailbox'[Len(mailbox) + 1] = c
    BY <1>1, <1>5
  <2>2. \A i \in 1..(Len(mailbox) + 1) : i \in 1..Len(mailbox) \/ i = Len(mailbox) + 1
    BY <1>1
  <2>3. QueueSound'
    BY <1>2, <1>3, <1>5, <2>1, <2>2 DEF QueueSound, CommandShape
  <2>4. QueueOrder'
    <3> SUFFICES ASSUME NEW i \in 1..(Len(mailbox) + 1), NEW j \in 1..(Len(mailbox) + 1), i < j,
                        mailbox'[i].caller = mailbox'[j].caller, mailbox'[j].op \in Awaited
                 PROVE  mailbox'[i].op = "Delete"
      BY <2>1 DEF QueueOrder
    <3>1. i \in 1..Len(mailbox) /\ mailbox'[i] = mailbox[i]
      BY <1>1, <2>1
    <3>2. CASE j \in 1..Len(mailbox)
      BY <3>1, <3>2, <2>1 DEF QueueOrder
    <3>3. CASE j = Len(mailbox) + 1
      BY <3>1, <3>3, <2>1, <1>5 DEF Quiet
    <3>4. QED
      BY <3>2, <3>3, <2>2
  <2>5. QED
    BY <2>3, <2>4
<1>6. QED
  BY <1>4, <1>5

\* What Send and Post do to the queue of QueueAfterTask.
LEMMA SendQueues ==
    ASSUME TypeOK, NEW c \in Commands, Send(c)
    PROVE  /\ \/ mailbox' = mailbox /\ reply'[c.caller] = Failure
              \/ mailbox' = Append(mailbox, c) /\ reply'[c.caller] = Waiting
           /\ \A q \in Requests \ {c.caller} : reply'[q] = reply[q]
  BY DEF Send, TypeOK, StoreTypeOK, Commands

-----------------------------------------------------------------------------
(* The steps of a task leave the tables alone. *)

\* A step of one task keeps the invariant if the queue, and the request whose
\* task it is, stay sound.
LEMMA TaskStepSound ==
    ASSUME IInv, TypeOK', QueueOrder', QueueSound',
           NEW r \in Requests, \A q \in Requests \ {r} : Untouched(q), RequestSound(r)'
    PROVE  IInv'
<1>1. \A q \in Requests : RequestSound(q)'
  BY InvariantGives, UntouchedSound
<1>2. TypeOK' /\ QueueOrder' /\ QueueSound' /\ RequestsSound'
  BY <1>1 DEF RequestsSound
<1>3. QED
  BY <1>2, InvariantFrom, PTL

\* The record of a request stays sound if its tables do not change.
LEMMA RecordStays ==
    ASSUME NEW r \in Requests, RecordSound(r), UNCHANGED <<row, log, deleted>>
    PROVE  RecordSound(r)'
  BY DEF RecordSound, Exists

\* The handler's steps that send nothing.
LEMMA HandlerReads ==
    ASSUME IInv, NEW r \in Requests,
           \/ PreviousRead(r) \/ ModelRefused(r) \/ Created(r) \/ FailureStored(r)
           \/ AnswerStored(r) \/ UpstreamOpened(r)
    PROVE  IInv'
<1> USE InvariantGives
<1>1. TypeOK'
  BY HandlerType
<1>2. /\ UNCHANGED <<row, log, mailbox, deleted, mode, pending, sequence, client>>
      /\ pc[r] \in InHandler
      /\ \A q \in Requests \ {r} : pc'[q] = pc[q] /\ reply'[q] = reply[q] /\ answer'[q] = answer[q]
      /\ reply[r].kind # "waiting" \/ pc[r] \in {"resolve", "upstream"}
  BY DEF PreviousRead, ModelRefused, Created, FailureStored, AnswerStored, UpstreamOpened,
         Goto, Return, Taken, Got, InHandler, TypeOK, StoreTypeOK, storeVars
<1>3. \A q \in Requests \ {r} : Untouched(q)
  BY <1>2 DEF Untouched
<1>4. Quiet(r)
  BY <1>2, QuietTask DEF InHandler, Over
<1>5. QueueOrder' /\ QueueSound'
  BY <1>2, <1>4, QueueAfterTask
<1>6. RequestSound(r)
  OBVIOUS
<1>7. /\ pc'[r] \in {"resolve", "upstream", "returned", "live"}
      /\ pc'[r] = "resolve" => pc[r] = "previous" /\ answer' = answer
      /\ pc'[r] = "upstream" => pc[r] = "create" /\ reply[r].kind = "ok" /\ answer' = answer
      /\ pc'[r] = "live" => pc[r] = "upstream" /\ answer' = answer
      /\ pc'[r] = "returned" => answer'[r] \in {"error", "ok"}
      /\ answer'[r] = "ok" => \/ answer[r] = "ok"
                              \/ pc[r] = "finish" /\ reply[r].kind = "ok"
  BY DEF PreviousRead, ModelRefused, Created, FailureStored, AnswerStored, UpstreamOpened,
         Goto, Return, Taken, Got, AnswerAfter, TypeOK, StoreTypeOK
<1>8. TaskKnows(r)'
  BY <1>2, <1>6, <1>7 DEF RequestSound, TaskKnows, OpenOrDeleted
<1>9. ClientTracksLog(r)'
  <2>1. Len(<<>>) = 0
    OBVIOUS
  <2>2. QED
    BY <1>2, <1>6, <1>7, <2>1 DEF RequestSound, TaskKnows, ClientTracksLog, Over, InHandler
<1>10. RecordSound(r)'
  BY <1>2, <1>6, RecordStays DEF RequestSound
<1>11. ClientSound(r)'
  BY <1>2, <1>6, <1>7 DEF RequestSound, TaskKnows, ClientSound
<1>12. RequestSound(r)'
  BY <1>8, <1>9, <1>10, <1>11 DEF RequestSound
<1>13. QED
  BY <1>1, <1>3, <1>5, <1>12, TaskStepSound

\* The handler's steps that send a command, or go on without the store.
LEMMA HandlerSends ==
    ASSUME IInv, NEW r \in Requests,
           \/ Receive(r) \/ ModelResolved(r) \/ UpstreamFailed(r) \/ GenerationDone(r)
    PROVE  IInv'
<1> USE InvariantGives
<1>1. TypeOK'
  BY HandlerType
<1>2. RequestSound(r) /\ TaskKnows(r) /\ RecordSound(r)
  BY DEF RequestSound
<1>3. Quiet(r)
  BY QuietTask DEF Receive, ModelResolved, UpstreamFailed, GenerationDone, Over
\* What is sent, and where the task then waits for it.
<1> DEFINE Fits(c) == /\ c \in Commands /\ c.caller = r /\ CommandShape(c) /\ WriteFinds(c)
                      /\ \/ c.op = "Get" /\ pc'[r] = "previous"
                         \/ c.op = "Create" /\ pc'[r] = "create"
                         \/ c.op = "Transition" /\ pc'[r] = "fail"
                         \/ /\ c.op = "Transition" /\ pc'[r] = "finish"
                            /\ c.set.status \in {"completed", "incomplete"}
<1>4. \/ UNCHANGED <<mailbox, reply>> /\ pc'[r] \in {"resolve", "upstream", "returned"}
      \/ \E c : Fits(c) /\ Send(c)
  <2>1. CASE Receive(r)
    <3>1. ASSUME NEW previous \in Requests,
                 Send(Command("Get", previous, r, NoRow, <<>>)), Goto(r, "previous")
          PROVE  Fits(Command("Get", previous, r, NoRow, <<>>))
      <4>1. Command("Get", previous, r, NoRow, <<>>) \in Commands
        BY CommandType, EventListType DEF NoRow, Rows, Statuses
      <4>2. QED
        BY <3>1, <4>1 DEF Command, CommandShape, WriteFinds, Writers, Goto, TypeOK
    <3>2. QED
      BY <2>1, <3>1 DEF Receive, storeVars, Goto, TypeOK
  <2>2. CASE ModelResolved(r)
    <3> DEFINE c == Command("Create", r, r, Row("in_progress"), <<>>)
    <3>1. c \in Commands
      BY CommandType, RowType, EventListType DEF Statuses
    <3>2. row[r] = NoRow /\ r \notin deleted
      BY <1>2, <2>2 DEF ModelResolved, TaskKnows
    <3>3. mode[r].store => Fits(c)
      BY <2>2, <3>1, <3>2 DEF ModelResolved, Command, CommandShape, WriteFinds, Writers, Goto, TypeOK
    <3>4. QED
      BY <2>2, <3>3 DEF ModelResolved, Goto, TypeOK
  <2>3. CASE UpstreamFailed(r)
    <3> DEFINE c == Command("Transition", r, r, Row("failed"), SetupFailureEvents)
    <3>1. c \in Commands
      BY CommandType, RowType, EventListType DEF Statuses, Final
    <3>2. CommandShape(c)
      BY DEF Command, CommandShape, SetupFailureEvents, Final
    <3>3. mode[r].store => OpenOrDeleted(r)
      BY <1>2, <2>3 DEF UpstreamFailed, TaskKnows
    <3>4. mode[r].store => Fits(c)
      BY <2>3, <3>1, <3>2, <3>3 DEF UpstreamFailed, Command, WriteFinds, Writers, Goto, TypeOK
    <3>5. QED
      BY <2>3, <3>4 DEF UpstreamFailed, Return, Goto, TypeOK
  <2>4. CASE GenerationDone(r)
    <3>1. mode[r].store => OpenOrDeleted(r)
      BY <1>2, <2>4 DEF GenerationDone, TaskKnows
    <3>2. ASSUME mode[r].store, NEW final \in {"completed", "incomplete"}, Goto(r, "finish")
          PROVE  Fits(Command("Transition", r, r, Row(final), StoredEvents(final)))
      <4> DEFINE c == Command("Transition", r, r, Row(final), StoredEvents(final))
      <4>1. c \in Commands
        BY CommandType, RowType, EventListType DEF Statuses, Final
      <4>2. CommandShape(c)
        BY DEF Command, CommandShape, StoredEvents, Final
      <4>3. QED
        BY <3>1, <3>2, <4>1, <4>2 DEF Command, Row, WriteFinds, Writers, Goto, TypeOK
    <3>3. QED
      BY <2>4, <3>2 DEF GenerationDone, Return, Goto, TypeOK
  <2>5. QED
    BY <2>1, <2>2, <2>3, <2>4
<1>5. /\ UNCHANGED <<row, log, deleted, pending, sequence, client>>
      /\ \A q \in Requests \ {r} : pc'[q] = pc[q] /\ answer'[q] = answer[q] /\ mode'[q] = mode[q]
      /\ mode' = mode \/ pc[r] = "new"
  BY DEF Receive, ModelResolved, UpstreamFailed, GenerationDone, Goto, Return, TypeOK, storeVars
<1>6. /\ \A q \in Requests \ {r} : reply'[q] = reply[q]
      /\ \A c : Fits(c) /\ Send(c) => \/ mailbox' = mailbox /\ reply'[r].kind = "error"
                                      \/ mailbox' = Append(mailbox, c) /\ reply'[r].kind = "waiting"
  BY <1>4, SendQueues DEF Failure, Waiting
<1>7. \A c : Fits(c) /\ reply'[r].kind = "waiting" => CallerWaits(c)'
  BY DEF CallerWaits
<1>8. \/ mailbox' = mailbox
      \/ \E c \in Commands : /\ mailbox' = Append(mailbox, c)
                             /\ c.caller = r
                             /\ CommandShape(c) /\ CallerWaits(c)' /\ WriteFinds(c)
  BY <1>4, <1>6, <1>7
<1>9. QueueOrder' /\ QueueSound'
  BY <1>3, <1>5, <1>6, <1>8, QueueAfterTask
<1>10. \A q \in Requests \ {r} : Untouched(q)
  BY <1>5, <1>6 DEF Untouched
<1>11. /\ pc'[r] \in {"previous", "resolve", "create", "upstream", "fail", "finish", "returned"}
       /\ pc'[r] \in {"previous", "resolve"} => pc[r] = "new"
       /\ pc'[r] = "create" => pc[r] = "resolve" /\ reply'[r].kind # "ok"
       /\ pc'[r] = "upstream" => pc[r] = "resolve" /\ ~mode'[r].store
       /\ pc'[r] \in {"fail", "finish"} => pc[r] = "upstream" /\ reply'[r].kind # "ok"
       /\ pc'[r] = "returned" => pc[r] = "upstream" /\ ~mode'[r].store
       /\ pc'[r] # "returned" => answer' = answer
       /\ pc[r] \in {"new", "resolve", "upstream"}
  BY <1>4, <1>6 DEF Receive, ModelResolved, UpstreamFailed, GenerationDone, Goto, Return, TypeOK
<1>12. TaskKnows(r)'
  BY <1>2, <1>5, <1>11 DEF TaskKnows, RecordSound, Exists, NoRow
<1>13. ClientTracksLog(r)'
  BY <1>2, <1>5, <1>11 DEF RequestSound, ClientTracksLog, Over
<1>14. RecordSound(r)'
  BY <1>2, <1>5, RecordStays
<1>15. ClientSound(r)'
  <2>1. Len(<<>>) = 0
    OBVIOUS
  <2>2. QED
    BY <1>2, <1>5, <1>11, <2>1 DEF RequestSound, TaskKnows, ClientSound
<1>16. QED
  BY <1>1, <1>9, <1>10, <1>12, <1>13, <1>14, <1>15, TaskStepSound DEF RequestSound

\* The next event yielded to the client of a stream that goes on until then.
LEMMA ClientGrows ==
    ASSUME IInv, NEW r \in Requests, pc[r] \in InStream,
           NEW event \in ClientEvents, Yield(r, event), event.seq = Len(client[r]),
           UNCHANGED <<row, log, deleted, mode, answer>>,
           mode[r].store /\ r \notin deleted /\ ~event.lost =>
               Len(log[r]) = Len(client[r]) + 1 /\ log[r][Len(log[r])].type = event.type
    PROVE  /\ ClientSound(r)'
           /\ Len(client'[r]) = Len(client[r]) + 1
           /\ \A q \in Requests \ {r} : client'[q] = client[q]
           /\ event.type \notin Final =>
                 \A k \in 1..Len(client'[r]) : client'[r][k].type \notin Final
<1> USE InvariantGives
<1>1. client \in [Requests -> Seq(ClientEvents)]
  BY DEF TypeOK
<1> DEFINE n == Len(client[r])
<1>2. /\ n \in Nat
      /\ Len(client'[r]) = n + 1
      /\ \A k \in 1..n : client'[r][k] = client[r][k]
      /\ client'[r][n + 1] = event
      /\ \A q \in Requests \ {r} : client'[q] = client[q]
  BY <1>1 DEF Yield
<1>3. \A k \in 1..(n + 1) : k \in 1..n \/ k = n + 1
  BY <1>2
<1>4. RequestSound(r) /\ TaskKnows(r) /\ ClientSound(r) /\ ClientTracksLog(r)
  BY DEF RequestSound
<1>5. \A k \in 1..n : client[r][k].type \notin Final
  BY <1>1, <1>4, Domains DEF ClientTracksLog, InStream, Over
<1>6. answer[r] # "ok"
  BY <1>4 DEF TaskKnows, InStream
<1> HIDE DEF n
<1>7. ASSUME NEW k \in 1..(n + 1)
      PROVE  /\ client'[r][k].seq = k - 1
             /\ client'[r][k].type \in Final => k = n + 1
  <2>1. CASE k \in 1..n
    BY <2>1, <1>2, <1>4, <1>5 DEF ClientSound, n
  <2>2. CASE k = n + 1
    BY <2>2, <1>2 DEF n
  <2>3. QED
    BY <2>1, <2>2, <1>3
<1>8. ASSUME mode[r].store, r \notin deleted, NEW k \in 1..(n + 1), ~client'[r][k].lost
      PROVE  k <= Len(log[r]) /\ log[r][k].type = client'[r][k].type
  <2>1. CASE k \in 1..n
    BY <1>8, <2>1, <1>2, <1>4 DEF ClientSound, n
  <2>2. CASE k = n + 1
    <3>1. event = client'[r][k]
      BY <2>2, <1>2
    <3>2. Len(log[r]) = k
      BY <1>8, <2>2, <3>1 DEF n
    <3>3. k \in Nat
      BY <1>2, <2>2
    <3>4. QED
      BY <1>8, <3>1, <3>2, <3>3
  <2>3. QED
    BY <2>1, <2>2, <1>3
<1>9. ClientSound(r)'
  BY <1>2, <1>6, <1>7, <1>8 DEF ClientSound
<1>10. QED
  BY <1>2, <1>3, <1>5, <1>9 DEF n

\* The event that comes next is never a terminal one.
LEMMA NextEventTypes == \A r \in Requests : NextEvent(r) \in ProgressTypes
  BY DEF NextEvent, ProgressTypes, EventTypes, Final

\* Of a stored stream, the live steps that send a command.
LEMMA StreamSends ==
    ASSUME IInv, NEW r \in Requests, mode[r].store, Emit(r) \/ CloseStream(r)
    PROVE  IInv'
<1> USE InvariantGives
<1>1. TypeOK' /\ TaskKnows(r) /\ ClientTracksLog(r) /\ ClientSound(r) /\ RecordSound(r)
  BY StreamType DEF RequestSound
<1>2. Quiet(r)
  BY QuietTask DEF Emit, CloseStream, Over
<1>3. OpenOrDeleted(r)
  BY <1>1 DEF Emit, CloseStream, TaskKnows
<1> DEFINE Fits(c) == /\ c \in Commands /\ c.caller = r /\ CommandShape(c) /\ WriteFinds(c)
                      /\ \/ c.op = "AppendEvent" /\ pc'[r] = "append" /\ c.events = <<NextEvent(r)>>
                         \/ /\ c.op = "Transition" /\ pc'[r] = "close"
                            /\ c.set = Row(pending'[r]) /\ c.events = <<pending'[r]>>
                            /\ pending'[r] \in Final
<1>4. /\ UNCHANGED <<row, log, deleted, mode, sequence, client, answer>>
      /\ \A q \in Requests \ {r} : pc'[q] = pc[q] /\ pending'[q] = pending[q]
      /\ pc[r] = "live" /\ pc'[r] \in {"append", "close"}
  BY DEF Emit, CloseStream, Goto, TypeOK
<1>5. \E c : Fits(c) /\ Send(c)
  <2>1. CASE Emit(r)
    <3> DEFINE c == Command("AppendEvent", r, r, NoRow, <<NextEvent(r)>>)
    <3>1. NextEvent(r) \in ProgressTypes /\ NextEvent(r) \in EventTypes
      BY NextEventTypes DEF ProgressTypes
    <3>2. c \in Commands
      BY <3>1, CommandType, EventListType DEF NoRow, Rows, Statuses
    <3>3. CommandShape(c)
      BY <3>1 DEF Command, CommandShape
    <3>4. Fits(c)
      BY <2>1, <1>3, <3>2, <3>3 DEF Emit, Command, WriteFinds, Writers, Goto, TypeOK
    <3>5. QED
      BY <2>1, <3>4 DEF Emit
  <2>2. CASE CloseStream(r)
    <3>1. PICK final \in Final :
             /\ Send(Command("Transition", r, r, Row(final), <<final>>))
             /\ pending' = [pending EXCEPT ![r] = final]
             /\ Goto(r, "close")
      BY <2>2 DEF CloseStream
    <3> DEFINE c == Command("Transition", r, r, Row(final), <<final>>)
    <3>2. final \in Statuses /\ final \in EventTypes
      BY DEF Statuses, EventTypes
    <3>3. c \in Commands
      BY <3>2, CommandType, RowType, EventListType
    <3>4. CommandShape(c)
      BY DEF Command, CommandShape
    <3>5. pending'[r] = final /\ pc'[r] = "close"
      BY <3>1 DEF Goto, TypeOK
    <3>6. Fits(c)
      BY <1>3, <3>3, <3>4, <3>5 DEF Command, WriteFinds, Writers
    <3>7. QED
      BY <3>1, <3>6
  <2>3. QED
    BY <2>1, <2>2
<1>6. /\ \A q \in Requests \ {r} : reply'[q] = reply[q]
      /\ \A c : Fits(c) /\ Send(c) => \/ mailbox' = mailbox /\ reply'[r].kind = "error"
                                      \/ mailbox' = Append(mailbox, c) /\ reply'[r].kind = "waiting"
  BY <1>5, SendQueues DEF Failure, Waiting
<1>7. \A c : Fits(c) /\ reply'[r].kind = "waiting" => CallerWaits(c)'
  BY <1>4 DEF CallerWaits, NextEvent
<1>8. \/ mailbox' = mailbox
      \/ \E c \in Commands : /\ mailbox' = Append(mailbox, c)
                             /\ c.caller = r
                             /\ CommandShape(c) /\ CallerWaits(c)' /\ WriteFinds(c)
  BY <1>5, <1>6, <1>7
<1>9. QueueOrder' /\ QueueSound'
  BY <1>2, <1>4, <1>6, <1>8, QueueAfterTask
<1>10. \A q \in Requests \ {r} : Untouched(q)
  BY <1>4, <1>6 DEF Untouched
<1>11. reply'[r].kind \in {"waiting", "error"} /\ (pc'[r] = "close" => pending'[r] \in Final)
  BY <1>5, <1>6
<1>12. TaskKnows(r)'
  BY <1>1, <1>4, <1>11 DEF TaskKnows
<1>13. ClientTracksLog(r)'
  BY <1>1, <1>4, <1>11 DEF ClientTracksLog, Over
<1>14. RecordSound(r)' /\ ClientSound(r)'
  BY <1>1, <1>4, RecordStays DEF ClientSound
<1>15. QED
  BY <1>1, <1>9, <1>10, <1>12, <1>13, <1>14, TaskStepSound DEF RequestSound

\* The steps of a live stream that yield an event and send nothing.
LEMMA StreamYields ==
    ASSUME IInv, NEW r \in Requests,
           \/ ~mode[r].store /\ (Emit(r) \/ CloseStream(r))
           \/ EventStored(r)
           \/ StreamClosed(r)
    PROVE  IInv'
<1> USE InvariantGives
<1>1. TypeOK' /\ TaskKnows(r) /\ ClientTracksLog(r) /\ ClientSound(r) /\ RecordSound(r)
  BY StreamType DEF RequestSound
<1>2. /\ UNCHANGED <<row, log, mailbox, deleted, mode, pending, answer>>
      /\ pc[r] \in InStream /\ pc'[r] \in {"live", "returned"}
      /\ reply[r].kind # "waiting" \/ pc[r] = "live"
      /\ \A q \in Requests \ {r} : pc'[q] = pc[q] /\ reply'[q] = reply[q]
  BY DEF Emit, EventStored, CloseStream, StreamClosed, Goto, Taken, Got, InStream, TypeOK, StoreTypeOK
<1>3. sequence[r] = Len(client[r])
  BY <1>1, <1>2 DEF ClientTracksLog, InStream, Over
<1>4. \E type \in EventTypes :
         /\ YieldAssigned(r, type, Len(client[r]))
         /\ pc'[r] = "live" => type \notin Final
         /\ mode[r].store /\ r \notin deleted =>
               Len(log[r]) = Len(client[r]) + 1 /\ log[r][Len(log[r])].type = type
         /\ mode[r].store /\ pc'[r] = "live" => OpenOrDeleted(r)
  <2>1. NextEvent(r) \in EventTypes /\ NextEvent(r) \notin Final /\ Final \subseteq EventTypes
    BY NextEventTypes DEF ProgressTypes, EventTypes
  <2>2. CASE ~mode[r].store /\ Emit(r)
    BY <2>1, <2>2, <1>3 DEF Emit
  <2>3. CASE ~mode[r].store /\ CloseStream(r)
    <3>1. pc'[r] = "returned"
      BY <2>3 DEF CloseStream, Goto, TypeOK
    <3>2. QED
      BY <2>1, <2>3, <1>3, <3>1 DEF CloseStream
  <2>4. CASE EventStored(r)
    BY <2>1, <2>4, <1>1 DEF EventStored, Got, TaskKnows, ClientTracksLog
  <2>5. CASE StreamClosed(r)
    <3>1. pc'[r] = "returned" /\ pending[r] \in Final
      BY <2>5, <1>1 DEF StreamClosed, Goto, TaskKnows, TypeOK
    <3>2. QED
      BY <2>1, <2>5, <1>1, <3>1 DEF StreamClosed, Got, ClientTracksLog
  <2>6. QED
    BY <2>2, <2>3, <2>4, <2>5
<1>5. PICK type \in EventTypes :
         /\ YieldAssigned(r, type, Len(client[r]))
         /\ pc'[r] = "live" => type \notin Final
         /\ mode[r].store /\ r \notin deleted =>
               Len(log[r]) = Len(client[r]) + 1 /\ log[r][Len(log[r])].type = type
         /\ mode[r].store /\ pc'[r] = "live" => OpenOrDeleted(r)
  BY <1>4
<1> DEFINE event == Event(type, Len(client[r]))
<1>6. /\ event \in ClientEvents /\ event.type = type /\ event.seq = Len(client[r])
      /\ Yield(r, event)
      /\ sequence'[r] = Len(client[r]) + 1
      /\ \A q \in Requests \ {r} : sequence'[q] = sequence[q]
  BY <1>5, Domains DEF Event, ClientEvents, YieldAssigned, TypeOK
<1> HIDE DEF event
<1>7. /\ ClientSound(r)'
      /\ Len(client'[r]) = Len(client[r]) + 1
      /\ \A q \in Requests \ {r} : client'[q] = client[q]
      /\ type \notin Final => \A k \in 1..Len(client'[r]) : client'[r][k].type \notin Final
  BY <1>2, <1>5, <1>6, ClientGrows
<1>8. \A q \in Requests \ {r} : Untouched(q)
  BY <1>2, <1>6, <1>7 DEF Untouched
<1>9. QueueOrder' /\ QueueSound'
  <2>1. Quiet(r)
    BY <1>2, QuietTask DEF InStream, Over
  <2>2. QED
    BY <1>2, <1>7, <2>1, QueueAfterTask
<1>10. TaskKnows(r)'
  BY <1>1, <1>2, <1>5 DEF TaskKnows, OpenOrDeleted, InStream
<1>11. ClientTracksLog(r)'
  <2>1. DOMAIN client'[r] = 1..Len(client'[r])
    <3>1. client'[r] \in Seq(ClientEvents)
      BY <1>1 DEF TypeOK
    <3>2. QED
      BY <3>1
  <2>2. QED
    BY <1>1, <1>2, <1>5, <1>6, <1>7, <2>1 DEF ClientTracksLog, Over
<1>12. RecordSound(r)'
  BY <1>1, <1>2, RecordStays
<1>13. QED
  BY <1>1, <1>7, <1>8, <1>9, <1>10, <1>11, <1>12, TaskStepSound DEF RequestSound

\* The conditional transition that a task leaves behind.
LEMMA MarkIncompleteFits ==
    ASSUME NEW r \in Requests
    PROVE  LET c == MarkIncomplete(r, "incomplete")
           IN /\ c \in Commands /\ c.caller = r /\ c.op = "TransitionIfInProgress"
              /\ CommandShape(c) /\ WriteFinds(c)
<1>1. MarkIncomplete(r, "incomplete") \in Commands
  BY CommandType, EventListType DEF MarkIncomplete, Rows, Statuses, Final, EventTypes
<1>2. QED
  BY <1>1 DEF MarkIncomplete, Command, CommandShape, Row, WriteFinds, Writers

\* The store error that ends a stream keeps the invariant: the client is told,
\* and the conditional transition follows everything the stream has sent.
LEMMA StoreFailedSound ==
    ASSUME IInv, NEW r \in Requests, StoreFailed(r)
    PROVE  IInv'
<1> USE InvariantGives
<1>1. TypeOK' /\ TaskKnows(r) /\ ClientTracksLog(r) /\ ClientSound(r) /\ RecordSound(r)
  BY StreamType DEF RequestSound
<1>2. /\ UNCHANGED <<row, log, deleted, mode, pending, sequence, answer>>
      /\ pc[r] \in InStream /\ pc'[r] = "returned"
      /\ \A q \in Requests \ {r} : pc'[q] = pc[q] /\ reply'[q] = reply[q]
  BY DEF StoreFailed, AfterStoreError, Goto, Taken, InStream, TypeOK, StoreTypeOK
<1> DEFINE event == [type |-> "incomplete", seq |-> sequence[r], lost |-> TRUE]
<1>3. Yield(r, event) /\ event \in ClientEvents /\ event.seq = Len(client[r]) /\ event.lost
  <2>1. sequence[r] = Len(client[r])
    BY <1>1, <1>2 DEF ClientTracksLog, InStream, Over
  <2>2. QED
    BY <2>1, Domains DEF StoreFailed, ClientEvents, EventTypes, Final
<1> HIDE DEF event
<1>4. ClientSound(r)' /\ \A q \in Requests \ {r} : client'[q] = client[q]
  BY <1>2, <1>3, ClientGrows
<1>5. \A q \in Requests \ {r} : Untouched(q)
  BY <1>2, <1>4 DEF Untouched
<1>6. QueueOrder' /\ QueueSound'
  <2> DEFINE c == MarkIncomplete(r, "incomplete")
  <2>1. /\ c \in Commands /\ c.caller = r /\ c.op = "TransitionIfInProgress"
        /\ CommandShape(c) /\ WriteFinds(c)
    BY MarkIncompleteFits
  <2>2. mailbox' = mailbox \/ mailbox' = Append(mailbox, c)
    BY DEF StoreFailed, Post
  <2> HIDE DEF c
  <2>3. CallerWaits(c)' /\ c.op \notin Awaited
    BY <1>2, <2>1 DEF CallerWaits, Over, Awaited
  <2>4. pc'[r] \in Over
    BY <1>2 DEF Over
  <2>5. QED
    BY <1>2, <1>4, <2>1, <2>2, <2>3, <2>4, QueueAfterTask
<1>7. TaskKnows(r)' /\ ClientTracksLog(r)' /\ RecordSound(r)'
  BY <1>1, <1>2, RecordStays DEF TaskKnows, ClientTracksLog, Over
<1>8. QED
  BY <1>1, <1>4, <1>5, <1>6, <1>7, TaskStepSound DEF RequestSound

\* The refresh at the end of an upstream event keeps the invariant.
LEMMA UpstreamEventSound ==
    ASSUME IInv, NEW r \in Requests, UpstreamEventHandled(r)
    PROVE  IInv'
<1> USE InvariantGives
<1>1. TypeOK' /\ TaskKnows(r)
  BY StreamType DEF RequestSound
<1>2. UNCHANGED <<storeVars, pc, mode, pending, sequence, client, answer>>
  BY DEF UpstreamEventHandled
<1>3. \A q \in Requests : Untouched(q)
  BY <1>2 DEF Untouched, storeVars
<1>4. QueueOrder' /\ QueueSound'
  BY <1>2 DEF storeVars, QueueOrder, QueueSound, CommandShape, CallerWaits, NextEvent, WriteFinds,
              OpenOrDeleted
<1>5. RequestSound(r)'
  BY <1>3, UntouchedSound
<1>6. QED
  BY <1>1, <1>3, <1>4, <1>5, TaskStepSound

-----------------------------------------------------------------------------
(* The steps of the environment. *)

\* A task that is dropped, wherever it was: its part of the invariant gets weaker.
DropsOut(r) ==
    /\ pc'[r] = "dropped" /\ pc[r] # "returned"
    /\ mode'[r] = mode[r] /\ client'[r] = client[r] /\ answer'[r] = answer[r]
    /\ row'[r] = row[r] /\ log'[r] = log[r] /\ (r \in deleted' <=> r \in deleted)

\* A task that is over, by a disconnect or a crash, leaves its request sound.
LEMMA DroppedSound ==
    ASSUME NEW r \in Requests, RequestSound(r), DropsOut(r)
    PROVE  RequestSound(r)'
<1>1. TaskKnows(r)' /\ ClientTracksLog(r)'
  BY DEF RequestSound, DropsOut, TaskKnows, ClientTracksLog, Over
<1>2. RecordSound(r)' /\ ClientSound(r)'
  BY DEF RequestSound, DropsOut, RecordSound, ClientSound, Exists
<1>3. QED
  BY <1>1, <1>2 DEF RequestSound

\* A disconnect keeps the invariant: the command of the drop guard queues up
\* behind the one that the stream awaited, if any.
LEMMA DisconnectSound ==
    ASSUME IInv, NEW r \in Requests, Disconnect(r)
    PROVE  IInv'
<1> USE InvariantGives
<1>1. TypeOK'
  BY EnvironmentType
<1>2. /\ UNCHANGED <<row, log, deleted, mode, pending, sequence, client, answer>>
      /\ pc[r] # "returned" /\ pc'[r] = "dropped"
      /\ \A q \in Requests \ {r} : pc'[q] = pc[q] /\ reply'[q] = reply[q]
  BY DEF Disconnect, Goto, Taken, InHandler, InStream, TypeOK, StoreTypeOK
<1>3. \A q \in Requests \ {r} : Untouched(q)
  BY <1>2 DEF Untouched
<1>4. QueueOrder' /\ QueueSound'
  <2> DEFINE c == MarkIncomplete(r, "incomplete")
  <2>1. /\ c \in Commands /\ c.caller = r /\ c.op = "TransitionIfInProgress"
        /\ CommandShape(c) /\ WriteFinds(c)
    BY MarkIncompleteFits
  <2>2. mailbox' = mailbox \/ mailbox' = Append(mailbox, c)
    BY DEF Disconnect, DisconnectDocument, Post
  <2> HIDE DEF c
  <2>3. pc'[r] \in Over /\ CallerWaits(c)' /\ c.op \notin Awaited
    BY <1>2, <2>1 DEF CallerWaits, Over, Awaited
  <2>4. QED
    BY <1>2, <2>1, <2>2, <2>3, QueueAfterTask
<1>5. RequestSound(r)'
  BY <1>2, DroppedSound DEF DropsOut
<1>6. QED
  BY <1>1, <1>3, <1>4, <1>5, TaskStepSound

\* A delete request, queued at any time, keeps the invariant.
LEMMA RequestDeleteSound ==
    ASSUME IInv, NEW id \in Requests, RequestDelete(id)
    PROVE  IInv'
<1> USE InvariantGives
<1>1. TypeOK'
  BY EnvironmentType
<1>2. UNCHANGED <<row, log, actor, reply, deleted, taskVars>>
  BY DEF RequestDelete
<1>3. \A q \in Requests : Untouched(q)
  BY <1>2 DEF Untouched, taskVars
<1>4. RequestSound(id)'
  BY <1>3, UntouchedSound
<1> DEFINE c == Command("Delete", id, id, NoRow, <<>>)
<1>5. c \in Commands /\ c.caller = id /\ c.op = "Delete" /\ CommandShape(c) /\ WriteFinds(c)
  <2>1. c \in Commands
    BY CommandType, EventListType DEF NoRow, Rows, Statuses
  <2>2. QED
    BY <2>1 DEF Command, CommandShape, WriteFinds, Writers
<1>6. mailbox' = mailbox \/ mailbox' = Append(mailbox, c)
  BY DEF RequestDelete, Post
<1> HIDE DEF c
<1>7. mailbox \in Seq(Commands) /\ Len(mailbox) \in Nat
  BY DEF TypeOK, StoreTypeOK
<1>8. \A d : (CallerWaits(d) => CallerWaits(d)') /\ (WriteFinds(d) => WriteFinds(d)')
  BY <1>2 DEF CallerWaits, WriteFinds, NextEvent, OpenOrDeleted, taskVars
<1>9. CASE mailbox' = mailbox
  <2>1. QueueOrder' /\ QueueSound'
    BY <1>8, <1>9 DEF QueueOrder, QueueSound, CommandShape
  <2>2. QED
    BY <1>1, <1>3, <1>4, <2>1, TaskStepSound
<1>10. CASE mailbox' = Append(mailbox, c)
  <2>1. /\ Len(mailbox') = Len(mailbox) + 1
        /\ \A i \in 1..Len(mailbox) : mailbox'[i] = mailbox[i]
        /\ mailbox'[Len(mailbox) + 1] = c
    BY <1>7, <1>10
  <2>2. \A i \in 1..(Len(mailbox) + 1) : i \in 1..Len(mailbox) \/ i = Len(mailbox) + 1
    BY <1>7
  <2>3. CallerWaits(c)' /\ c.op \notin Awaited
    BY <1>5 DEF CallerWaits, Awaited
  <2>4. QueueSound'
    BY <1>5, <1>8, <2>1, <2>2, <2>3 DEF QueueSound, CommandShape
  <2>5. QueueOrder'
    <3> SUFFICES ASSUME NEW i \in 1..(Len(mailbox) + 1), NEW j \in 1..(Len(mailbox) + 1), i < j,
                        mailbox'[i].caller = mailbox'[j].caller, mailbox'[j].op \in Awaited
                 PROVE  mailbox'[i].op = "Delete"
      BY <2>1 DEF QueueOrder
    <3>1. j \in 1..Len(mailbox)
      BY <2>1, <2>2, <2>3
    <3>2. i \in 1..Len(mailbox)
      BY <1>7, <3>1
    <3>3. QED
      BY <3>1, <3>2, <2>1 DEF QueueOrder
  <2>6. QED
    BY <1>1, <1>3, <1>4, <2>4, <2>5, TaskStepSound
<1>11. QED
  BY <1>6, <1>9, <1>10

\* The queue is lost, and each task is over or learns it, or did not wait.
LEMMA OutageSound ==
    ASSUME IInv, ActorEnds \/ Crash
    PROVE  IInv'
<1> USE InvariantGives
<1>1. TypeOK'
  BY EnvironmentType
<1>2. mailbox' = <<>> /\ Len(mailbox') = 0
  BY DEF ActorEnds, StopActor, Crash
<1>3. QueueOrder' /\ QueueSound'
  BY <1>2 DEF QueueOrder, QueueSound
<1>4. UNCHANGED <<row, log, deleted, mode, pending, sequence, client, answer>>
  BY DEF ActorEnds, StopActor, Crash, taskVars
<1>5. ASSUME NEW r \in Requests PROVE RequestSound(r)'
  <2>1. CASE ActorEnds
    <3>1. /\ pc' = pc
          /\ reply'[r] = reply[r] \/ reply'[r].kind = "error"
      BY <2>1 DEF ActorEnds, StopActor, SendersDropped, Failure, taskVars
    <3>2. TaskKnows(r)' /\ ClientTracksLog(r)'
      BY <1>4, <3>1 DEF RequestSound, TaskKnows, ClientTracksLog, OpenOrDeleted, NextEvent
    <3>3. RecordSound(r)' /\ ClientSound(r)'
      BY <1>4, RecordStays DEF RequestSound, ClientSound
    <3>4. QED
      BY <3>2, <3>3 DEF RequestSound
  <2>2. CASE Crash /\ pc[r] \in InHandler \cup InStream
    BY <1>4, <2>2, DroppedSound DEF Crash, DropsOut, InHandler, InStream
  <2>3. CASE Crash /\ pc[r] \notin InHandler \cup InStream
    <3>1. pc'[r] = pc[r] /\ reply'[r].kind = "none" /\ pc[r] \in {"new"} \cup Over
      BY <2>3 DEF Crash, NoReply, TypeOK
    <3>2. TaskKnows(r)' /\ ClientTracksLog(r)'
      BY <1>4, <3>1 DEF RequestSound, TaskKnows, ClientTracksLog, Over
    <3>3. RecordSound(r)' /\ ClientSound(r)'
      BY <1>4, RecordStays DEF RequestSound, ClientSound
    <3>4. QED
      BY <3>2, <3>3 DEF RequestSound
  <2>4. QED
    BY <2>1, <2>2, <2>3
<1>6. RequestsSound'
  BY <1>5 DEF RequestsSound
<1>7. TypeOK' /\ QueueOrder' /\ QueueSound' /\ RequestsSound'
  BY <1>1, <1>3, <1>6
<1>8. QED
  BY <1>7, InvariantFrom, PTL

-----------------------------------------------------------------------------
(* The steps of the store's actor. *)

\* What one command changes, whichever it is: its record, and the reply to its caller.
LEMMA ServeChanges ==
    ASSUME TypeOK, StoreStep
    PROVE  LET c == Head(mailbox)
           IN /\ mailbox # <<>> /\ mailbox' = Tail(mailbox) /\ UNCHANGED taskVars
              /\ \A q \in Requests : q # c.caller => reply'[q] = reply[q]
              /\ \A q \in Requests : reply[q].kind # "waiting" => reply'[q] = reply[q]
              /\ \A q \in Requests : q # c.id =>
                    /\ row'[q] = row[q] /\ log'[q] = log[q] /\ (q \in deleted' <=> q \in deleted)
              /\ c.op \in {"Delete", "TransitionIfInProgress"} => reply' = reply
              /\ c.op \in {"Get", "AppendEvent"} => UNCHANGED <<row, deleted>>
              /\ c.op = "Get" => log' = log
              /\ c.op # "Delete" => deleted' = deleted
              /\ c.op = "Delete" => \/ UNCHANGED <<row, deleted>>
                                    \/ row[c.id] # NoRow /\ c.id \in deleted'
<1> DEFINE c == Head(mailbox)
<1>1. PICK fault \in Faults \cup {"none"} :
         \/ ServeCreate(fault) \/ ServeTransition(fault) \/ ServeTransitionIfInProgress(fault)
         \/ ServeGet(fault) \/ ServeDelete(fault) \/ ServeAppendEvent(fault)
  BY DEF StoreStep, Serve
<1>2. mailbox # <<>> /\ mailbox' = Tail(mailbox) /\ UNCHANGED taskVars
  BY <1>1 DEF ServeCreate, ServeTransition, ServeTransitionIfInProgress, ServeGet,
              ServeDelete, ServeAppendEvent, Take, StoreStep
<1>3. c \in Commands /\ c.id \in Requests /\ c.caller \in Requests
  BY <1>2, TailFacts DEF Commands
<1>4. row \in [Requests -> Rows] /\ log \in [Requests -> Seq(LogRows)]
      /\ reply \in [Requests -> Replies]
  BY DEF TypeOK, StoreTypeOK, LogRows
<1> USE DEF Take
<1>5. CASE ServeCreate(fault)
  BY <1>2, <1>3, <1>4, <1>5 DEF ServeCreate, Answer
<1>6. CASE ServeTransition(fault)
  BY <1>2, <1>3, <1>4, <1>6 DEF ServeTransition, Answer
<1>7. CASE ServeTransitionIfInProgress(fault)
  BY <1>2, <1>3, <1>4, <1>7 DEF ServeTransitionIfInProgress
<1>8. CASE ServeGet(fault)
  BY <1>2, <1>3, <1>4, <1>8 DEF ServeGet, Answer
<1>9. CASE ServeDelete(fault)
  <2>1. /\ \A q \in Requests : q # c.id => [row EXCEPT ![c.id] = NoRow][q] = row[q]
        /\ \A q \in Requests : q # c.id => CascadeEvents(c.id)[q] = log[q]
        /\ \A q \in Requests : q # c.id => (q \in deleted \cup {c.id} <=> q \in deleted)
    BY <1>4 DEF CascadeEvents
  <2>2. row[c.id] = NoRow => ~Exists(c.id)
    BY DEF Exists, NoRow
  <2>3. reply' = reply /\ c.op = "Delete"
    BY <1>9 DEF ServeDelete
  <2>4. CASE Exists(c.id) /\ fault # "sql"
    <3>1. /\ row' = [row EXCEPT ![c.id] = NoRow] /\ log' = CascadeEvents(c.id)
          /\ deleted' = deleted \cup {c.id}
      BY <1>9, <2>4 DEF ServeDelete
    <3>2. QED
      BY <1>2, <2>1, <2>2, <2>3, <2>4, <3>1
  <2>5. CASE ~(Exists(c.id) /\ fault # "sql")
    <3>1. UNCHANGED <<row, log, deleted>>
      BY <1>9, <2>5 DEF ServeDelete
    <3>2. QED
      BY <1>2, <2>3, <3>1
  <2>6. QED
    BY <2>4, <2>5
<1>10. CASE ServeAppendEvent(fault)
  BY <1>2, <1>3, <1>4, <1>10 DEF ServeAppendEvent, Answer
<1>11. QED
  BY <1>1, <1>5, <1>6, <1>7, <1>8, <1>9, <1>10

\* What the invariant says of the command that is next.
LEMMA NextCommand ==
    ASSUME IInv, mailbox # <<>>
    PROVE  LET c == Head(mailbox)
           IN /\ c \in Commands /\ CommandShape(c) /\ CallerWaits(c) /\ WriteFinds(c)
              /\ c.id \in Requests /\ c.caller \in Requests
              /\ \A i \in 1..(Len(mailbox) - 1) :
                    mailbox[i + 1].caller = c.caller /\ mailbox[i + 1].op \in Awaited
                        => c.op = "Delete"
<1>1. TypeOK /\ QueueSound /\ QueueOrder
  BY InvariantGives
<1>2. /\ Head(mailbox) = mailbox[1] /\ Head(mailbox) \in Commands
      /\ Len(mailbox) \in Nat \ {0}
  BY <1>1, TailFacts
<1>3. /\ 1 \in 1..Len(mailbox)
      /\ \A i \in 1..(Len(mailbox) - 1) : 1 < i + 1 /\ i + 1 \in 1..Len(mailbox)
  BY <1>2
<1> DEFINE c == mailbox[1]
<1>4. CommandShape(c) /\ CallerWaits(c) /\ WriteFinds(c)
  BY <1>1, <1>3 DEF QueueSound
<1>5. c.id \in Requests /\ c.caller \in Requests
  BY <1>2 DEF Commands
<1>6. \A i \in 1..(Len(mailbox) - 1) :
         mailbox[i + 1].caller = c.caller /\ mailbox[i + 1].op \in Awaited => c.op = "Delete"
  BY <1>1, <1>3 DEF QueueOrder
<1>7. QED
  BY <1>2, <1>4, <1>5, <1>6

\* Running the oldest command keeps the rest of the queue sound: no command
\* behind it relies on what it changes.
LEMMA ServeKeepsQueue ==
    ASSUME IInv, StoreStep
    PROVE  QueueOrder' /\ QueueSound'
<1> USE InvariantGives
<1> DEFINE c == Head(mailbox)
<1>1. /\ mailbox # <<>> /\ mailbox' = Tail(mailbox) /\ UNCHANGED taskVars
      /\ \A q \in Requests : q # c.caller => reply'[q] = reply[q]
      /\ \A q \in Requests : q # c.id => row'[q] = row[q] /\ (q \in deleted' <=> q \in deleted)
      /\ c.op \in {"Delete", "TransitionIfInProgress"} => reply' = reply
      /\ c.op \in {"Get", "AppendEvent"} => UNCHANGED <<row, deleted>>
      /\ c.op = "Delete" => \/ UNCHANGED <<row, deleted>>
                            \/ row[c.id] # NoRow /\ c.id \in deleted'
  BY ServeChanges
<1>2. /\ c \in Commands /\ CommandShape(c) /\ CallerWaits(c)
      /\ \A i \in 1..(Len(mailbox) - 1) :
            mailbox[i + 1].caller = c.caller /\ mailbox[i + 1].op \in Awaited => c.op = "Delete"
  BY <1>1, NextCommand
<1>3. /\ Len(mailbox) \in Nat \ {0}
      /\ Len(mailbox') = Len(mailbox) - 1
      /\ \A i \in 1..(Len(mailbox) - 1) : mailbox'[i] = mailbox[i + 1]
  BY <1>1, TailFacts
<1> HIDE DEF c
<1>4. ASSUME NEW i \in 1..(Len(mailbox) - 1), NEW d, d = mailbox[i + 1]
      PROVE  CommandShape(d) /\ CallerWaits(d)' /\ WriteFinds(d)'
  <2>1. i + 1 \in 1..Len(mailbox)
    BY <1>3
  <2>2. d \in Commands /\ CommandShape(d) /\ CallerWaits(d) /\ WriteFinds(d)
    BY <1>4, <2>1 DEF QueueSound, TypeOK, StoreTypeOK
  <2>3. d.caller = c.caller /\ d.op \in Awaited => c.op = "Delete"
    BY <1>2, <1>4
  <2>4. d.id \in Requests /\ d.caller \in Requests
        /\ d.op \in {"Create", "Transition", "TransitionIfInProgress", "Get", "Delete", "AppendEvent"}
    BY <2>2 DEF Commands
  <2>5. CallerWaits(d)'
    <3>1. d.op = "Delete" \/ pc[d.caller] \in Over \/ reply'[d.caller] = reply[d.caller]
      BY <1>1, <2>2, <2>3, <2>4 DEF CallerWaits, Awaited
    <3>2. QED
      BY <1>1, <2>2, <3>1 DEF CallerWaits, NextEvent, taskVars
  <2>6. WriteFinds(d)'
    <3>1. CASE d.id # c.id
      BY <1>1, <2>2, <2>4, <3>1 DEF WriteFinds, OpenOrDeleted
    <3>2. CASE d.id = c.id /\ d.op \in Writers \cup {"Create"}
      <4>1. d.id = d.caller /\ (c.op # "Get" => c.id = c.caller)
        BY <1>2, <2>2, <3>2 DEF CommandShape, Writers
      <4>2. c.op \in {"Get", "Delete"}
        BY <2>3, <3>2, <4>1 DEF Awaited, Writers
      <4>3. CASE UNCHANGED <<row, deleted>>
        BY <2>2, <4>3 DEF WriteFinds, OpenOrDeleted
      <4>4. CASE row[c.id] # NoRow /\ c.id \in deleted'
        BY <2>2, <3>2, <4>4 DEF WriteFinds, OpenOrDeleted, Writers
      <4>5. QED
        BY <1>1, <4>2, <4>3, <4>4
    <3>3. CASE d.op \notin Writers \cup {"Create"}
      BY <3>3 DEF WriteFinds
    <3>4. QED
      BY <3>1, <3>2, <3>3
  <2>7. QED
    BY <2>2, <2>5, <2>6
<1>5. QueueSound'
  BY <1>3, <1>4 DEF QueueSound, CommandShape
<1>6. QueueOrder'
  <2> SUFFICES ASSUME NEW i \in 1..(Len(mailbox) - 1), NEW j \in 1..(Len(mailbox) - 1), i < j,
                      mailbox[i + 1].caller = mailbox[j + 1].caller,
                      mailbox[j + 1].op \in Awaited
               PROVE  mailbox[i + 1].op = "Delete"
    BY <1>3 DEF QueueOrder
  <2>1. i + 1 \in 1..Len(mailbox) /\ j + 1 \in 1..Len(mailbox) /\ i + 1 < j + 1
    BY <1>3
  <2>2. QED
    BY <2>1 DEF QueueOrder
<1>7. QED
  BY <1>5, <1>6

\* A request that the actor's step is not about, or only as the caller of a Get.
LEMMA BystanderSound ==
    ASSUME IInv, StoreStep, NEW r \in Requests,
           UNCHANGED taskVars,
           row'[r] = row[r], log'[r] = log[r], r \in deleted' <=> r \in deleted,
           \/ reply'[r] = reply[r]
           \/ pc[r] \in {"previous"} \cup Over
           \/ pc[r] \in {"create", "fail", "finish", "append", "close"} /\ reply'[r].kind = "error"
    PROVE  RequestSound(r)'
<1>1. RequestSound(r)
  BY InvariantGives
<1>2. TaskKnows(r)' /\ ClientTracksLog(r)'
  BY <1>1 DEF RequestSound, TaskKnows, ClientTracksLog, OpenOrDeleted, NextEvent, taskVars, Over
<1>3. RecordSound(r)' /\ ClientSound(r)'
  BY <1>1 DEF RequestSound, RecordSound, ClientSound, Exists, taskVars
<1>4. QED
  BY <1>2, <1>3 DEF RequestSound

\* Events appended to an open record: its log stays sound, with a terminal event
\* as the last one if the record is closed by it, and what clients saw stays.
LEMMA AppendSound ==
    ASSUME IInv, NEW c \in Commands, row[c.id].status = "in_progress",
           UNCHANGED <<taskVars, deleted>>,
           c.events # <<>>, Len(c.events) \in Nat \ {0},
           log'[c.id] = AppendEvents(log[c.id], c.events),
           \A i \in 1..(Len(c.events) - 1) : c.events[i] \notin Final,
           \/ c.events[Len(c.events)] \notin Final /\ row'[c.id] = row[c.id]
           \/ /\ c.events[Len(c.events)] \in Final
              /\ row'[c.id] = Row(c.events[Len(c.events)])
    PROVE  /\ RecordSound(c.id)' /\ ClientSound(c.id)'
           /\ Len(log'[c.id]) = Len(log[c.id]) + Len(c.events)
           /\ LastSeq(log'[c.id]) = Len(log'[c.id]) - 1
           /\ log'[c.id][Len(log'[c.id])].type = c.events[Len(c.events)]
           /\ Len(log[c.id]) \in Nat
           /\ c.id \notin deleted
<1> USE InvariantGives
<1> DEFINE id == c.id
           n == Len(log[id])
           m == Len(c.events)
           new == log'[id]
<1>1. id \in Requests /\ RequestSound(id) /\ RecordSound(id) /\ ClientSound(id)
  BY DEF RequestSound, Commands
<1>2. n \in Nat /\ m \in Nat \ {0} /\ Len(client[id]) \in Nat
  BY <1>1, Domains
<1>3. /\ Contiguous(new)
      /\ Len(new) = n + m
      /\ \A i \in 1..n : new[i] = log[id][i]
      /\ \A i \in 1..m : new[n + i].type = c.events[i]
      /\ LastSeq(new) = Len(new) - 1
      /\ new[Len(new)].type = c.events[m]
  BY AppendedLog
<1>4. id \notin deleted
  BY <1>1 DEF RecordSound, NoRow
<1>5. \A i \in 1..n : new[i].type \notin Final
  BY <1>1, <1>3 DEF RecordSound, Final
<1> HIDE DEF id, n, m, new
<1>6. \A i \in 1..(n + m) : i # n + m => new[i].type \notin Final
  <2> SUFFICES ASSUME NEW i \in 1..(n + m), i # n + m
               PROVE  new[i].type \notin Final
    OBVIOUS
  <2>0. \A k \in 1..(m - 1) : c.events[k] \notin Final
    BY DEF m
  <2>1. CASE i \in 1..n
    BY <2>1, <1>5
  <2>2. CASE i \notin 1..n
    <3> DEFINE k == i - n
    <3>1. k \in 1..(m - 1) /\ k \in 1..m /\ i = n + k
      BY <2>2, <1>2
    <3>2. new[i].type = c.events[k]
      BY <3>1, <1>3
    <3>3. QED
      BY <2>0, <3>1, <3>2
  <2>3. QED
    BY <2>1, <2>2
<1>7. n + m \in 1..(n + m) /\ new # <<>>
  BY <1>2, <1>3
<1>8. /\ row'[id].status # "absent"
      /\ row'[id].shown = row'[id].status
      /\ row'[id].status \in Final <=> c.events[m] \in Final
      /\ c.events[m] \in Final => row'[id].status = c.events[m]
  BY <1>1 DEF RecordSound, Row, Final, id, m
<1>9. RecordSound(id)'
  <2>1. \A i \in 1..(n + m) :
           /\ new[i].seq = i - 1
           /\ new[i].type \in Final => i = n + m /\ new[i].type = row'[id].status
    BY <1>3, <1>6, <1>8 DEF Contiguous
  <2>2. id \notin deleted'
    BY <1>4
  <2>3. QED
    BY <1>3, <1>7, <1>8, <2>1, <2>2 DEF RecordSound, Exists, new
<1>10. ClientSound(id)'
  <2>1. answer[id] = "ok" => ~mode[id].store
    BY <1>1, <1>4 DEF ClientSound, id
  <2>2. \A k \in 1..Len(client[id]) : k <= n => k <= n + m /\ new[k] = log[id][k]
    BY <1>2, <1>3
  <2>3. QED
    BY <1>1, <1>3, <2>1, <2>2 DEF ClientSound, taskVars, new, n
<1>11. QED
  BY <1>2, <1>3, <1>4, <1>9, <1>10 DEF id, n, m, new

\* Every command that the actor runs keeps the invariant, fault or none.
LEMMA StoreStepSound ==
    ASSUME IInv, StoreStep
    PROVE  IInv'
<1> USE InvariantGives
<1>1. PICK fault \in Faults \cup {"none"} :
         \/ ServeCreate(fault) \/ ServeTransition(fault) \/ ServeTransitionIfInProgress(fault)
         \/ ServeGet(fault) \/ ServeDelete(fault) \/ ServeAppendEvent(fault)
  BY DEF StoreStep, Serve
<1>2. PICK c : c = Head(mailbox)
  OBVIOUS
<1>3. /\ mailbox # <<>> /\ UNCHANGED taskVars
      /\ \A q \in Requests : q # c.caller => reply'[q] = reply[q]
      /\ \A q \in Requests : reply[q].kind # "waiting" => reply'[q] = reply[q]
      /\ \A q \in Requests : q # c.id =>
            /\ row'[q] = row[q] /\ log'[q] = log[q] /\ (q \in deleted' <=> q \in deleted)
      /\ c.op \in {"Delete", "TransitionIfInProgress"} => reply' = reply
      /\ c.op # "Delete" => deleted' = deleted
  BY <1>2, ServeChanges
<1>4. /\ c \in Commands /\ CommandShape(c) /\ CallerWaits(c) /\ WriteFinds(c)
      /\ c.id \in Requests /\ c.caller \in Requests
  BY <1>2, <1>3, NextCommand
<1>5. RequestSound(c.id) /\ TaskKnows(c.id) /\ ClientTracksLog(c.id) /\ RecordSound(c.id)
      /\ ClientSound(c.id)
  BY <1>4 DEF RequestSound
<1>6. row \in [Requests -> Rows] /\ log \in [Requests -> Seq(LogRows)]
      /\ reply \in [Requests -> Replies] /\ TypeOK'
  BY StoreTypes DEF TypeOK, StoreTypeOK, LogRows
<1>7. ASSUME NEW r \in Requests, r # c.id, r # c.caller PROVE RequestSound(r)'
  BY <1>3, <1>7, BystanderSound
\* A command that changed nothing, and whose caller is told so, if it waits.
<1>8. ASSUME UNCHANGED <<row, log, deleted>>,
             reply'[c.caller] = reply[c.caller] \/ reply'[c.caller].kind = "error"
      PROVE  RequestSound(c.caller)'
  <2>1. \/ reply'[c.caller] = reply[c.caller]
        \/ pc[c.caller] \in {"previous"} \cup Over
        \/ pc[c.caller] \in {"create", "fail", "finish", "append", "close"}
    BY <1>3, <1>4 DEF CallerWaits
  <2>2. QED
    BY <1>3, <1>4, <1>8, <2>1, BystanderSound
<1> SUFFICES RequestsSound'
  <2>1. QueueOrder' /\ QueueSound'
    BY ServeKeepsQueue
  <2>2. ASSUME RequestsSound' PROVE TypeOK' /\ QueueOrder' /\ QueueSound' /\ RequestsSound'
    BY <1>6, <2>1, <2>2
  <2>3. QED
    BY <2>2, InvariantFrom, PTL
<1> USE DEF Take
<1>9. CASE ServeGet(fault)
  <2>1. c.op = "Get" /\ UNCHANGED <<row, log, deleted>>
    BY <1>2, <1>9 DEF ServeGet
  <2>2. pc[c.caller] \in {"previous"} \cup Over
    BY <1>4, <2>1 DEF CallerWaits
  <2>3. ASSUME NEW r \in Requests PROVE RequestSound(r)'
    BY <1>3, <2>1, <2>2, BystanderSound
  <2>4. QED
    BY <2>3 DEF RequestsSound
<1>10. CASE ServeCreate(fault)
  <2>1. c.op = "Create" /\ c.id = c.caller /\ c.set = Row("in_progress")
    BY <1>2, <1>4, <1>10 DEF ServeCreate, CommandShape
  <2> SUFFICES RequestSound(c.caller)'
    BY <1>7, <2>1 DEF RequestsSound
  <2>2. row[c.id] = NoRow /\ c.id \notin deleted /\ ~Exists(c.id) /\ log[c.id] = <<>>
    BY <1>4, <1>5, <2>1 DEF WriteFinds, RecordSound, Exists, NoRow
  <2>3. UNCHANGED <<log, deleted>>
    BY <1>10 DEF ServeCreate
  <2>4. CASE fault = "sql"
    <3>1. row' = row /\ (reply'[c.caller] = reply[c.caller] \/ reply'[c.caller] = Failure)
      BY <1>2, <1>4, <1>6, <1>10, <2>4 DEF ServeCreate, Answer, Outcome
    <3>2. QED
      BY <1>8, <2>1, <2>3, <3>1 DEF Failure
  <2>5. CASE fault # "sql"
    <3>1. row'[c.id] = Row("in_progress")
      BY <1>2, <1>4, <1>6, <1>10, <2>1, <2>2, <2>5 DEF ServeCreate
    <3>2. pc[c.id] \in Over \cup {"create"}
      BY <1>4, <2>1 DEF CallerWaits
    <3>3. TaskKnows(c.id)'
      BY <1>3, <1>5, <2>2, <2>3, <3>1, <3>2 DEF TaskKnows, OpenOrDeleted, Row, Over, taskVars
    <3>4. ClientTracksLog(c.id)'
      BY <1>3, <1>5, <3>2 DEF ClientTracksLog, Over, taskVars
    <3>5. RecordSound(c.id)'
      BY <2>2, <2>3, <3>1 DEF RecordSound, Exists, Row, Final
    <3>6. ClientSound(c.id)'
      BY <1>3, <1>5, <2>2, <2>3 DEF ClientSound, NoRow, taskVars
    <3>7. QED
      BY <2>1, <3>3, <3>4, <3>5, <3>6 DEF RequestSound
  <2>6. QED
    BY <2>4, <2>5
<1>11. CASE ServeDelete(fault)
  <2>1. c.op = "Delete" /\ c.id = c.caller /\ reply' = reply
    BY <1>2, <1>4, <1>11 DEF ServeDelete, CommandShape
  <2> SUFFICES RequestSound(c.caller)'
    BY <1>7, <2>1 DEF RequestsSound
  <2>2. CASE ~(Exists(c.id) /\ fault # "sql")
    <3>1. UNCHANGED <<row, log, deleted>>
      BY <1>2, <1>11, <2>2 DEF ServeDelete
    <3>2. QED
      BY <1>8, <2>1, <3>1
  <2>3. CASE Exists(c.id) /\ fault # "sql"
    <3>1. /\ row'[c.id] = NoRow /\ log'[c.id] = <<>> /\ c.id \in deleted'
      BY <1>2, <1>4, <1>6, <1>11, <2>3 DEF ServeDelete, CascadeEvents
    <3>2. pc[c.id] \notin {"new", "previous", "resolve"}
      BY <1>5, <2>3 DEF TaskKnows, Exists, NoRow
    <3>3. TaskKnows(c.id)'
      BY <1>3, <1>5, <2>1, <3>1, <3>2 DEF TaskKnows, OpenOrDeleted, taskVars
    <3>4. ClientTracksLog(c.id)'
      BY <1>3, <1>5, <2>1, <3>1 DEF ClientTracksLog, taskVars
    <3>5. RecordSound(c.id)'
      <4>1. Len(<<>>) = 0
        OBVIOUS
      <4>2. QED
        BY <3>1, <4>1 DEF RecordSound, NoRow, Final
    <3>6. ClientSound(c.id)'
      BY <1>3, <1>5, <3>1 DEF ClientSound, taskVars
    <3>7. QED
      BY <2>1, <3>3, <3>4, <3>5, <3>6 DEF RequestSound
  <2>4. QED
    BY <2>2, <2>3
<1>12. CASE ServeTransitionIfInProgress(fault)
  <2>1. /\ c.op = "TransitionIfInProgress" /\ c.id = c.caller /\ reply' = reply
        /\ pc[c.id] \in Over
    BY <1>2, <1>4, <1>12 DEF ServeTransitionIfInProgress, CommandShape, CallerWaits
  <2> SUFFICES RequestSound(c.caller)'
    BY <1>7, <2>1 DEF RequestsSound
  <2>2. CASE ~(MayClose(c.id) /\ fault # "sql")
    <3>1. UNCHANGED <<row, log, deleted>>
      BY <1>2, <1>12, <2>2 DEF ServeTransitionIfInProgress
    <3>2. QED
      BY <1>8, <2>1, <3>1
  <2>3. CASE MayClose(c.id) /\ fault # "sql"
    <3>1. /\ row'[c.id] = c.set /\ log'[c.id] = AppendEvents(log[c.id], c.events)
          /\ row[c.id].status = "in_progress" /\ deleted' = deleted
      BY <1>2, <1>4, <1>6, <1>12, <2>3 DEF ServeTransitionIfInProgress, MayClose
    <3>2. PICK final \in Final :
             /\ c.set = Row(final)
             /\ c.events # <<>> /\ Len(c.events) \in Nat \ {0}
             /\ c.events[Len(c.events)] = final
             /\ \A i \in 1..(Len(c.events) - 1) : c.events[i] \notin Final
      BY <1>4, <2>1, CloseShape
    <3>3. UNCHANGED <<taskVars, deleted>>
      BY <1>3, <3>1
    <3>4. row'[c.id] = Row(c.events[Len(c.events)]) /\ c.events[Len(c.events)] \in Final
      BY <3>1, <3>2
    <3>5. RecordSound(c.id)' /\ ClientSound(c.id)'
      BY <1>4, <3>1, <3>2, <3>3, <3>4, AppendSound
    <3>6. TaskKnows(c.id)' /\ ClientTracksLog(c.id)'
      BY <1>3, <1>5, <2>1 DEF TaskKnows, ClientTracksLog, Over, taskVars
    <3>7. QED
      BY <2>1, <3>5, <3>6 DEF RequestSound
  <2>4. QED
    BY <2>2, <2>3
<1>13. CASE ServeTransition(fault) \/ ServeAppendEvent(fault)
  <2>1. c.op \in Writers /\ c.id = c.caller /\ OpenOrDeleted(c.id) /\ UNCHANGED deleted
    BY <1>2, <1>4, <1>13 DEF ServeTransition, ServeAppendEvent, CommandShape, WriteFinds, Writers
  <2> SUFFICES RequestSound(c.caller)'
    BY <1>7, <2>1 DEF RequestsSound
  <2>2. CASE ~Exists(c.id) \/ fault = "sql"
    <3>1. UNCHANGED <<row, log>>
      BY <1>2, <1>13, <2>2 DEF ServeTransition, ServeAppendEvent, Updates, ForeignKeyHolds
    <3>2. reply'[c.caller] = reply[c.caller] \/ reply'[c.caller] = Failure
      BY <1>2, <1>4, <1>6, <1>13, <2>2
         DEF ServeTransition, ServeAppendEvent, Answer, Outcome, Updates, ForeignKeyHolds
    <3>3. QED
      BY <1>8, <2>1, <3>1, <3>2 DEF Failure
  <2>3. CASE Exists(c.id) /\ fault # "sql"
    <3>1. row[c.id].status = "in_progress"
      BY <1>5, <2>1, <2>3 DEF OpenOrDeleted, RecordSound, Exists, NoRow
    <3>2. /\ log'[c.id] = AppendEvents(log[c.id], c.events)
          /\ \/ c.op = "Transition" /\ row'[c.id] = c.set
             \/ c.op = "AppendEvent" /\ row'[c.id] = row[c.id]
          /\ \/ reply'[c.id] = reply[c.id] /\ reply[c.id].kind # "waiting"
             \/ reply'[c.id] = Failure
             \/ reply'[c.id] = Ok(LastSeq(log'[c.id]))
      BY <1>2, <1>4, <1>6, <1>13, <2>1, <2>3
         DEF ServeTransition, ServeAppendEvent, Answer, Outcome, Updates, ForeignKeyHolds
    <3>3. /\ c.events # <<>> /\ Len(c.events) \in Nat \ {0}
          /\ \A i \in 1..(Len(c.events) - 1) : c.events[i] \notin Final
          /\ \/ c.events[Len(c.events)] \notin Final /\ row'[c.id] = row[c.id]
             \/ /\ c.events[Len(c.events)] \in Final
                /\ row'[c.id] = Row(c.events[Len(c.events)])
      <4>1. CASE c.op = "Transition"
        BY <1>4, <3>2, <4>1, CloseShape
      <4>2. CASE c.op = "AppendEvent"
        BY <1>4, <3>2, <4>2, AppendShape DEF ProgressTypes
      <4>3. QED
        BY <2>1, <4>1, <4>2 DEF Writers
    <3>4. /\ RecordSound(c.id)' /\ ClientSound(c.id)'
          /\ Len(log'[c.id]) = Len(log[c.id]) + Len(c.events)
          /\ LastSeq(log'[c.id]) = Len(log'[c.id]) - 1
          /\ log'[c.id][Len(log'[c.id])].type = c.events[Len(c.events)]
          /\ Len(log[c.id]) \in Nat
          /\ c.id \notin deleted
      BY <1>3, <1>4, <2>1, <3>1, <3>2, <3>3, AppendSound
    <3>5. \/ pc[c.id] \in Over
          \/ reply'[c.id] = Failure
          \/ reply'[c.id] = Ok(LastSeq(log'[c.id])) /\ reply[c.id].kind = "waiting"
      BY <1>4, <2>1, <3>2 DEF CallerWaits, Writers
    <3>6. TaskKnows(c.id)'
      <4>1. c.op = "Transition" => c.set.status = row'[c.id].status
        BY <3>2
      <4>2. QED
        BY <1>3, <1>4, <1>5, <2>1, <3>1, <3>2, <3>4, <3>5, <4>1
           DEF TaskKnows, CallerWaits, OpenOrDeleted, Writers, Over, Failure, taskVars
    <3>7. ClientTracksLog(c.id)'
      <4>1. CASE pc[c.id] \in Over
        BY <1>3, <4>1 DEF ClientTracksLog, Over, taskVars
      <4>2. CASE pc[c.id] \notin Over
        <5>1. \/ pc[c.id] = "append" /\ c.events = <<NextEvent(c.id)>>
              \/ pc[c.id] = "close" /\ c.events = <<pending[c.id]>>
              \/ pc[c.id] \in {"fail", "finish"}
          BY <1>4, <2>1, <4>2 DEF CallerWaits, Writers
        <5>2. pc[c.id] \in {"append", "close"} =>
                 Len(c.events) = 1 /\ c.events[1] = IF pc[c.id] = "append" THEN NextEvent(c.id)
                                                                          ELSE pending[c.id]
          <6>1. \A x : Len(<<x>>) = 1 /\ <<x>>[1] = x
            OBVIOUS
          <6>2. QED
            BY <5>1, <6>1
        <5>3. pc[c.id] \in {"append", "close"} /\ reply[c.id].kind = "waiting" =>
                 Len(log[c.id]) = Len(client[c.id])
          BY <1>5, <3>4 DEF ClientTracksLog
        <5>4. reply'[c.id].kind \in {"ok", "error"}
          BY <3>5, <4>2 DEF Failure, Ok
        <5>5. reply'[c.id].kind = "ok" =>
                 /\ reply'[c.id].seq = LastSeq(log'[c.id])
                 /\ reply[c.id].kind = "waiting"
          BY <3>5, <4>2 DEF Failure, Ok
        <5>6. pc[c.id] \in {"append", "close"} =>
                 log'[c.id][Len(log'[c.id])].type = c.events[1]
          BY <3>4, <5>2
        <5>7. QED
          <6>1. /\ UNCHANGED <<pc, mode, pending, sequence, client>>
                /\ pc[c.id] \in {"append", "close", "fail", "finish"}
            BY <1>3, <5>1 DEF taskVars
          <6>2. pc[c.id] \in {"append", "close"} /\ reply'[c.id].kind = "ok" =>
                   /\ reply'[c.id].seq = Len(client[c.id])
                   /\ Len(log'[c.id]) = Len(client[c.id]) + 1
            <7> SUFFICES ASSUME pc[c.id] \in {"append", "close"}, reply'[c.id].kind = "ok"
                         PROVE  /\ reply'[c.id].seq = Len(client[c.id])
                                /\ Len(log'[c.id]) = Len(client[c.id]) + 1
              OBVIOUS
            <7>1. Len(log[c.id]) = Len(client[c.id]) /\ Len(log[c.id]) \in Nat
              BY <3>4, <5>3, <5>5
            <7>2. Len(log'[c.id]) = Len(log[c.id]) + 1
              BY <3>4, <5>2
            <7>3. reply'[c.id].seq = Len(log'[c.id]) - 1
              BY <3>4, <5>5
            <7>4. QED
              BY <7>1, <7>2, <7>3
          <6>3. NextEvent(c.id)' = NextEvent(c.id)
            BY <6>1 DEF NextEvent
          <6> HIDE DEF NextEvent
          <6>4. QED
            BY <1>5, <5>2, <5>4, <5>6, <6>1, <6>2, <6>3 DEF ClientTracksLog, Over
      <4>3. QED
        BY <4>1, <4>2
    <3>8. QED
      BY <2>1, <3>4, <3>6, <3>7 DEF RequestSound
  <2>4. QED
    BY <2>2, <2>3
<1>14. QED
  BY <1>1, <1>9, <1>10, <1>11, <1>12, <1>13

-----------------------------------------------------------------------------
\* Every step of the system, and every stutter, keeps the invariant.
LEMMA NextInvariant == IInv /\ [Next]_vars => IInv'
<1> SUFFICES ASSUME IInv, [Next]_vars PROVE IInv'
  OBVIOUS
<1>1. ASSUME NEW r \in Requests, Receive(r) PROVE IInv'
  BY <1>1, HandlerSends
<1>2. ASSUME NEW r \in Requests, TaskStep(r) PROVE IInv'
  BY <1>2, HandlerReads, HandlerSends, StreamYields, StoreFailedSound DEF TaskStep
<1>3. ASSUME NEW r \in Requests, Emit(r) \/ CloseStream(r) PROVE IInv'
  BY <1>3, StreamSends, StreamYields
<1>4. ASSUME NEW r \in Requests, UpstreamEventHandled(r) PROVE IInv'
  BY <1>4, UpstreamEventSound
<1>5. ASSUME NEW r \in Requests, Disconnect(r) \/ RequestDelete(r) PROVE IInv'
  BY <1>5, DisconnectSound, RequestDeleteSound
<1>6. CASE StoreStep
  BY <1>6, StoreStepSound
<1>7. CASE ActorEnds \/ Crash
  BY <1>7, OutageSound
<1>8. CASE UNCHANGED vars
  <2>1. TypeOK' /\ QueueOrder' /\ QueueSound'
    <3>1. TypeOK'
      BY <1>8, InvariantGives DEF vars, storeVars, taskVars, TypeOK, StoreTypeOK
    <3>2. QueueOrder'
      BY <1>8, InvariantGives DEF vars, storeVars, QueueOrder
    <3>3. \A d : (CallerWaits(d) => CallerWaits(d)') /\ (WriteFinds(d) => WriteFinds(d)')
      BY <1>8 DEF vars, storeVars, taskVars, CallerWaits, NextEvent, WriteFinds, OpenOrDeleted
    <3>4. QueueSound'
      BY <1>8, <3>3, InvariantGives DEF vars, storeVars, QueueSound, CommandShape
    <3>5. QED
      BY <3>1, <3>2, <3>4
  <2>2. ASSUME NEW r \in Requests PROVE RequestSound(r)'
    BY <1>8, InvariantGives, UntouchedSound DEF Untouched, vars, storeVars, taskVars
  <2>3. TypeOK' /\ QueueOrder' /\ QueueSound' /\ RequestsSound'
    BY <2>1, <2>2 DEF RequestsSound
  <2>4. QED
    BY <2>3, InvariantFrom, PTL
<1>9. QED
  BY <1>1, <1>2, <1>3, <1>4, <1>5, <1>6, <1>7, <1>8 DEF Next

\* The invariant holds in every reachable state, for any number of requests,
\* crashes and items, and whatever faults and disconnects may happen.
THEOREM InvariantHolds == Spec => []IInv
  BY InitInvariant, NextInvariant, PTL DEF Spec

\* Every variable keeps its type.
THEOREM TypesHold == Spec => []TypeOK
<1>1. IInv => TypeOK
  BY DEF IInv
<1>2. QED
  BY <1>1, InvariantHolds, PTL

\* A record's status and its lifecycle events always agree, so a record is
\* closed by one terminal event at most, whoever comes to close it.
THEOREM LogMatchesStatusHolds == Spec => []LogMatchesStatus
<1>1. IInv => LogMatchesStatus
  BY DEF IInv
<1>2. QED
  BY <1>1, InvariantHolds, PTL

\* The events of a record are always numbered 0, 1, 2, ...
THEOREM SequenceContiguousHolds == Spec => []SequenceContiguous
<1>1. IInv => SequenceContiguous
  BY DEF IInv
<1>2. QED
  BY <1>1, InvariantHolds, PTL

\* What the client of a stored stream was sent can always be replayed.
THEOREM ReplayFaithfulHolds == Spec => []ReplayFaithful
<1>1. IInv => ReplayFaithful
  BY DEF IInv
<1>2. QED
  BY <1>1, InvariantHolds, PTL

\* Every client sees contiguous numbers and one terminal event at most, last.
THEOREM ClientStreamWellFormedHolds == Spec => []ClientStreamWellFormed
<1>1. IInv => ClientStreamWellFormed
  BY DEF IInv
<1>2. QED
  BY <1>1, InvariantHolds, PTL

\* The stored document and the status column never disagree.
THEOREM DocumentMatchesStatusHolds == Spec => []DocumentMatchesStatus
<1>1. IInv => DocumentMatchesStatus
  BY DEF IInv
<1>2. QED
  BY <1>1, InvariantHolds, PTL

\* A stored answer that was returned with success has a final record.
THEOREM AnswerIsStoredHolds == Spec => []AnswerIsStored
<1>1. IInv => AnswerIsStored
  BY DEF IInv
<1>2. QED
  BY <1>1, InvariantHolds, PTL

-----------------------------------------------------------------------------
(* What a client that was told storage_error may rely on.                   *)

\* A transition of the task of r is in the queue.
Closing(r) == \E i \in 1..Len(mailbox) : mailbox[i].caller = r /\ mailbox[i].op = "Transition"

\* While the answer about an event is open, or is an error, no transition of r was committed;
\* once the client was told so, none is, and none will be.
ErrorSound(r) ==
    /\ pc[r] = "append" => OpenOrDeleted(r)
    /\ pc[r] = "close" /\ reply[r].kind # "ok" => OpenOrDeleted(r)
    /\ pc[r] \notin Over => \A k \in 1..Len(client[r]) : ~client[r][k].lost
    /\ \A k \in 1..Len(client[r]) : client[r][k].lost =>
          row[r].status \notin {"completed", "failed"} /\ ~Closing(r)

ErrorsSound == \A r \in Requests : ErrorSound(r)

\* What a step leaves of a request that it does not touch.
LEMMA ErrorUntouched ==
    ASSUME NEW r \in Requests, ErrorSound(r), Closing(r)' => Closing(r),
           pc'[r] = pc[r], client'[r] = client[r], reply'[r] = reply[r],
           row'[r] = row[r], r \in deleted => r \in deleted'
    PROVE  ErrorSound(r)'
  BY DEF ErrorSound, OpenOrDeleted

\* A command that is queued closes nothing but its caller's record.
LEMMA QueuedClosing ==
    ASSUME TypeOK, NEW q \in Requests,
           \/ mailbox' = mailbox
           \/ \E c \in Commands : /\ mailbox' = Append(mailbox, c)
                                  /\ c.caller # q \/ c.op # "Transition"
    PROVE  Closing(q)' => Closing(q)
<1>1. CASE mailbox' = mailbox
  BY <1>1 DEF Closing
<1>2. ASSUME NEW c \in Commands, mailbox' = Append(mailbox, c),
             c.caller # q \/ c.op # "Transition", Closing(q)'
      PROVE  Closing(q)
  <2>1. mailbox \in Seq(Commands) /\ Len(mailbox) \in Nat
    BY DEF TypeOK, StoreTypeOK
  <2>2. PICK i \in 1..Len(mailbox') : mailbox'[i].caller = q /\ mailbox'[i].op = "Transition"
    BY <1>2 DEF Closing
  <2>3. i \in 1..(Len(mailbox) + 1) /\ (i = Len(mailbox) + 1 => mailbox'[i] = c)
    BY <1>2, <2>1, <2>2
  <2>4. i \in 1..Len(mailbox) /\ mailbox'[i] = mailbox[i]
    BY <1>2, <2>1, <2>2, <2>3
  <2>5. QED
    BY <2>2, <2>4 DEF Closing
<1>3. QED
  BY <1>1, <1>2

\* A step of a task, or of its client, that queues one command of its own at most leaves the
\* others sound.
LEMMA OthersKeepErrors ==
    ASSUME TypeOK, ErrorsSound, NEW r \in Requests, UNCHANGED <<row, deleted>>,
           \A q \in Requests \ {r} :
               pc'[q] = pc[q] /\ client'[q] = client[q] /\ reply'[q] = reply[q],
           mailbox' = mailbox \/ \E c \in Commands : mailbox' = Append(mailbox, c) /\ c.caller = r
    PROVE  \A q \in Requests \ {r} : ErrorSound(q)'
<1> TAKE q \in Requests \ {r}
<1>1. Closing(q)' => Closing(q)
  BY QueuedClosing
<1>2. QED
  BY <1>1, ErrorUntouched DEF ErrorsSound

\* The handler's steps, and a client that goes away: nobody was told anything.
LEMMA HandlerErrors ==
    ASSUME IInv, ErrorsSound, NEW r \in Requests,
           \/ PreviousRead(r) \/ ModelRefused(r) \/ Created(r) \/ FailureStored(r)
           \/ AnswerStored(r) \/ UpstreamOpened(r)
           \/ Receive(r) \/ ModelResolved(r) \/ UpstreamFailed(r) \/ GenerationDone(r)
           \/ Disconnect(r)
    PROVE  ErrorsSound'
<1> USE InvariantGives
<1>1. /\ UNCHANGED <<row, deleted, client>> /\ pc[r] \notin Over
      /\ \A q \in Requests \ {r} : pc'[q] = pc[q]
  BY DEF PreviousRead, ModelRefused, Created, FailureStored, AnswerStored, UpstreamOpened,
         Receive, ModelResolved, UpstreamFailed, GenerationDone, Disconnect, Goto, Return,
         InHandler, InStream, Over, storeVars, TypeOK
<1>2. pc'[r] \notin {"append", "close"}
  BY DEF PreviousRead, ModelRefused, Created, FailureStored, AnswerStored, UpstreamOpened,
         Receive, ModelResolved, UpstreamFailed, GenerationDone, Disconnect, Goto, Return,
         TypeOK
<1>3. /\ \A q \in Requests \ {r} : reply'[q] = reply[q]
      /\ mailbox' = mailbox \/ (\E c \in Commands : mailbox' = Append(mailbox, c) /\ c.caller = r)
  <2>1. CASE \/ PreviousRead(r) \/ ModelRefused(r) \/ Created(r) \/ FailureStored(r)
             \/ AnswerStored(r) \/ UpstreamOpened(r)
    BY <2>1 DEF PreviousRead, ModelRefused, Created, FailureStored, AnswerStored,
                UpstreamOpened, Taken, storeVars, TypeOK, StoreTypeOK
  <2>2. CASE Disconnect(r)
    <3>1. MarkIncomplete(r, "incomplete") \in Commands
          /\ MarkIncomplete(r, "incomplete").caller = r
      BY CommandType, EventListType
         DEF MarkIncomplete, Rows, Statuses, Final, EventTypes, Command
    <3>2. mailbox' = mailbox \/ mailbox' = Append(mailbox, MarkIncomplete(r, "incomplete"))
      BY <2>2 DEF Disconnect, Post, DisconnectDocument
    <3>3. \A q \in Requests \ {r} : reply'[q] = reply[q]
      BY <2>2 DEF Disconnect, Taken, TypeOK, StoreTypeOK
    <3>4. QED
      BY <3>1, <3>2, <3>3
  <2>3. ASSUME NEW c \in Commands, c.caller = r, Send(c)
        PROVE  /\ \A q \in Requests \ {r} : reply'[q] = reply[q]
               /\ mailbox' = mailbox
                  \/ \E d \in Commands : mailbox' = Append(mailbox, d) /\ d.caller = r
    BY <2>3, SendQueues
  <2>4. ASSUME NEW op \in {"Create", "Transition", "Get"}, NEW id \in Requests, NEW set \in Rows,
               NEW events \in Seq(EventTypes), Send(Command(op, id, r, set, events))
        PROVE  /\ \A q \in Requests \ {r} : reply'[q] = reply[q]
               /\ mailbox' = mailbox
                  \/ \E d \in Commands : mailbox' = Append(mailbox, d) /\ d.caller = r
    <3>1. Command(op, id, r, set, events) \in Commands
          /\ Command(op, id, r, set, events).caller = r
      BY <2>4, CommandType DEF Command
    <3>2. QED
      BY <2>3, <2>4, <3>1
  <2>5. /\ NoRow \in Rows /\ Row("in_progress") \in Rows
        /\ \A final \in Final : Row(final) \in Rows /\ StoredEvents(final) \in Seq(EventTypes)
        /\ <<>> \in Seq(EventTypes) /\ SetupFailureEvents \in Seq(EventTypes)
    BY EventListType DEF Row, NoRow, Rows, Statuses
  <2>6. CASE Receive(r) \/ ModelResolved(r) \/ UpstreamFailed(r) \/ GenerationDone(r)
    <3>1. CASE UNCHANGED <<mailbox, reply>>
      BY <3>1
    <3>2. CASE Receive(r) /\ ~UNCHANGED <<mailbox, reply>>
      <4>1. PICK id \in Requests : Send(Command("Get", id, r, NoRow, <<>>))
        BY <3>2 DEF Receive, storeVars
      <4>2. QED
        BY <2>4, <2>5, <4>1
    <3>3. CASE ModelResolved(r) /\ ~UNCHANGED <<mailbox, reply>>
      <4>1. Send(Command("Create", r, r, Row("in_progress"), <<>>))
        BY <3>3 DEF ModelResolved
      <4>2. QED
        BY <2>4, <2>5, <4>1
    <3>4. CASE UpstreamFailed(r) /\ ~UNCHANGED <<mailbox, reply>>
      <4>1. Send(Command("Transition", r, r, Row("failed"), SetupFailureEvents))
        BY <3>4 DEF UpstreamFailed
      <4>2. QED
        BY <2>4, <2>5, <4>1 DEF Final
    <3>5. CASE GenerationDone(r) /\ ~UNCHANGED <<mailbox, reply>>
      <4>1. PICK final \in Final :
                Send(Command("Transition", r, r, Row(final), StoredEvents(final)))
        BY <3>5 DEF GenerationDone, Final
      <4>2. QED
        BY <2>4, <2>5, <4>1
    <3>6. QED
      BY <2>6, <3>1, <3>2, <3>3, <3>4, <3>5
  <2>7. QED
    BY <2>1, <2>2, <2>6
<1>4. \A q \in Requests \ {r} : ErrorSound(q)'
  BY <1>1, <1>3, OthersKeepErrors
<1>5. ErrorSound(r)'
  BY <1>1, <1>2 DEF ErrorsSound, ErrorSound
<1>6. QED
  BY <1>4, <1>5 DEF ErrorsSound

\* What one more event leaves of what the client was told.
LEMMA YieldKeepsLost ==
    ASSUME TypeOK, NEW r \in Requests, NEW event \in ClientEvents, Yield(r, event)
    PROVE  /\ \A q \in Requests \ {r} : client'[q] = client[q]
           /\ \A k \in 1..Len(client'[r]) :
                 client'[r][k] = event \/ (k \in 1..Len(client[r]) /\ client'[r][k] = client[r][k])
<1>1. client \in [Requests -> Seq(ClientEvents)] /\ client' = [client EXCEPT ![r] = Append(@, event)]
  BY DEF TypeOK, Yield
<1> DEFINE old == client[r]
<1>2. old \in Seq(ClientEvents) /\ Len(old) \in Nat /\ client'[r] = Append(old, event)
  BY <1>1
<1> HIDE DEF old
<1> DEFINE new == Append(old, event)
<1>3. \A k \in 1..Len(new) : new[k] = event \/ (k \in 1..Len(old) /\ new[k] = old[k])
  <2>1. /\ Len(new) = Len(old) + 1
        /\ new[Len(old) + 1] = event
        /\ \A k \in 1..Len(old) : new[k] = old[k]
    BY <1>2
  <2> HIDE DEF new
  <2>2. \A k \in 1..(Len(old) + 1) : k \in 1..Len(old) \/ k = Len(old) + 1
    BY <1>2
  <2>3. QED
    BY <2>1, <2>2
<1>4. \A q \in Requests \ {r} : client'[q] = client[q]
  BY <1>1
<1>5. QED
  BY <1>2, <1>3, <1>4 DEF old

\* The steps of a live stream while the store answers it.
LEMMA StreamErrors ==
    ASSUME IInv, ErrorsSound, NEW r \in Requests,
           \/ Emit(r) \/ EventStored(r) \/ UpstreamEventHandled(r)
           \/ CloseStream(r) \/ StreamClosed(r)
    PROVE  ErrorsSound'
<1> USE InvariantGives
<1>1. TypeOK' /\ TaskKnows(r) /\ ErrorSound(r)
  BY StreamType DEF RequestSound, ErrorsSound
<1>2. /\ UNCHANGED <<row, deleted>> /\ pc[r] \in InStream
      /\ \A q \in Requests \ {r} : pc'[q] = pc[q]
  BY DEF Emit, EventStored, UpstreamEventHandled, CloseStream, StreamClosed, Goto, InStream,
         storeVars, TypeOK
<1>3. /\ \A q \in Requests \ {r} : client'[q] = client[q]
      /\ \A k \in 1..Len(client'[r]) : ~client'[r][k].lost
  <2>1. \A k \in 1..Len(client[r]) : ~client[r][k].lost
    BY <1>1, <1>2 DEF ErrorSound, InStream, Over
  <2>2. CASE UNCHANGED client
    BY <2>1, <2>2
  <2>3. ASSUME NEW type \in EventTypes, NEW seq \in Nat, YieldAssigned(r, type, seq)
        PROVE  /\ \A q \in Requests \ {r} : client'[q] = client[q]
               /\ \A k \in 1..Len(client'[r]) : ~client'[r][k].lost
    <3>1. /\ Event(type, seq) \in ClientEvents /\ ~Event(type, seq).lost
          /\ Yield(r, Event(type, seq))
      BY <2>3 DEF Event, ClientEvents, YieldAssigned
    <3>2. QED
      BY <2>1, <3>1, YieldKeepsLost
  <2>4. /\ NextEvent(r) \in EventTypes /\ Final \subseteq EventTypes
        /\ sequence[r] \in Nat /\ reply[r].seq \in Nat
    BY NextEventTypes DEF ProgressTypes, EventTypes, TypeOK, StoreTypeOK, Replies
  <2>5. CASE Emit(r)
    BY <2>2, <2>3, <2>4, <2>5 DEF Emit
  <2>6. CASE CloseStream(r)
    BY <2>2, <2>3, <2>4, <2>6 DEF CloseStream
  <2>7. CASE EventStored(r)
    BY <2>3, <2>4, <2>7 DEF EventStored
  <2>8. CASE StreamClosed(r)
    <3>1. pending[r] \in EventTypes
      BY <1>1, <2>4, <2>8 DEF StreamClosed, TaskKnows
    <3>2. QED
      BY <2>3, <2>4, <2>8, <3>1 DEF StreamClosed
  <2>9. CASE UpstreamEventHandled(r)
    BY <2>2, <2>9 DEF UpstreamEventHandled
  <2>10. QED
    BY <2>5, <2>6, <2>7, <2>8, <2>9
<1>4. /\ \A q \in Requests \ {r} : reply'[q] = reply[q]
      /\ mailbox' = mailbox \/ (\E c \in Commands : mailbox' = Append(mailbox, c) /\ c.caller = r)
      /\ pc'[r] \in {"append", "close"} => OpenOrDeleted(r)
  <2>1. ASSUME NEW c \in Commands, c.caller = r, Send(c)
        PROVE  /\ \A q \in Requests \ {r} : reply'[q] = reply[q]
               /\ mailbox' = mailbox
                  \/ \E d \in Commands : mailbox' = Append(mailbox, d) /\ d.caller = r
    BY <2>1, SendQueues
  <2>2. CASE Emit(r) /\ mode[r].store
    <3> DEFINE c == Command("AppendEvent", r, r, NoRow, <<NextEvent(r)>>)
    <3>1. c \in Commands
      BY CommandType, EventListType, NextEventTypes
         DEF ProgressTypes, NoRow, Rows, Statuses
    <3>2. c.caller = r /\ Send(c) /\ OpenOrDeleted(r)
      BY <1>1, <2>2 DEF Emit, Command, TaskKnows
    <3>3. QED
      BY <2>1, <3>1, <3>2
  <2>3. CASE CloseStream(r) /\ mode[r].store
    <3>1. PICK final \in Final : Send(Command("Transition", r, r, Row(final), <<final>>))
      BY <2>3 DEF CloseStream
    <3> DEFINE c == Command("Transition", r, r, Row(final), <<final>>)
    <3>2. final \in Statuses /\ final \in EventTypes
      BY DEF Statuses, EventTypes
    <3>3. c \in Commands
      BY <3>2, CommandType, RowType, EventListType
    <3>4. c.caller = r /\ Send(c) /\ OpenOrDeleted(r)
      BY <1>1, <2>3, <3>1 DEF CloseStream, Command, TaskKnows
    <3>5. QED
      BY <2>1, <3>3, <3>4
  <2>4. CASE \/ (Emit(r) \/ CloseStream(r)) /\ ~mode[r].store
             \/ EventStored(r) \/ UpstreamEventHandled(r) \/ StreamClosed(r)
    BY <2>4 DEF Emit, EventStored, UpstreamEventHandled, CloseStream, StreamClosed, Goto, Taken,
                storeVars, TypeOK, StoreTypeOK
  <2>5. QED
    BY <2>2, <2>3, <2>4
<1>5. \A q \in Requests \ {r} : ErrorSound(q)'
  BY <1>2, <1>3, <1>4, OthersKeepErrors
<1>6. ErrorSound(r)'
  BY <1>2, <1>3, <1>4 DEF ErrorSound, OpenOrDeleted
<1>7. QED
  BY <1>5, <1>6 DEF ErrorsSound

\* The step that tells the client: no transition is committed, and none is queued.
LEMMA StoreFailedErrors ==
    ASSUME IInv, ErrorsSound, NEW r \in Requests, StoreFailed(r)
    PROVE  ErrorsSound'
<1> USE InvariantGives
<1>1. ErrorSound(r) /\ RecordSound(r)
  BY DEF RequestSound, ErrorsSound
<1> DEFINE c == MarkIncomplete(r, "incomplete")
<1>2. /\ UNCHANGED <<row, deleted>> /\ pc[r] \in {"append", "close"} /\ reply[r].kind = "error"
      /\ pc'[r] = "returned"
      /\ \A q \in Requests \ {r} : pc'[q] = pc[q] /\ reply'[q] = reply[q]
      /\ mailbox' = mailbox \/ mailbox' = Append(mailbox, c)
  BY DEF StoreFailed, AfterStoreError, Goto, Taken, Got, Post, TypeOK, StoreTypeOK
<1>3. c \in Commands /\ c.caller = r /\ c.op = "TransitionIfInProgress"
  BY MarkIncompleteFits
<1> HIDE DEF c
<1>4. \A q \in Requests \ {r} : client'[q] = client[q]
  BY DEF StoreFailed, Yield, TypeOK
<1>5. \A q \in Requests \ {r} : ErrorSound(q)'
  BY <1>2, <1>3, <1>4, OthersKeepErrors
<1>6. OpenOrDeleted(r)
  BY <1>1, <1>2 DEF ErrorSound
<1>7. row[r].status \notin {"completed", "failed"}
  BY <1>1, <1>6 DEF OpenOrDeleted, RecordSound, NoRow
<1>8. ~Closing(r)
  BY <1>2, QuietTask DEF Quiet, Closing, Over
<1>9. ~Closing(r)'
  BY <1>2, <1>3, <1>8, QueuedClosing
<1>10. ErrorSound(r)'
  BY <1>2, <1>7, <1>9 DEF ErrorSound, Over
<1>11. QED
  BY <1>5, <1>10 DEF ErrorsSound

\* A request for a delete, an outage and a crash.
LEMMA EnvironmentErrors ==
    ASSUME IInv, ErrorsSound, (\E id \in Requests : RequestDelete(id)) \/ ActorEnds \/ Crash
    PROVE  ErrorsSound'
<1> USE InvariantGives
<1>1. ASSUME NEW id \in Requests, RequestDelete(id) PROVE ErrorsSound'
  <2> DEFINE c == Command("Delete", id, id, NoRow, <<>>)
  <2>1. c \in Commands /\ c.op # "Transition"
    <3>1. c \in Commands
      BY CommandType, EventListType DEF NoRow, Rows, Statuses
    <3>2. QED
      BY <3>1 DEF Command
  <2>2. mailbox' = mailbox \/ mailbox' = Append(mailbox, c)
    BY <1>1 DEF RequestDelete, Post
  <2> HIDE DEF c
  <2>3. \A q \in Requests : Closing(q)' => Closing(q)
    BY <2>1, <2>2, QueuedClosing
  <2>4. UNCHANGED <<row, reply, deleted, pc, client>>
    BY <1>1 DEF RequestDelete, taskVars
  <2>5. QED
    BY <2>3, <2>4, ErrorUntouched DEF ErrorsSound
<1>2. CASE ActorEnds \/ Crash
  <2>1. /\ UNCHANGED <<row, deleted, client>> /\ Len(mailbox') = 0
        /\ \A q \in Requests : \/ pc'[q] = pc[q] /\ (reply[q].kind = "ok" => reply'[q].kind = "ok")
                               \/ pc'[q] \in Over
                               \/ pc'[q] = pc[q] /\ pc[q] \notin {"append", "close"}
    <3>1. CASE ActorEnds
      BY <3>1 DEF ActorEnds, StopActor, SendersDropped, Failure, taskVars, TypeOK, StoreTypeOK
    <3>2. CASE Crash
      BY <3>2 DEF Crash, InStream, Over, TypeOK
    <3>3. QED
      BY <1>2, <3>1, <3>2
  <2>2. ASSUME NEW q \in Requests PROVE ErrorSound(q)'
    <3>1. ErrorSound(q) /\ ~Closing(q)'
      BY <2>1 DEF ErrorsSound, Closing
    <3>2. CASE pc'[q] \in Over
      BY <2>1, <3>1, <3>2 DEF ErrorSound, Over
    <3>3. CASE pc'[q] = pc[q]
      BY <2>1, <3>1, <3>3 DEF ErrorSound, OpenOrDeleted, Over
    <3>4. QED
      BY <2>1, <3>2, <3>3 DEF Over
  <2>3. QED
    BY <2>2 DEF ErrorsSound
<1>3. QED
  BY <1>1, <1>2

\* The actor's step, if it reports every commit: a transition that is committed is answered
\* with ok, so the answer of a stream that closes is no error.
LEMMA StoreErrors ==
    ASSUME "harden" \notin Faults, IInv, ErrorsSound, StoreStep
    PROVE  ErrorsSound'
<1> USE InvariantGives
<1>1. PICK fault \in Faults \cup {"none"} :
         \/ ServeCreate(fault) \/ ServeTransition(fault) \/ ServeTransitionIfInProgress(fault)
         \/ ServeGet(fault) \/ ServeDelete(fault) \/ ServeAppendEvent(fault)
  BY DEF StoreStep, Serve
<1>2. PICK c : c = Head(mailbox)
  OBVIOUS
<1>3. /\ mailbox # <<>> /\ mailbox' = Tail(mailbox) /\ UNCHANGED taskVars
      /\ \A q \in Requests : q # c.caller => reply'[q] = reply[q]
      /\ \A q \in Requests : reply[q].kind # "waiting" => reply'[q] = reply[q]
      /\ \A q \in Requests : q # c.id => row'[q] = row[q] /\ (q \in deleted' <=> q \in deleted)
      /\ c.op # "Delete" => deleted' = deleted
      /\ c.op \in {"Get", "AppendEvent"} => UNCHANGED <<row, deleted>>
  BY <1>2, ServeChanges
<1>4. /\ c \in Commands /\ CommandShape(c) /\ CallerWaits(c) /\ WriteFinds(c)
      /\ c.id \in Requests /\ c.caller \in Requests
  BY <1>2, <1>3, NextCommand
<1>5. \A q \in Requests : Closing(q)' => Closing(q)
  <2> SUFFICES ASSUME NEW q \in Requests, NEW i \in 1..Len(mailbox'),
                      mailbox'[i].caller = q, mailbox'[i].op = "Transition"
               PROVE  Closing(q)
    BY DEF Closing
  <2>1. i + 1 \in 1..Len(mailbox) /\ mailbox'[i] = mailbox[i + 1]
    BY <1>3, TailFacts
  <2>2. QED
    BY <2>1 DEF Closing
<1>6. c.op = "Transition" => Closing(c.caller)
  BY <1>2, <1>3, TailFacts DEF Closing
<1>7. /\ row \in [Requests -> Rows] /\ reply \in [Requests -> Replies]
      /\ fault \in {"sql", "none"}
  <2>1. Faults \subseteq FaultKinds
    BY StoreAssumption
  <2>2. QED
    BY <2>1 DEF FaultKinds, TypeOK, StoreTypeOK
<1>8. /\ c.op = "Create" => ServeCreate(fault)
      /\ c.op = "Transition" => ServeTransition(fault)
      /\ c.op = "TransitionIfInProgress" => ServeTransitionIfInProgress(fault)
      /\ c.op = "Delete" => ServeDelete(fault)
  BY <1>1, <1>2 DEF ServeCreate, ServeTransition, ServeTransitionIfInProgress, ServeGet,
                    ServeDelete, ServeAppendEvent, Take
<1>9. ASSUME NEW q \in Requests PROVE ErrorSound(q)'
  <2>1. ErrorSound(q) /\ pc'[q] = pc[q] /\ client'[q] = client[q]
    BY <1>3 DEF ErrorsSound, taskVars
  <2>2. CASE row'[q] = row[q] /\ (q \in deleted' <=> q \in deleted)
    <3>1. pc[q] = "close" /\ reply'[q].kind # "ok" => reply[q].kind # "ok"
      BY <1>3
    <3>2. QED
      BY <1>5, <2>1, <2>2, <3>1 DEF ErrorSound, OpenOrDeleted
  <2>3. CASE q = c.id /\ c.op = "Create"
    <3>1. row'[q] = row[q] \/ row'[q].status = "in_progress"
      BY <1>2, <1>4, <1>7, <1>8, <2>3 DEF ServeCreate, CommandShape, Row
    <3>2. pc[q] \notin {"append", "close"}
      BY <1>4, <2>3 DEF CallerWaits, CommandShape, Over
    <3>3. QED
      BY <1>5, <2>1, <3>1, <3>2 DEF ErrorSound
  <2>4. CASE q = c.id /\ c.op = "TransitionIfInProgress"
    <3>1. row'[q] = row[q] \/ row'[q].status = "incomplete"
      BY <1>2, <1>4, <1>7, <1>8, <2>4 DEF ServeTransitionIfInProgress, CommandShape, Row
    <3>2. pc[q] \in Over
      BY <1>4, <2>4 DEF CallerWaits, CommandShape
    <3>3. QED
      BY <1>5, <2>1, <3>1, <3>2 DEF ErrorSound, Over
  <2>5. CASE q = c.id /\ c.op = "Transition"
    <3>1. q = c.caller
      BY <1>4, <2>5 DEF CommandShape
    <3>2. \/ row'[q] = row[q]
          \/ reply[q].kind = "waiting" => reply'[q].kind = "ok"
      <4>1. ServeTransition(fault)
        BY <1>8, <2>5
      <4> DEFINE seq == LastSeq(AppendEvents(log[c.id], c.events))
      <4>2. ~(Updates(c.id) /\ fault # "sql") => row' = row
        BY <1>2, <4>1 DEF ServeTransition
      <4>3. Answer(c.caller, Outcome(Updates(c.id) /\ fault # "sql", fault, seq))
        BY <1>2, <4>1 DEF ServeTransition
      <4> HIDE DEF seq
      <4>4. Updates(c.id) /\ fault # "sql" => Answer(c.caller, Ok(seq))
        BY <1>7, <4>3 DEF Outcome
      <4>5. QED
        BY <1>7, <3>1, <4>2, <4>4 DEF Answer, Ok
    <3>3. pc[q] \in Over \/ (pc[q] \in {"fail", "finish", "close"} /\ reply[q].kind = "waiting")
      BY <1>4, <2>5, <3>1 DEF CallerWaits
    <3>4. deleted' = deleted /\ Closing(q)
      BY <1>3, <1>6, <2>5, <3>1
    <3>5. CASE row'[q] = row[q]
      BY <2>2, <3>4, <3>5
    <3>6. CASE reply[q].kind = "waiting" => reply'[q].kind = "ok"
      BY <1>5, <2>1, <3>3, <3>4, <3>6 DEF ErrorSound, Over
    <3>7. QED
      BY <3>2, <3>5, <3>6
  <2>6. CASE q = c.id /\ c.op = "Delete"
    <3>1. \/ row'[q] = row[q] /\ deleted' = deleted
          \/ row'[q] = NoRow /\ q \in deleted'
      BY <1>2, <1>4, <1>7, <1>8, <2>6 DEF ServeDelete
    <3>2. CASE row'[q] = NoRow /\ q \in deleted'
      BY <1>5, <2>1, <3>2 DEF ErrorSound, OpenOrDeleted, NoRow
    <3>3. QED
      BY <2>2, <3>1, <3>2
  <2>7. CASE q # c.id \/ c.op \in {"Get", "AppendEvent"}
    BY <1>3, <2>2, <2>7
  <2>8. QED
    BY <1>4, <2>3, <2>4, <2>5, <2>6, <2>7 DEF Commands
<1>10. QED
  BY <1>9 DEF ErrorsSound

\* Every step, if the actor reports every commit, keeps what the clients were told true.
LEMMA NextErrors ==
    ASSUME "harden" \notin Faults
    PROVE  IInv /\ ErrorsSound /\ [Next]_vars => ErrorsSound'
<1> SUFFICES ASSUME IInv, ErrorsSound, [Next]_vars PROVE ErrorsSound'
  OBVIOUS
<1>1. ASSUME NEW r \in Requests, Receive(r) \/ TaskStep(r) PROVE ErrorsSound'
  BY <1>1, HandlerErrors, StreamErrors, StoreFailedErrors DEF TaskStep
<1>2. ASSUME NEW r \in Requests, Emit(r) \/ UpstreamEventHandled(r) \/ CloseStream(r)
      PROVE  ErrorsSound'
  BY <1>2, StreamErrors
<1>3. ASSUME NEW r \in Requests, Disconnect(r) \/ RequestDelete(r) PROVE ErrorsSound'
  BY <1>3, HandlerErrors, EnvironmentErrors
<1>4. CASE StoreStep
  BY <1>4, StoreErrors
<1>5. CASE ActorEnds \/ Crash
  BY <1>5, EnvironmentErrors
<1>6. CASE UNCHANGED vars
  BY <1>6 DEF vars, storeVars, taskVars, ErrorsSound, ErrorSound, OpenOrDeleted, Closing
<1>7. QED
  BY <1>1, <1>2, <1>3, <1>4, <1>5, <1>6 DEF Next

\* Unless a fault can come after a commit, a client that was told storage_error was told the
\* truth: its record is neither completed nor failed, and never becomes so.
THEOREM StorageErrorIsTrueHolds ==
    ASSUME "harden" \notin Faults
    PROVE  Spec => []StorageErrorIsTrue
<1>1. Init => ErrorsSound
  <2> SUFFICES ASSUME Init PROVE ErrorsSound
    OBVIOUS
  <2>1. ASSUME NEW r \in Requests PROVE pc[r] = "new" /\ client[r] = <<>> /\ Len(client[r]) = 0
    BY DEF Init
  <2>2. QED
    BY <2>1 DEF ErrorsSound, ErrorSound
<1>2. IInv /\ ErrorsSound /\ [Next]_vars => ErrorsSound'
  BY NextErrors
<1>3. IInv /\ ErrorsSound => StorageErrorIsTrue
  BY InvariantGives, Domains DEF ErrorsSound, ErrorSound, StorageErrorIsTrue
<1>4. QED
  BY <1>1, <1>2, <1>3, InvariantHolds, PTL DEF Spec

-----------------------------------------------------------------------------
(* Two refinements: of ResponseRecord, and of Responses by Shutdown.        *)

\* The refinement mapping of Record.
StateOf == [id \in Requests |-> IF id \in deleted THEN "deleted" ELSE row[id].status]
Types(events) == [i \in DOMAIN events |-> events[i].type]
HistoryOf == [id \in Requests |-> [i \in DOMAIN log[id] |-> log[id][i].type]]

-----------------------------------------------------------------------------
\* The types of a log to which events were appended.
LEMMA TypesOfAppend ==
    ASSUME NEW events \in Seq(LogRows), Contiguous(events), NEW types \in Seq(EventTypes)
    PROVE  /\ Types(AppendEvents(events, types)) = Types(events) \o types
           /\ Types(events) \in Seq(EventTypes)
<1> DEFINE new == AppendEvents(events, types)
           n == Len(events)
           m == Len(types)
<1>1. /\ new \in Seq(LogRows) /\ Len(new) = n + m
      /\ \A i \in 1..n : new[i] = events[i]
      /\ \A i \in 1..m : new[n + i].type = types[i]
  BY AppendEventsExtends
<1>2. n \in Nat /\ m \in Nat /\ DOMAIN events = 1..n
  OBVIOUS
<1>3. /\ Types(events) \in Seq(EventTypes)
      /\ Len(Types(events)) = n
      /\ \A i \in 1..n : Types(events)[i] = events[i].type
  <2>1. \A i \in 1..n : events[i] \in LogRows
    OBVIOUS
  <2>2. QED
    BY <1>2, <2>1 DEF Types, LogRows
<1>4. DOMAIN new = 1..(n + m)
  BY <1>1
<1> HIDE DEF new, n, m
<1>5. /\ DOMAIN (Types(events) \o types) = 1..(n + m)
      /\ \A i \in 1..n : (Types(events) \o types)[i] = events[i].type
      /\ \A i \in 1..m : (Types(events) \o types)[n + i] = types[i]
  BY <1>2, <1>3 DEF m
<1>6. ASSUME NEW i \in 1..(n + m) PROVE new[i].type = (Types(events) \o types)[i]
  <2>1. CASE i \in 1..n
    BY <2>1, <1>1, <1>5
  <2>2. CASE i \notin 1..n
    <3> DEFINE k == i - n
    <3>1. k \in 1..m /\ i = n + k
      BY <2>2, <1>2
    <3>2. QED
      BY <3>1, <1>1, <1>5
  <2>3. QED
    BY <2>1, <2>2
<1>7. Types(new) = [i \in 1..(n + m) |-> new[i].type]
  BY <1>4 DEF Types
<1>8. Types(events) \o types = [i \in 1..(n + m) |-> (Types(events) \o types)[i]]
  <2> DEFINE both == Types(events) \o types
  <2>1. both \in Seq(EventTypes) /\ DOMAIN both = 1..(n + m)
    BY <1>3, <1>5
  <2> HIDE DEF both
  <2>2. both = [i \in 1..(n + m) |-> both[i]]
    BY <2>1
  <2>3. QED
    BY <2>2 DEF both
<1>9. QED
  BY <1>3, <1>6, <1>7, <1>8 DEF new

\* The record of one response after a step that touches no other record.
LEMMA MapsTo ==
    ASSUME TypeOK, TypeOK', NEW id \in Requests,
           \A q \in Requests : q # id =>
              row'[q] = row[q] /\ log'[q] = log[q] /\ (q \in deleted' <=> q \in deleted)
    PROVE  /\ StateOf' = [StateOf EXCEPT ![id] = StateOf'[id]]
           /\ HistoryOf' = [HistoryOf EXCEPT ![id] = Types(log'[id])]
           /\ HistoryOf[id] = Types(log[id])
           /\ log'[id] = log[id] => HistoryOf' = HistoryOf
  BY DEF StateOf, HistoryOf, Types, TypeOK, StoreTypeOK

\* A step that leaves the tables alone is a stutter of the record.
LEMMA TablesStay ==
    ASSUME UNCHANGED <<row, log, deleted>>
    PROVE  StateOf' = StateOf /\ HistoryOf' = HistoryOf
  BY DEF StateOf, HistoryOf

\* Append on the three lists of events that may come before a terminal one.
LEMMA AppendToTuple ==
    ASSUME NEW x \in EventTypes
    PROVE  /\ Append(<<>>, x) = <<x>>
           /\ Append(<<"created", "in_progress">>, x) = <<"created", "in_progress", x>>
           /\ Append(<<"created", "in_progress", "item">>, x)
                 = <<"created", "in_progress", "item", x>>
<1>1. \A s, t \in Seq(EventTypes) :
         Len(s) = Len(t) /\ (\A i \in 1..Len(s) : s[i] = t[i]) => s = t
  OBVIOUS
<1>2. {"created", "in_progress", "item"} \subseteq EventTypes
  BY DEF EventTypes
<1>3. Append(<<"created", "in_progress">>, x) = <<"created", "in_progress", x>>
  <2> DEFINE s == <<"created", "in_progress">>
             t == <<"created", "in_progress", x>>
  <2>1. s \in Seq(EventTypes) /\ Len(s) = 2 /\ t \in Seq(EventTypes) /\ Len(t) = 3
    BY <1>2
  <2>2. Append(s, x) \in Seq(EventTypes) /\ Len(Append(s, x)) = 3
    BY <2>1
  <2>3. \A i \in 1..3 : Append(s, x)[i] = t[i]
    <3>1. Append(s, x)[1] = "created" /\ Append(s, x)[2] = "in_progress" /\ Append(s, x)[3] = x
      BY <2>1
    <3>2. QED
      BY <3>1
  <2>4. QED
    BY <1>1, <2>1, <2>2, <2>3
<1>4. Append(<<"created", "in_progress", "item">>, x) = <<"created", "in_progress", "item", x>>
  <2> DEFINE s == <<"created", "in_progress", "item">>
             t == <<"created", "in_progress", "item", x>>
  <2>1. s \in Seq(EventTypes) /\ Len(s) = 3 /\ t \in Seq(EventTypes) /\ Len(t) = 4
    BY <1>2
  <2>2. Append(s, x) \in Seq(EventTypes) /\ Len(Append(s, x)) = 4
    BY <2>1
  <2>3. \A i \in 1..4 : Append(s, x)[i] = t[i]
    <3>1. /\ Append(s, x)[1] = "created" /\ Append(s, x)[2] = "in_progress"
          /\ Append(s, x)[3] = "item" /\ Append(s, x)[4] = x
      BY <2>1
    <3>2. QED
      BY <3>1
  <2>4. QED
    BY <1>1, <2>1, <2>2, <2>3
<1>5. Append(<<>>, x) = <<x>>
  OBVIOUS
<1>6. QED
  BY <1>3, <1>4, <1>5

\* A committed transition closes the record, with the events before the last
\* one that Close allows.
LEMMA CommitCloses ==
    ASSUME IInv, TypeOK', NEW c \in Commands, CommandShape(c),
           c.op \in {"Transition", "TransitionIfInProgress"},
           row[c.id].status = "in_progress",
           row' = [row EXCEPT ![c.id] = c.set], deleted' = deleted,
           log' = [log EXCEPT ![c.id] = AppendEvents(log[c.id], c.events)]
    PROVE  Record!Close(c.id)
<1>1. c.id \in Requests /\ TypeOK /\ RecordSound(c.id)
  BY InvariantGives DEF Commands, RequestSound
<1>2. c.id \notin deleted
  BY <1>1 DEF RecordSound, NoRow
<1>3. PICK final \in Final, before \in {<<>>, <<"created", "in_progress">>,
                                       <<"created", "in_progress", "item">>} :
         c.set = Row(final) /\ c.events = Append(before, final)
  <2>1. \A x \in Final : x \in EventTypes
    BY DEF EventTypes
  <2>2. PICK final \in Final :
           /\ c.set = Row(final)
           /\ \/ c.events = <<final>>
              \/ c.events = <<"created", "in_progress", final>>
              \/ c.events = <<"created", "in_progress", "item", final>>
    BY DEF CommandShape, Final
  <2>3. QED
    BY <2>1, <2>2, AppendToTuple
<1>4. \A q \in Requests : q # c.id =>
         row'[q] = row[q] /\ log'[q] = log[q] /\ (q \in deleted' <=> q \in deleted)
  BY <1>1 DEF TypeOK, StoreTypeOK
<1>5. Types(log'[c.id]) = Types(log[c.id]) \o c.events
  <2>1. log[c.id] \in Seq(LogRows) /\ c.events \in Seq(EventTypes)
    BY <1>1 DEF TypeOK, StoreTypeOK, LogRows, Commands
  <2>2. Contiguous(log[c.id])
    BY <1>1 DEF RecordSound, Contiguous
  <2>3. log'[c.id] = AppendEvents(log[c.id], c.events)
    BY <1>1 DEF TypeOK, StoreTypeOK
  <2>4. QED
    BY <2>1, <2>2, <2>3, TypesOfAppend
<1>6. StateOf[c.id] = "in_progress" /\ StateOf'[c.id] = final
  BY <1>1, <1>2, <1>3 DEF StateOf, Row, TypeOK, StoreTypeOK
<1>7. /\ StateOf' = [StateOf EXCEPT ![c.id] = final]
      /\ HistoryOf' = [HistoryOf EXCEPT ![c.id] = HistoryOf[c.id] \o Append(before, final)]
  BY <1>1, <1>3, <1>4, <1>5, <1>6, MapsTo
<1>8. QED
  BY <1>3, <1>6, <1>7 DEF Record!Close, Record!Final, Final, StateOf, HistoryOf

\* Each command of the actor is a step of its record, or changes no table.
LEMMA StoreStepImplements ==
    ASSUME IInv, StoreStep
    PROVE  [Record!RecordNext]_(Record!recordVars)
<1> USE InvariantGives
<1>1. PICK fault \in Faults \cup {"none"} :
         \/ ServeCreate(fault) \/ ServeTransition(fault) \/ ServeTransitionIfInProgress(fault)
         \/ ServeGet(fault) \/ ServeDelete(fault) \/ ServeAppendEvent(fault)
  BY DEF StoreStep, Serve
<1>2. PICK c : c = Head(mailbox)
  OBVIOUS
<1>3. /\ mailbox # <<>>
      /\ \A q \in Requests : q # c.id =>
            /\ row'[q] = row[q] /\ log'[q] = log[q] /\ (q \in deleted' <=> q \in deleted)
  BY <1>2, ServeChanges
<1>4. /\ c \in Commands /\ CommandShape(c) /\ WriteFinds(c) /\ c.id \in Requests
      /\ RecordSound(c.id)
  BY <1>2, <1>3, NextCommand DEF RequestSound
<1>5. /\ row \in [Requests -> Rows] /\ log \in [Requests -> Seq(LogRows)] /\ TypeOK'
      /\ deleted \subseteq Requests
  BY StoreTypes DEF TypeOK, StoreTypeOK, LogRows
<1>6. CASE UNCHANGED <<row, log, deleted>>
  BY <1>6, TablesStay DEF Record!recordVars, StateOf, HistoryOf
<1>7. /\ StateOf' = [StateOf EXCEPT ![c.id] = StateOf'[c.id]]
      /\ HistoryOf' = [HistoryOf EXCEPT ![c.id] = Types(log'[c.id])]
      /\ HistoryOf[c.id] = Types(log[c.id])
      /\ log'[c.id] = log[c.id] => HistoryOf' = HistoryOf
  BY <1>3, <1>4, <1>5, MapsTo
<1> SUFFICES ASSUME ~UNCHANGED <<row, log, deleted>> PROVE \E id \in Requests :
        Record!Open(id) \/ Record!Extend(id) \/ Record!Close(id) \/ Record!Remove(id)
  BY <1>6 DEF Record!RecordNext
<1> USE DEF Take
<1>8. CASE ServeCreate(fault)
  <2>1. /\ row' = [row EXCEPT ![c.id] = c.set] /\ UNCHANGED <<log, deleted>> /\ c.op = "Create"
    BY <1>2, <1>8 DEF ServeCreate
  <2>2. row[c.id] = NoRow /\ c.id \notin deleted /\ c.set = Row("in_progress")
    BY <1>4, <2>1 DEF WriteFinds, CommandShape
  <2>3. StateOf[c.id] = "absent" /\ StateOf'[c.id] = "in_progress"
    BY <1>4, <1>5, <2>1, <2>2 DEF StateOf, NoRow, Row
  <2>4. Record!Open(c.id)
    BY <1>7, <2>1, <2>3 DEF Record!Open, StateOf, HistoryOf
  <2>5. QED
    BY <1>4, <2>4
<1>9. CASE ServeTransition(fault)
  <2>1. /\ row' = [row EXCEPT ![c.id] = c.set] /\ UNCHANGED deleted /\ c.op = "Transition"
        /\ log' = [log EXCEPT ![c.id] = AppendEvents(log[c.id], c.events)] /\ Exists(c.id)
    BY <1>2, <1>9 DEF ServeTransition, Updates
  <2>2. row[c.id].status = "in_progress"
    BY <1>4, <2>1 DEF WriteFinds, Writers, OpenOrDeleted, RecordSound, Exists, NoRow
  <2>3. QED
    BY <1>4, <1>5, <2>1, <2>2, CommitCloses
<1>10. CASE ServeTransitionIfInProgress(fault)
  <2>1. /\ row' = [row EXCEPT ![c.id] = c.set] /\ UNCHANGED deleted
        /\ log' = [log EXCEPT ![c.id] = AppendEvents(log[c.id], c.events)]
        /\ c.op = "TransitionIfInProgress" /\ row[c.id].status = "in_progress"
    BY <1>2, <1>10 DEF ServeTransitionIfInProgress, MayClose
  <2>2. QED
    BY <1>4, <1>5, <2>1, CommitCloses
<1>11. CASE ServeGet(fault)
  BY <1>11 DEF ServeGet
<1>12. CASE ServeDelete(fault)
  <2>1. /\ log' = CascadeEvents(c.id) /\ deleted' = deleted \cup {c.id} /\ Exists(c.id)
    BY <1>2, <1>12 DEF ServeDelete
  <2>2. c.id \notin deleted
    BY <1>4, <2>1 DEF RecordSound, Exists, NoRow
  <2>3. StateOf[c.id] \notin {"absent", "deleted"} /\ StateOf'[c.id] = "deleted"
    BY <1>4, <1>5, <2>1, <2>2 DEF StateOf, Exists, Rows, Statuses, Final
  <2>4. log'[c.id] = <<>> /\ Types(log'[c.id]) = <<>>
    <3>1. log'[c.id] = <<>>
      BY <1>4, <1>5, <2>1 DEF CascadeEvents
    <3>2. QED
      BY <3>1 DEF Types
  <2>5. Record!Remove(c.id)
    BY <1>7, <2>3, <2>4 DEF Record!Remove, StateOf, HistoryOf
  <2>6. QED
    BY <1>4, <2>5
<1>13. CASE ServeAppendEvent(fault)
  <2>1. /\ log' = [log EXCEPT ![c.id] = AppendEvents(log[c.id], c.events)]
        /\ UNCHANGED <<row, deleted>> /\ c.op = "AppendEvent" /\ Exists(c.id)
    BY <1>2, <1>13 DEF ServeAppendEvent, ForeignKeyHolds
  <2>2. row[c.id].status = "in_progress" /\ c.id \notin deleted
    BY <1>4, <2>1 DEF WriteFinds, Writers, OpenOrDeleted, RecordSound, Exists, NoRow
  <2>3. StateOf[c.id] = "in_progress" /\ StateOf' = StateOf
    BY <1>4, <2>1, <2>2 DEF StateOf
  <2>4. PICK type \in ProgressTypes : c.events = <<type>>
    BY <1>4, <2>1 DEF CommandShape
  <2>5. type \in EventTypes /\ type \in Record!Progress
    BY <2>4 DEF ProgressTypes, EventTypes, Record!Progress
  <2>6. Types(log'[c.id]) = Append(HistoryOf[c.id], type)
    <3>1. log[c.id] \in Seq(LogRows) /\ Contiguous(log[c.id]) /\ c.events \in Seq(EventTypes)
      BY <1>4, <1>5 DEF RecordSound, Contiguous, Commands
    <3>2. Types(log'[c.id]) = Types(log[c.id]) \o <<type>>
      BY <1>4, <1>5, <2>1, <2>4, <3>1, TypesOfAppend
    <3>3. Types(log[c.id]) \in Seq(EventTypes)
      BY <3>1, TypesOfAppend
    <3>4. QED
      BY <1>7, <2>5, <3>2, <3>3, AppendIsConcat
  <2>7. Record!Extend(c.id)
    BY <1>7, <2>3, <2>5, <2>6 DEF Record!Extend, StateOf, HistoryOf
  <2>8. QED
    BY <1>4, <2>7
<1>14. QED
  BY <1>1, <1>8, <1>9, <1>10, <1>11, <1>12, <1>13

\* Every step of the system is a step of one record or a stutter.
LEMMA NextImplements ==
    IInv /\ [Next]_vars => [Record!RecordNext]_(Record!recordVars)
<1> SUFFICES ASSUME IInv, [Next]_vars PROVE [Record!RecordNext]_(Record!recordVars)
  OBVIOUS
<1>1. CASE StoreStep
  BY <1>1, StoreStepImplements
<1>2. CASE ~StoreStep
  <2>1. UNCHANGED <<row, log, deleted>>
    BY <1>2 DEF Next, TaskStep, Receive, PreviousRead, ModelResolved, ModelRefused, Created,
       UpstreamFailed, FailureStored, GenerationDone, AnswerStored, UpstreamOpened, Emit,
       EventStored, UpstreamEventHandled, StoreFailed, CloseStream, StreamClosed, Disconnect,
       RequestDelete, ActorEnds, StopActor, Crash, vars, storeVars
  <2>2. QED
    BY <2>1, TablesStay DEF Record!recordVars, StateOf, HistoryOf
<1>3. QED
  BY <1>1, <1>2

\* Initially there is no record.
LEMMA InitImplements == Init => Record!RecordInit
<1> SUFFICES ASSUME Init PROVE Record!RecordInit
  OBVIOUS
<1>1. \A id \in Requests : row[id] = NoRow /\ log[id] = <<>> /\ id \notin deleted
  BY DEF Init, StoreInit
<1>2. StateOf = [id \in Requests |-> "absent"]
  BY <1>1 DEF StateOf, NoRow
<1>3. HistoryOf = [id \in Requests |-> <<>>]
  BY <1>1 DEF HistoryOf
<1>4. QED
  BY <1>2, <1>3 DEF Record!RecordInit, StateOf, HistoryOf

\* The store with all its clients implements the lifecycle of ResponseRecord:
\* each response is created once, closed once and never changed after that.
THEOREM Implements == Spec => ImplementsRecord
  BY InitImplements, NextImplements, InvariantHolds, PTL DEF Spec, ImplementsRecord, Record!RecordSpec

-----------------------------------------------------------------------------
(* A shutdown is a behaviour of Responses, so that all that was proved of   *)
(* Responses holds through it; and an orderly one leaves no record open.    *)

\* The steps of main are steps of Responses or leave its variables alone.
LEMMA StepImplements == [ShutdownNext]_shutdownVars => [Next]_vars
<1> SUFFICES ASSUME [ShutdownNext]_shutdownVars PROVE [Next]_vars
  OBVIOUS
<1>1. CASE Work
  BY <1>1 DEF Work, Next
<1>2. CASE Signal \/ Drained \/ TimeOut
  BY <1>2 DEF Signal, Drained, TimeOut
<1>3. ASSUME NEW r \in Requests, Cut(r) PROVE Next
  BY <1>3 DEF Cut, DropTask, Next
<1>4. CASE Exit
  BY <1>4 DEF Exit, Next
<1>5. CASE UNCHANGED shutdownVars
  BY <1>5 DEF shutdownVars
<1>6. QED
  BY <1>1, <1>2, <1>3, <1>4, <1>5 DEF ShutdownNext

\* Main's end is nothing that the requests, the store and the crashes of Responses do not allow.
THEOREM ShutdownImplements == ShutdownSpec => ImplementsResponses
<1>1. ShutdownInit => Init
  BY DEF ShutdownInit
<1>2. QED
  BY <1>1, StepImplements, PTL DEF ShutdownSpec, ImplementsResponses, Spec

\* What a client of a stored stream was sent can be replayed, however the process ended.
THEOREM ShutdownKeepsReplay == ShutdownSpec => []ReplayFaithful
  BY ShutdownImplements, ReplayFaithfulHolds, PTL DEF ImplementsResponses

\* Status and events of every record agree, however the process ended.
THEOREM ShutdownKeepsLogs == ShutdownSpec => []LogMatchesStatus
  BY ShutdownImplements, LogMatchesStatusHolds, PTL DEF ImplementsResponses

-----------------------------------------------------------------------------
\* Only a request with store has a record, or will have one.
StoreWanted ==
    /\ \A r \in Requests : Exists(r) => mode[r].store
    /\ \A i \in 1..Len(mailbox) : mailbox[i].op = "Create" => mode[mailbox[i].id].store

\* A task that ended by itself has answered, or has told its client how the stream ended.
EndSaid(r) ==
    pc[r] = "returned" =>
        answer[r] # "none" \/ \E k \in DOMAIN client[r] : client[r][k].type \in Final

\* When the server has ended in time nothing is left to cut, and nothing is cut before main returns.
MainSound ==
    /\ gateway \in {"serving", "draining", "stopping", "exited"}
    /\ drained => Idle /\ cut = {} /\ gateway \in {"stopping", "exited"}
    /\ gateway \in {"serving", "draining"} => cut = {}
    /\ gateway = "exited" => Idle

EndSound == StoreWanted /\ \A r \in Requests : EndSaid(r)

\* Nothing is queued, stored or over at first.
LEMMA EndInit == Init => EndSound
  BY DEF Init, StoreInit, EndSound, StoreWanted, EndSaid, Exists, NoRow

\* A command that joins the queue keeps StoreWanted if it creates nothing unwanted.
LEMMA QueueKeepsWanted ==
    ASSUME TypeOK, StoreWanted, NEW c, c.op = "Create" => mode[c.id].store,
           mailbox' = Append(mailbox, c) \/ mailbox' = mailbox, UNCHANGED <<row, mode>>
    PROVE  StoreWanted'
<1>1. mailbox \in Seq(Commands)
  BY DEF TypeOK, StoreTypeOK
<1>2. CASE mailbox' = Append(mailbox, c)
  <2>1. /\ Len(mailbox') = Len(mailbox) + 1
        /\ \A i \in 1..Len(mailbox) : mailbox'[i] = mailbox[i]
        /\ mailbox'[Len(mailbox) + 1] = c
    BY <1>1, <1>2
  <2>2. \A i \in 1..Len(mailbox') : i \in 1..Len(mailbox) \/ i = Len(mailbox) + 1
    BY <1>1, <2>1
  <2>3. QED
    BY <2>1, <2>2 DEF StoreWanted, Exists
<1>3. CASE mailbox' = mailbox
  BY <1>3 DEF StoreWanted, Exists
<1>4. QED
  BY <1>2, <1>3

\* Commands that create nothing keep StoreWanted.
LEMMA OtherCommandsWanted ==
    ASSUME TypeOK, StoreWanted, UNCHANGED <<row, mode>>,
           UNCHANGED mailbox \/ \E c : c.op # "Create" /\ mailbox' = Append(mailbox, c)
    PROVE  StoreWanted'
<1>1. CASE UNCHANGED mailbox
  BY <1>1 DEF StoreWanted, Exists
<1>2. CASE \E c : c.op # "Create" /\ mailbox' = Append(mailbox, c)
  <2>1. PICK c : c.op # "Create" /\ mailbox' = Append(mailbox, c)
    BY <1>2
  <2>2. QED
    BY <2>1, QueueKeepsWanted
<1>3. QED
  BY <1>1, <1>2

\* A terminal event that is yielded is an end that was said.
LEMMA YieldSays ==
    ASSUME TypeOK, NEW r \in Requests, NEW event, event.type \in Final,
           client' = [client EXCEPT ![r] = Append(@, event)]
    PROVE  EndSaid(r)'
<1>1. client \in [Requests -> Seq(ClientEvents)]
  BY DEF TypeOK
<1>2. client'[r] = Append(client[r], event) /\ client[r] \in Seq(ClientEvents)
  BY <1>1
<1>3. Len(client[r]) + 1 \in DOMAIN client'[r] /\ client'[r][Len(client[r]) + 1] = event
  BY <1>2
<1>4. QED
  BY <1>3 DEF EndSaid

\* What the actor does keeps EndSound: it creates rows for queued commands only.
LEMMA StoreStepEnds ==
    ASSUME IInv, EndSound, StoreStep
    PROVE  EndSound'
<1> DEFINE c == Head(mailbox)
<1> USE InvariantGives
<1>1. UNCHANGED taskVars
  BY DEF StoreStep
<1>2. PICK fault \in Faults \cup {"none"} :
         \/ ServeCreate(fault) \/ ServeTransition(fault) \/ ServeTransitionIfInProgress(fault)
         \/ ServeGet(fault) \/ ServeDelete(fault) \/ ServeAppendEvent(fault)
  BY DEF StoreStep, Serve
<1>3. mailbox # <<>> /\ mailbox' = Tail(mailbox)
  BY <1>2 DEF ServeCreate, ServeTransition, ServeTransitionIfInProgress, ServeGet, ServeDelete,
              ServeAppendEvent, Take
<1>4. c = mailbox[1] /\ c \in Commands /\ Len(mailbox) \in Nat \ {0}
  BY <1>3, TailFacts
<1>5. \A r \in Requests : EndSaid(r)'
  BY <1>1 DEF EndSound, EndSaid, taskVars
<1>6. \A i \in 1..Len(mailbox') : mailbox'[i].op = "Create" => mode'[mailbox'[i].id].store
  <2>1. Len(mailbox') = Len(mailbox) - 1 /\ \A i \in 1..Len(mailbox') : mailbox'[i] = mailbox[i + 1]
    BY <1>3, TailFacts
  <2>2. \A i \in 1..Len(mailbox') : i + 1 \in 1..Len(mailbox)
    BY <1>4, <2>1
  <2>3. QED
    BY <1>1, <2>1, <2>2 DEF EndSound, StoreWanted, taskVars
<1>7. \A r \in Requests : Exists(r)' => Exists(r) \/ (r = c.id /\ c.op = "Create")
  <2>1. row \in [Requests -> Rows] /\ c.id \in Requests
    BY <1>4 DEF TypeOK, StoreTypeOK, Commands
  <2>2. CASE ServeCreate(fault)
    BY <2>1, <2>2 DEF ServeCreate, Take, Exists
  <2>3. CASE ServeTransition(fault)
    BY <2>1, <2>3 DEF ServeTransition, Updates, Exists
  <2>4. CASE ServeTransitionIfInProgress(fault)
    BY <2>1, <2>4 DEF ServeTransitionIfInProgress, MayClose, Exists
  <2>5. CASE ServeGet(fault) \/ ServeAppendEvent(fault)
    BY <2>1, <2>5 DEF ServeGet, ServeAppendEvent, Exists
  <2>6. CASE ServeDelete(fault)
    BY <2>1, <2>6 DEF ServeDelete, Exists, NoRow
  <2>7. QED
    BY <1>2, <2>2, <2>3, <2>4, <2>5, <2>6
<1>8. \A r \in Requests : Exists(r)' => mode'[r].store
  <2>1. c.op = "Create" => mode[c.id].store
    BY <1>4 DEF EndSound, StoreWanted
  <2>2. QED
    BY <1>1, <1>7, <2>1 DEF EndSound, StoreWanted, taskVars
<1>9. QED
  BY <1>5, <1>6, <1>8 DEF EndSound, StoreWanted

\* A step of the task of one request leaves what the others said.
LEMMA OthersSaid ==
    ASSUME EndSound, NEW r \in Requests, EndSaid(r)',
           \A q \in Requests \ {r} : pc'[q] = pc[q] /\ answer'[q] = answer[q] /\ client'[q] = client[q]
    PROVE  \A q \in Requests : EndSaid(q)'
  BY DEF EndSound, EndSaid

\* The handler's steps keep EndSound: they create records of requests with store only, and return
\* with an answer.
LEMMA HandlerEnds ==
    ASSUME IInv, EndSound, NEW r \in Requests,
           \/ Receive(r) \/ PreviousRead(r) \/ ModelResolved(r) \/ ModelRefused(r)
           \/ Created(r) \/ UpstreamFailed(r) \/ FailureStored(r) \/ GenerationDone(r)
           \/ AnswerStored(r) \/ UpstreamOpened(r)
    PROVE  EndSound'
<1> USE InvariantGives
<1>1. pc \in [Requests -> {"new"} \cup InHandler \cup InStream \cup Over] /\ answer \in [Requests -> {"none", "ok", "error"}]
      /\ mode \in [Requests -> Modes]
  BY DEF TypeOK
<1>2. UNCHANGED <<row, client>>
  BY DEF Receive, PreviousRead, ModelResolved, ModelRefused, Created, UpstreamFailed,
         FailureStored, GenerationDone, AnswerStored, UpstreamOpened, storeVars
<1>3. \A q \in Requests \ {r} : pc'[q] = pc[q] /\ answer'[q] = answer[q] /\ mode'[q] = mode[q]
  BY <1>1 DEF Receive, PreviousRead, ModelResolved, ModelRefused, Created, UpstreamFailed,
         FailureStored, GenerationDone, AnswerStored, UpstreamOpened, Goto, Return
<1>4. pc'[r] = "returned" => answer'[r] # "none"
  <2>1. CASE Receive(r) \/ ModelResolved(r) \/ UpstreamOpened(r)
    BY <1>1, <2>1 DEF Receive, ModelResolved, UpstreamOpened, Goto
  <2>2. CASE PreviousRead(r) \/ ModelRefused(r) \/ Created(r) \/ FailureStored(r)
    BY <1>1, <2>2 DEF PreviousRead, ModelRefused, Created, FailureStored, Goto, Return
  <2>3. CASE UpstreamFailed(r) \/ GenerationDone(r)
    BY <1>1, <2>3 DEF UpstreamFailed, GenerationDone, Goto, Return
  <2>4. CASE AnswerStored(r)
    BY <1>1, <2>4 DEF AnswerStored, AnswerAfter, Goto, Return
  <2>5. QED
    BY <2>1, <2>2, <2>3, <2>4
<1>5. \A q \in Requests : EndSaid(q)'
  BY <1>2, <1>3, <1>4, OthersSaid DEF EndSaid
<1>6. CASE Receive(r)
  <2>1. row[r] = NoRow
    BY <1>6 DEF IInv, TaskKnows, Receive
  <2>2. \A i \in 1..Len(mailbox) : mailbox[i].op = "Create" => mailbox[i].id # r
    <3>1. ASSUME NEW i \in 1..Len(mailbox), mailbox[i].op = "Create", mailbox[i].id = r PROVE FALSE
      <4>1. CommandShape(mailbox[i]) /\ CallerWaits(mailbox[i])
        BY DEF QueueSound
      <4>2. mailbox[i].caller = r
        BY <3>1, <4>1 DEF CommandShape
      <4>3. QED
        BY <1>6, <3>1, <4>1, <4>2 DEF CallerWaits, Receive, Over
    <3>2. QED
      BY <3>1
  <2>3. \A q \in Requests : Exists(q)' => mode'[q].store
    <3>1. \A q \in Requests : Exists(q)' => Exists(q)
      BY <1>2 DEF Exists
    <3>2. ~Exists(r)
      BY <2>1 DEF Exists, NoRow
    <3>3. \A q \in Requests : Exists(q) => mode[q].store
      BY DEF EndSound, StoreWanted
    <3>4. QED
      BY <1>3, <3>1, <3>2, <3>3
  <2>4. \A i \in 1..Len(mailbox) : mailbox[i] \in Commands /\ mailbox[i].id \in Requests
    <3>1. mailbox \in Seq(Commands)
      BY DEF TypeOK, StoreTypeOK
    <3>2. \A c \in Commands : c.id \in Requests
      BY DEF Commands
    <3>3. \A i \in 1..Len(mailbox) : mailbox[i] \in Commands
      BY <3>1
    <3>4. QED
      BY <3>2, <3>3
  <2>5. \A i \in 1..Len(mailbox) : mailbox[i].op = "Create" => mode'[mailbox[i].id].store
    BY <1>3, <2>2, <2>4 DEF EndSound, StoreWanted
  <2>6. CASE UNCHANGED mailbox
    BY <2>3, <2>5, <2>6, <1>5 DEF EndSound, StoreWanted
  <2>7. CASE ~UNCHANGED mailbox
    <3>1. PICK previous \in Requests : mailbox' = Append(mailbox, Command("Get", previous, r, NoRow, <<>>))
      BY <1>6, <2>7 DEF Receive, Send, storeVars
    <3>2. mailbox \in Seq(Commands) /\ Command("Get", previous, r, NoRow, <<>>).op # "Create"
      BY DEF TypeOK, StoreTypeOK, Command
    <3>3. /\ Len(mailbox') = Len(mailbox) + 1
          /\ \A i \in 1..Len(mailbox) : mailbox'[i] = mailbox[i]
          /\ mailbox'[Len(mailbox) + 1].op # "Create"
      BY <3>1, <3>2
    <3>4. \A i \in 1..Len(mailbox') : i \in 1..Len(mailbox) \/ i = Len(mailbox) + 1
      BY <3>2, <3>3
    <3>5. QED
      BY <2>3, <2>5, <3>3, <3>4, <1>5 DEF EndSound, StoreWanted
  <2>8. QED
    BY <2>6, <2>7
<1>7. CASE ~Receive(r)
  <2>1. UNCHANGED mode
    BY <1>7 DEF PreviousRead, ModelResolved, ModelRefused, Created, UpstreamFailed,
         FailureStored, GenerationDone, AnswerStored, UpstreamOpened
  <2>2. CASE UNCHANGED mailbox
    BY <1>2, <1>5, <2>1, <2>2 DEF EndSound, StoreWanted, Exists
  <2>3. CASE ~UNCHANGED mailbox
    <3>1. \/ ModelResolved(r) /\ mode[r].store /\ Send(Command("Create", r, r, Row("in_progress"), <<>>))
          \/ UpstreamFailed(r) /\ Send(Command("Transition", r, r, Row("failed"), SetupFailureEvents))
          \/ /\ GenerationDone(r)
             /\ \E final \in {"completed", "incomplete"} :
                   Send(Command("Transition", r, r, Row(final), StoredEvents(final)))
      BY <1>7, <2>3 DEF PreviousRead, ModelResolved, ModelRefused, Created, UpstreamFailed,
         FailureStored, GenerationDone, AnswerStored, UpstreamOpened, storeVars
    <3>2. /\ \A status \in Final \cup {"in_progress"} : Row(status) \in Rows
          /\ {"completed", "incomplete", "failed"} = Final
      BY RowType DEF Statuses, Final
    <3>3. PICK c \in Commands : Send(c) /\ (c.op = "Create" => mode[c.id].store)
      <4>1. CASE ModelResolved(r) /\ mode[r].store /\ Send(Command("Create", r, r, Row("in_progress"), <<>>))
        <5>1. Command("Create", r, r, Row("in_progress"), <<>>) \in Commands
          BY <3>2, CommandType, EventListType
        <5>2. Command("Create", r, r, Row("in_progress"), <<>>).id = r
          BY DEF Command
        <5>3. QED
          BY <4>1, <5>1, <5>2
      <4>2. CASE UpstreamFailed(r) /\ Send(Command("Transition", r, r, Row("failed"), SetupFailureEvents))
        <5>1. Command("Transition", r, r, Row("failed"), SetupFailureEvents) \in Commands
          BY <3>2, CommandType, EventListType
        <5>2. Command("Transition", r, r, Row("failed"), SetupFailureEvents).op # "Create"
          BY DEF Command
        <5>3. QED
          BY <4>2, <5>1, <5>2
      <4>3. ASSUME NEW final \in {"completed", "incomplete"},
                   Send(Command("Transition", r, r, Row(final), StoredEvents(final)))
            PROVE  \E c \in Commands : Send(c) /\ (c.op = "Create" => mode[c.id].store)
        <5>1. Command("Transition", r, r, Row(final), StoredEvents(final)) \in Commands
          BY <3>2, CommandType, EventListType
        <5>2. Command("Transition", r, r, Row(final), StoredEvents(final)).op # "Create"
          BY DEF Command
        <5>3. QED
          BY <4>3, <5>1, <5>2
      <4>4. QED
        BY <3>1, <4>1, <4>2, <4>3
    <3>4. mailbox' = Append(mailbox, c) \/ mailbox' = mailbox
      BY <3>3 DEF Send
    <3>5. StoreWanted'
      BY <1>2, <2>1, <3>3, <3>4, QueueKeepsWanted DEF EndSound
    <3>6. QED
      BY <1>5, <3>5 DEF EndSound
  <2>4. QED
    BY <2>2, <2>3
<1>8. QED
  BY <1>6, <1>7

\* The live stream's steps keep EndSound: what ends the stream is told to its client.
LEMMA StreamEnds ==
    ASSUME IInv, EndSound, NEW r \in Requests,
           \/ Emit(r) \/ EventStored(r) \/ UpstreamEventHandled(r) \/ StoreFailed(r)
           \/ CloseStream(r) \/ StreamClosed(r)
    PROVE  EndSound'
<1> USE InvariantGives
<1>1. pc \in [Requests -> {"new"} \cup InHandler \cup InStream \cup Over]
      /\ client \in [Requests -> Seq(ClientEvents)] /\ mailbox \in Seq(Commands)
  BY DEF TypeOK, StoreTypeOK
<1>2. UNCHANGED <<row, mode, answer>>
  BY DEF Emit, EventStored, UpstreamEventHandled, StoreFailed, CloseStream, StreamClosed, storeVars
<1>3. \A q \in Requests \ {r} : pc'[q] = pc[q] /\ client'[q] = client[q]
  BY <1>1 DEF Emit, EventStored, UpstreamEventHandled, StoreFailed, CloseStream, StreamClosed,
              Goto, YieldAssigned, Yield
<1>4. EndSaid(r)'
  <2>1. CASE Emit(r) \/ UpstreamEventHandled(r)
    BY <1>1, <2>1 DEF Emit, UpstreamEventHandled, Goto, EndSaid
  <2>2. CASE EventStored(r)
    BY <1>1, <2>2 DEF EventStored, Goto, EndSaid
  <2>3. CASE StoreFailed(r)
    <3> DEFINE event == [type |-> "incomplete", seq |-> sequence[r], lost |-> TRUE]
    <3>1. client' = [client EXCEPT ![r] = Append(@, event)]
      BY <2>3 DEF StoreFailed, Yield
    <3>2. event.type \in Final
      BY DEF Final
    <3> HIDE DEF event
    <3>3. QED
      BY <3>1, <3>2, YieldSays
  <2>4. CASE CloseStream(r)
    <3>1. PICK final \in Final :
             IF mode[r].store
             THEN Goto(r, "close")
             ELSE YieldAssigned(r, final, sequence[r])
      BY <2>4 DEF CloseStream
    <3>2. CASE mode[r].store
      BY <1>1, <3>1, <3>2 DEF Goto, EndSaid
    <3>3. CASE ~mode[r].store
      <4>1. client' = [client EXCEPT ![r] = Append(@, Event(final, sequence[r]))]
        BY <3>1, <3>3 DEF YieldAssigned, Yield
      <4>2. Event(final, sequence[r]).type \in Final
        BY DEF Event
      <4>3. QED
        BY <4>1, <4>2, YieldSays
    <3>4. QED
      BY <3>2, <3>3
  <2>5. CASE StreamClosed(r)
    <3>1. pending[r] \in Final
      BY <2>5 DEF StreamClosed, IInv, TaskKnows
    <3>2. client' = [client EXCEPT ![r] = Append(@, Event(pending[r], reply[r].seq))]
      BY <2>5 DEF StreamClosed, YieldAssigned, Yield
    <3>3. Event(pending[r], reply[r].seq).type \in Final
      BY <3>1 DEF Event
    <3>4. QED
      BY <3>2, <3>3, YieldSays
  <2>6. QED
    BY <2>1, <2>2, <2>3, <2>4, <2>5
<1>5. \A q \in Requests : EndSaid(q)'
  BY <1>2, <1>3, <1>4, OthersSaid
<1>6. \/ UNCHANGED mailbox
      \/ \E c : c.op # "Create" /\ mailbox' = Append(mailbox, c)
  <2>1. CASE EventStored(r) \/ UpstreamEventHandled(r) \/ StreamClosed(r)
    BY <2>1 DEF EventStored, UpstreamEventHandled, StreamClosed, storeVars
  <2>2. CASE Emit(r)
    <3>1. Command("AppendEvent", r, r, NoRow, <<NextEvent(r)>>).op # "Create"
      BY DEF Command
    <3>2. QED
      BY <2>2, <3>1 DEF Emit, Send
  <2>3. CASE StoreFailed(r)
    <3>1. MarkIncomplete(r, "incomplete").op # "Create"
      BY DEF MarkIncomplete, Command
    <3>2. QED
      BY <2>3, <3>1 DEF StoreFailed, Post
  <2>4. CASE CloseStream(r)
    <3>1. \A final \in Final : Command("Transition", r, r, Row(final), <<final>>).op # "Create"
      BY DEF Command
    <3>2. QED
      BY <2>4, <3>1 DEF CloseStream, Send
  <2>5. QED
    BY <2>1, <2>2, <2>3, <2>4
<1>7. StoreWanted'
  BY <1>2, <1>6, OtherCommandsWanted DEF EndSound
<1>8. QED
  BY <1>5, <1>7 DEF EndSound

\* Clients that leave or delete, an outage and a crash keep EndSound: nothing returns by them.
LEMMA EnvironmentEnds ==
    ASSUME IInv, EndSound,
           \/ \E r \in Requests : Disconnect(r) \/ RequestDelete(r)
           \/ ActorEnds \/ Crash
    PROVE  EndSound'
<1> USE InvariantGives
<1>1. pc \in [Requests -> {"new"} \cup InHandler \cup InStream \cup Over] /\ mailbox \in Seq(Commands)
  BY DEF TypeOK, StoreTypeOK
<1>2. UNCHANGED <<row, mode, answer, client>>
  BY DEF Disconnect, RequestDelete, ActorEnds, StopActor, Crash, taskVars
<1>3. \A q \in Requests : pc'[q] = "returned" => pc[q] = "returned"
  <2>1. CASE Crash
    BY <1>1, <2>1 DEF Crash
  <2>2. CASE ActorEnds \/ \E r \in Requests : RequestDelete(r)
    BY <2>2 DEF ActorEnds, RequestDelete, taskVars
  <2>3. CASE \E r \in Requests : Disconnect(r)
    BY <1>1, <2>3 DEF Disconnect, Goto
  <2>4. QED
    BY <2>1, <2>2, <2>3
<1>4. \A q \in Requests : EndSaid(q)'
  BY <1>2, <1>3 DEF EndSound, EndSaid
<1>5. CASE ActorEnds \/ Crash
  <2>1. mailbox' = <<>>
    BY <1>5 DEF ActorEnds, StopActor, Crash
  <2>2. QED
    BY <1>2, <1>4, <2>1 DEF EndSound, StoreWanted, Exists
<1>6. ASSUME NEW r \in Requests, Disconnect(r) \/ RequestDelete(r)
      PROVE  \/ UNCHANGED mailbox
             \/ \E c : c.op # "Create" /\ mailbox' = Append(mailbox, c)
  <2>1. CASE Disconnect(r)
    <3>1. MarkIncomplete(r, DisconnectDocument(r)).op # "Create"
      BY DEF MarkIncomplete, Command
    <3>2. QED
      BY <2>1, <3>1 DEF Disconnect, Post
  <2>2. CASE RequestDelete(r)
    <3>1. Command("Delete", r, r, NoRow, <<>>).op # "Create"
      BY DEF Command
    <3>2. QED
      BY <2>2, <3>1 DEF RequestDelete, Post
  <2>3. QED
    BY <1>6, <2>1, <2>2
<1>7. QED
  BY <1>2, <1>4, <1>5, <1>6, OtherCommandsWanted DEF EndSound

\* Every step of Responses keeps EndSound.
LEMMA NextEnds == IInv /\ EndSound /\ [Next]_vars => EndSound'
<1> SUFFICES ASSUME IInv, EndSound, [Next]_vars PROVE EndSound'
  OBVIOUS
<1>1. ASSUME NEW r \in Requests, Receive(r) \/ TaskStep(r) PROVE EndSound'
  BY <1>1, HandlerEnds, StreamEnds DEF TaskStep
<1>2. ASSUME NEW r \in Requests, Emit(r) \/ UpstreamEventHandled(r) \/ CloseStream(r) PROVE EndSound'
  BY <1>2, StreamEnds
<1>3. CASE (\E r \in Requests : Disconnect(r) \/ RequestDelete(r)) \/ ActorEnds \/ Crash
  BY <1>3, EnvironmentEnds
<1>4. CASE StoreStep
  BY <1>4, StoreStepEnds
<1>5. CASE UNCHANGED vars
  BY <1>5 DEF vars, storeVars, taskVars, EndSound, StoreWanted, EndSaid, Exists
<1>6. QED
  BY <1>1, <1>2, <1>3, <1>4, <1>5 DEF Next

-----------------------------------------------------------------------------
\* Once all tasks are over they stay so unless a request is received.
LEMMA IdleStays ==
    ASSUME IInv, Idle,
           \/ \E r \in Requests : \/ TaskStep(r) \/ Emit(r) \/ UpstreamEventHandled(r)
                                  \/ CloseStream(r) \/ Disconnect(r) \/ RequestDelete(r)
           \/ StoreStep \/ ActorEnds \/ Crash
    PROVE  Idle'
<1>1. pc \in [Requests -> {"new"} \cup InHandler \cup InStream \cup Over]
  BY DEF IInv, TypeOK
<1>2. ASSUME NEW r \in Requests PROVE ~TaskStep(r)
  BY DEF Idle, Active, InHandler, InStream, TaskStep, PreviousRead, ModelResolved, ModelRefused,
         Created, UpstreamFailed, FailureStored, GenerationDone, AnswerStored, UpstreamOpened,
         EventStored, StoreFailed, StreamClosed
<1>3. ASSUME NEW r \in Requests
      PROVE  ~Emit(r) /\ ~UpstreamEventHandled(r) /\ ~CloseStream(r) /\ ~Disconnect(r)
  BY DEF Idle, Active, InHandler, InStream, Emit, UpstreamEventHandled, CloseStream, Disconnect
<1>4. CASE Crash
  BY <1>1, <1>4 DEF Crash, Idle, Active, InHandler, InStream
<1>5. CASE StoreStep \/ ActorEnds \/ \E r \in Requests : RequestDelete(r)
  <2>1. UNCHANGED pc
    BY <1>5 DEF StoreStep, ActorEnds, RequestDelete, taskVars
  <2>2. QED
    BY <2>1 DEF Idle, Active
<1>6. QED
  BY <1>2, <1>3, <1>4, <1>5

\* Main's steps keep what main relies on.
LEMMA MainStays == IInv /\ MainSound /\ [ShutdownNext]_shutdownVars => MainSound'
<1> SUFFICES ASSUME IInv, MainSound, [ShutdownNext]_shutdownVars PROVE MainSound'
  OBVIOUS
<1>1. CASE Work
  <2>1. UNCHANGED mainVars /\ gateway # "exited"
    BY <1>1 DEF Work
  <2>2. ASSUME drained PROVE Idle'
    <3>1. Idle /\ ~Accepts
      BY <2>2 DEF MainSound, Accepts
    <3>2. QED
      BY <1>1, <3>1, IdleStays DEF Work
  <2>3. QED
    BY <2>1, <2>2 DEF MainSound, mainVars
<1>2. CASE Signal
  BY <1>2 DEF Signal, MainSound
<1>3. CASE Drained
  <2>1. Idle'
    BY <1>3 DEF Drained, Idle, Active, vars, taskVars
  <2>2. QED
    BY <1>3, <2>1 DEF Drained, MainSound
<1>4. CASE TimeOut
  BY <1>4 DEF TimeOut, MainSound
<1>5. ASSUME NEW r \in Requests, Cut(r) PROVE MainSound'
  <2>1. ~Idle
    BY <1>5 DEF Cut, DropTask, Disconnect, Idle, Active
  <2>2. QED
    BY <1>5, <2>1 DEF Cut, MainSound
<1>6. CASE Exit
  <2>1. Idle'
    BY <1>6, IdleStays DEF Exit
  <2>2. QED
    BY <1>6, <2>1 DEF Exit, MainSound
<1>7. CASE UNCHANGED shutdownVars
  BY <1>7 DEF shutdownVars, mainVars, vars, taskVars, MainSound, Idle, Active
<1>8. QED
  BY <1>1, <1>2, <1>3, <1>4, <1>5, <1>6, <1>7 DEF ShutdownNext

\* The invariants give the property: a task that is over has been refused, was dropped, or has
\* closed its record.
LEMMA OrderlyFrom == IInv /\ EndSound /\ MainSound => OrderlyShutdown
<1> SUFFICES ASSUME IInv, EndSound, MainSound, gateway = "exited", drained,
                    NEW r \in Requests, row[r].status = "in_progress",
                    pc[r] # "dropped", ~WasRefused(r)
             PROVE  FALSE
  BY DEF OrderlyShutdown, MainSound
<1>1. TypeOK
  BY DEF IInv
<1>2. pc[r] \in {"new", "returned"}
  BY <1>1 DEF TypeOK, MainSound, Idle, Active, Over
<1>3. row[r] # NoRow /\ Exists(r)
  BY DEF NoRow, Exists
<1>4. mode[r].store /\ r \notin deleted
  BY <1>3 DEF EndSound, StoreWanted, IInv, DeletedStaysAway
<1>5. pc[r] = "returned"
  BY <1>2, <1>3 DEF IInv, TaskKnows
<1>6. answer[r] # "ok"
  BY <1>4 DEF IInv, AnswerIsStored
<1>7. answer[r] = "none"
  BY <1>1, <1>6 DEF TypeOK, WasRefused
<1>8. PICK k \in DOMAIN client[r] : client[r][k].type \in Final
  BY <1>5, <1>7 DEF EndSound, EndSaid
<1>9. ~client[r][k].lost
  BY DEF WasRefused
<1>10. /\ client[r][k].seq + 1 \in DOMAIN log[r]
       /\ log[r][client[r][k].seq + 1].type = client[r][k].type
  BY <1>4, <1>9 DEF IInv, ReplayFaithful
<1>11. row[r].status \in Final
  BY <1>8, <1>10 DEF IInv, LogMatchesStatus
<1>12. QED
  BY <1>11 DEF Final

\* A shutdown within the timeout cuts no answer and leaves no record in progress but for a client
\* that left or a write that the store refused, for any requests, bounds and faults.
THEOREM OrderlyShutdownHolds == ShutdownSpec => []OrderlyShutdown
<1>1. ShutdownInit => Init /\ MainSound
  BY DEF ShutdownInit, MainSound
<1>2. ShutdownSpec => []IInv
  BY ShutdownImplements, InvariantHolds, PTL DEF ImplementsResponses
<1>3. IInv /\ EndSound /\ MainSound /\ [ShutdownNext]_shutdownVars => EndSound' /\ MainSound'
  BY StepImplements, NextEnds, MainStays
<1>4. QED
  BY <1>1, <1>2, <1>3, EndInit, OrderlyFrom, PTL DEF ShutdownSpec
=============================================================================
