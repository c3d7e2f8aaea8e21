--------------------------- MODULE UpstreamTheorems ---------------------------
(***************************************************************************)
(* Proofs about UpstreamRequest for any chunks, bodies and body limit: the *)
(* invariant is inductive, the safety properties follow, and a call is a   *)
(* SingleDelivery to its consumer.                                         *)
(***************************************************************************)
EXTENDS UpstreamRequest, TLAPS

\* The constants' assumptions, one by one.
LEMMA Constants ==
    /\ Chunks \subseteq Seq(Messages)
    /\ \A b \in Bodies : b \in Seq(Events) /\ b # <<>> /\ IsTerminal(b[Len(b)])
    /\ MaxBodyBytes \in Nat
BY UpstreamAssumption DEF UpstreamAssumption

\* A fresh attempt has nothing decoded.
LEMMA FreshTypes ==
    /\ Fresh \in [emitted_any : BOOLEAN, completed : BOOLEAN]
    /\ ~Fresh.emitted_any /\ ~Fresh.completed
    /\ 0 \in 0..MaxBodyBytes
BY Constants DEF Fresh

OutItems == [attempt : Nat, item : Events \cup Failures]

-----------------------------------------------------------------------------
(* Data                                                                     *)

\* No event of a handler is a failure of the call (domain.rs).
LEMMA EventKinds ==
    ASSUME NEW e \in Events
    PROVE  e.kind \in {"text", "thinking", "start", "delta", "end", "usage", "stop", "error"}
BY DEF Events

\* What is yielded as Err is not an event.
LEMMA FailureKinds ==
    ASSUME NEW f \in Failures
    PROVE  f.kind = "failure" /\ f \notin Events
<1>1. f.kind = "failure"
    BY DEF Failures, Failure
<1>2. QED BY <1>1, EventKinds

\* Two sequences of events follow each other.
LEMMA ConcatType ==
    ASSUME NEW s \in Seq(Events), NEW t \in Seq(Events)
    PROVE  s \o t \in Seq(Events)
OBVIOUS

\* What is left of a sequence ends as it did.
LEMMA TailEnds ==
    ASSUME NEW s \in Seq(Events), Tail(s) # <<>>, s # <<>>
    PROVE  Tail(s)[Len(Tail(s))] = s[Len(s)]
<1>1. Len(Tail(s)) = Len(s) - 1 /\ Len(Tail(s)) >= 1
    OBVIOUS
<1>2. \A i \in 1..Len(Tail(s)) : Tail(s)[i] = s[i + 1]
    OBVIOUS
<1>3. Tail(s)[Len(s) - 1] = s[(Len(s) - 1) + 1]
    BY <1>1, <1>2
<1>4. QED BY <1>1, <1>3

\* The next event is the first, and the last one when none is left after it.
LEMMA HeadAndLength ==
    ASSUME NEW s \in Seq(Events), s # <<>>
    PROVE  /\ Head(s) = s[1]
           /\ Len(Tail(s)) = 0 => Len(s) = 1
<1>1. Len(Tail(s)) = Len(s) - 1 /\ Len(s) \in Nat
    OBVIOUS
<1>2. QED BY <1>1

\* With nothing left after it, the next event is the only one.
LEMMA TailEmpty ==
    ASSUME NEW s \in Seq(Events), s # <<>>, Tail(s) = <<>>
    PROVE  Len(s) = 1 /\ Head(s) = s[1]
<1>1. \A t : t = <<>> => Len(t) = 0
    OBVIOUS
<1>2. Len(Tail(s)) = 0
    BY <1>1, Zenon
<1>3. QED BY <1>2, HeadAndLength, Zenon

\* One event or none is a sequence of events.
LEMMA OptionalType ==
    ASSUME NEW p, NEW e \in Events
    PROVE  Optional(p, e) \in Seq(Events)
<1>1. <<e>> \in Seq(Events) /\ <<>> \in Seq(Events)
    OBVIOUS
<1>2. QED BY <1>1 DEF Optional

\* The frames of a tool use become tool call events (event_stream.rs).
LEMMA DecodeToolUseType ==
    ASSUME NEW m, m.id \in STRING, m.name \in STRING,
           m.input \in [1..0 -> Text] \cup [1..1 -> Text]
    PROVE  DecodeToolUse(m) \in Seq(Events)
<1>1. ToolCallStart(m.id, m.name) \in Events
    BY DEF ToolCallStart, Events
<1>2. ToolCallEnd(m.id, TRUE) \in Events
    BY DEF ToolCallEnd, Events
<1>3. (IF m.input = <<>> THEN <<>> ELSE <<ToolCallDelta(m.id, m.input[1])>>) \in Seq(Events)
    <2>1. CASE m.input = <<>>
        BY <2>1
    <2>2. CASE m.input # <<>>
        <3>1. m.input \in [1..1 -> Text]
            BY <2>2
        <3>2. m.input[1] \in Text
            BY <3>1
        <3>3. ToolCallDelta(m.id, m.input[1]) \in Events
            BY <3>2 DEF ToolCallDelta, Events
        <3>4. QED BY <2>2, <3>3
    <2>3. QED BY <2>1, <2>2
<1>4. Optional(m.name # "" \/ m.id # "", ToolCallStart(m.id, m.name)) \in Seq(Events)
    BY <1>1, OptionalType
<1>5. Optional(m.stop, ToolCallEnd(m.id, TRUE)) \in Seq(Events)
    BY <1>2, OptionalType
<1>6. QED BY <1>3, <1>4, <1>5, ConcatType DEF DecodeToolUse

\* Decoding a message gives a sequence of events.
LEMMA DecodeType ==
    ASSUME NEW m \in Messages
    PROVE  DecodeGenerationEvents(m) \in Seq(Events)
<1>1. CASE m.type = "assistant"
    <2>1. TextDelta(m.text) \in Events
        BY <1>1 DEF Messages, TextDelta, Events, ErrorEvent, Other, Exception, Malformed
    <2>2. QED BY <1>1, <2>1 DEF DecodeGenerationEvents
<1>2. CASE m.type = "reasoning"
    <2>1. ThinkingDelta(m.text) \in Events
        BY <1>2 DEF Messages, ThinkingDelta, Events, ErrorEvent, Other, Exception, Malformed
    <2>2. QED BY <1>2, <2>1 DEF DecodeGenerationEvents
<1>3. CASE m.type = "tool"
    <2>1. m.id \in STRING /\ m.name \in STRING /\ m.input \in [1..0 -> Text] \cup [1..1 -> Text]
        BY <1>3 DEF Messages, ErrorEvent, Other, Exception, Malformed
    <2>2. DecodeToolUse(m) \in Seq(Events)
        BY <2>1, DecodeToolUseType
    <2>3. QED BY <1>3, <2>2 DEF DecodeGenerationEvents
<1>4. CASE m.type = "metadata"
    <2>1. m.reason \in STRING
        BY <1>4 DEF Messages, ErrorEvent, Other, Exception, Malformed
    <2>2. Usage \in Events /\ Stop(m.reason) \in Events
        BY <2>1 DEF Usage, Stop, Events, Reasons
    <2>3. Optional(m.usage, Usage) \in Seq(Events) /\ Optional(m.reason # "", Stop(m.reason)) \in Seq(Events)
        BY <2>2, OptionalType
    <2>4. QED BY <1>4, <2>3, ConcatType DEF DecodeGenerationEvents
<1>5. CASE m.type = "error"
    <2>1. Error \in Events
        BY DEF Error, Events
    <2>2. QED BY <1>5, <2>1 DEF DecodeGenerationEvents
<1>6. CASE m.type \notin {"assistant", "reasoning", "tool", "metadata", "error"}
    <2>1. DecodeGenerationEvents(m) = <<>>
        BY <1>6 DEF DecodeGenerationEvents
    <2>2. QED BY <2>1
<1>7. QED BY <1>1, <1>2, <1>3, <1>4, <1>5, <1>6

\* A yielded event or failure is an item of the current attempt.
LEMMA ItemType ==
    ASSUME attempt \in Nat, NEW x \in Events \cup Failures
    PROVE  Item(x) \in OutItems
BY DEF Item, OutItems

\* Appending an item keeps the others.
LEMMA AppendedItem ==
    ASSUME NEW s \in Seq(OutItems), NEW x \in OutItems, NEW t, t = Append(s, x)
    PROVE  /\ t \in Seq(OutItems)
           /\ Len(t) = Len(s) + 1 /\ t[Len(t)] = x
           /\ \A i \in DOMAIN t : i = Len(t) \/ (i \in DOMAIN s /\ t[i] = s[i])
           /\ \A i \in DOMAIN s : i \in DOMAIN t /\ t[i] = s[i] /\ i # Len(t)
<1>1. t \in Seq(OutItems) /\ Len(t) = Len(s) + 1 /\ t[Len(t)] = x
    OBVIOUS
<1>2. DOMAIN s = 1..Len(s) /\ DOMAIN t = 1..(Len(s) + 1) /\ Len(s) \in Nat
    BY <1>1
<1>3. ASSUME NEW i \in DOMAIN s
      PROVE  i \in DOMAIN t /\ t[i] = s[i] /\ i # Len(t)
    BY <1>1, <1>2
<1>4. ASSUME NEW i \in DOMAIN t, i # Len(t)
      PROVE  i \in DOMAIN s
    BY <1>1, <1>2, <1>4
<1>5. \A i \in DOMAIN s : i \in DOMAIN t /\ t[i] = s[i] /\ i # Len(t)
    BY <1>3
<1>6. ASSUME NEW i \in DOMAIN t
      PROVE  i = Len(t) \/ (i \in DOMAIN s /\ t[i] = s[i])
    <2>1. CASE i = Len(t)
        BY <2>1
    <2>2. CASE i # Len(t)
        BY <1>4, <1>5, <1>6, <2>2, Zenon
    <2>3. QED BY <2>1, <2>2, Zenon
<1>7. QED BY <1>1, <1>5, <1>6, Zenon

-----------------------------------------------------------------------------
(* The two ways in which an attempt is given up                             *)

\* What holds when an attempt that sent the request is given up.
GivenUp ==
    /\ IInv
    /\ pc \in Suspended
    /\ attempt <= 1
    /\ sends' = attempt + 1

\* A retry starts the second attempt with nothing yielded (continue).
LEMMA RetryKeeps ==
    ASSUME GivenUp, attempt = 0, out = <<>>, Retry
    PROVE  IInv'
<1>1. pc' = "send" /\ attempt' = 1 /\ sends' = 1 /\ out' = <<>> /\ events' = <<>>
    BY DEF Retry, GivenUp, IInv, TypeOK, Discard
<1>2. TypeOK'
    <2>1. integrity' \in [emitted_any : BOOLEAN, completed : BOOLEAN]
        BY DEF Retry, Discard, Fresh
    <2>2. bytes' \in 0..MaxBodyBytes /\ partial' \in BOOLEAN
        BY FreshTypes DEF Retry, Discard
    <2>3. messages' \in Seq(Messages) /\ events' \in Seq(Events)
        BY DEF Retry, Discard
    <2>4. QED BY <1>1, <2>1, <2>2, <2>3 DEF TypeOK, Suspended
<1>3. SendsMatchAttempt'
    BY <1>1 DEF SendsMatchAttempt
<1>4. SeenSoFar'
    <2>1. integrity' = Fresh
        BY DEF Retry, Discard
    <2>2. QED BY <1>1, <2>1 DEF SeenSoFar, NothingSeenYet, Fresh
<1>5. CompletionKnown' /\ FailureEndsStream' /\ RetriesExhausted' /\ EndIsHonest'
    BY <1>1 DEF CompletionKnown, FailureEndsStream, RetriesExhausted, EndIsHonest, Streaming
<1>6. QED BY <1>2, <1>3, <1>4, <1>5 DEF IInv

\* yield Err(..); return: the failure is last, and final unless a retry was due.
LEMMA FailKeeps ==
    ASSUME GivenUp, NEW k \in ErrorKinds, Fail(k),
           k \in {"transport", "integrity"} /\ out = <<>> => attempt = 1
    PROVE  IInv'
<1>1. Failure(k) \in Failures
    BY DEF Failures
<1>2. /\ out \in Seq(OutItems) /\ Item(Failure(k)) \in OutItems
      /\ out' = Append(out, Item(Failure(k)))
      /\ pc' = "failed" /\ attempt' = attempt /\ attempt \in Nat
    BY <1>1, ItemType DEF GivenUp, IInv, TypeOK, Fail, OutItems
<1>3. /\ Len(out') = Len(out) + 1 /\ out'[Len(out')] = Item(Failure(k))
      /\ \A i \in DOMAIN out' : i = Len(out') \/ (i \in DOMAIN out /\ out'[i] = out[i])
    BY <1>2, AppendedItem
<1>4. TypeOK'
    <2>1. integrity' \in [emitted_any : BOOLEAN, completed : BOOLEAN]
        BY DEF Fail, Discard, Fresh
    <2>2. bytes' \in 0..MaxBodyBytes /\ partial' \in BOOLEAN
        BY FreshTypes DEF Fail, Discard
    <2>3. messages' \in Seq(Messages) /\ events' \in Seq(Events)
        BY DEF Fail, Discard
    <2>4. out' \in Seq(OutItems) /\ sends' \in 0..3 /\ attempt' \in Nat
        BY <1>2 DEF GivenUp
    <2>5. QED BY <1>2, <2>1, <2>2, <2>3, <2>4 DEF TypeOK, Ended, OutItems
<1>5. SendsMatchAttempt'
    BY <1>2 DEF SendsMatchAttempt, GivenUp, Suspended
<1>6. SeenSoFar'
    <2>1. \A i \in DOMAIN out' : out'[i].attempt = attempt'
        BY <1>2, <1>3 DEF GivenUp, IInv, SeenSoFar, Item
    <2>2. integrity' = Fresh
        BY DEF Fail, Discard
    <2>3. QED BY <1>2, <2>1, <2>2 DEF SeenSoFar, NothingSeenYet, Fresh, Streaming
<1>7. CompletionKnown' /\ EndIsHonest'
    BY <1>2 DEF CompletionKnown, EndIsHonest, Streaming
<1>8. FailureEndsStream'
    <2>1. \A i \in DOMAIN out : out[i].item.kind # "failure"
        BY EventKinds DEF GivenUp, IInv, SeenSoFar, Suspended
    <2>2. QED BY <1>2, <1>3, <2>1 DEF FailureEndsStream
<1>9. RetriesExhausted'
    <2>1. SUFFICES ASSUME NEW x \in {"transport", "integrity"},
                          Len(out') = 1, out'[1].item = Failure(x)
                   PROVE  sends' = 2
        BY DEF RetriesExhausted
    <2>2. Len(out) = 0 /\ out = <<>>
        BY <1>2, <1>3, <2>1
    <2>3. Failure(k) = Failure(x)
        BY <1>2, <2>1, <2>2 DEF Item
    <2>4. k = x
        BY <2>3 DEF Failure
    <2>5. QED BY <2>2, <2>4 DEF GivenUp
<1>10. QED BY <1>4, <1>5, <1>6, <1>7, <1>8, <1>9 DEF IInv

\* should_retry decides between the two; an emission rules the retry out.
LEMMA RetryOrFailKeeps ==
    ASSUME GivenUp, NEW k \in ErrorKinds, RetryOrFail(k), pc \in Streaming
    PROVE  IInv'
<1>1. CASE ShouldRetry
    <2>1. attempt = 0 /\ out = <<>>
        BY <1>1 DEF ShouldRetry, GivenUp, IInv, TypeOK, SeenSoFar, NothingSeenYet
    <2>2. Retry
        BY <1>1 DEF RetryOrFail
    <2>3. QED BY <2>1, <2>2, RetryKeeps
<1>2. CASE ~ShouldRetry
    <2>1. Fail(k)
        BY <1>2 DEF RetryOrFail
    <2>2. out = <<>> => attempt = 1
        BY <1>2 DEF ShouldRetry, GivenUp, IInv, TypeOK, SeenSoFar
    <2>3. QED BY <2>1, <2>2, FailKeeps
<1>3. QED BY <1>1, <1>2

-----------------------------------------------------------------------------
(* Every step keeps the invariant                                           *)

\* The first request is about to be sent.
LEMMA InitInvariant == Init => IInv
<1> SUFFICES ASSUME Init PROVE IInv
    OBVIOUS
<1>1. TypeOK
    <2>1. messages \in Seq(Messages) /\ events \in Seq(Events)
        BY DEF Init
    <2>2. out \in Seq([attempt : Nat, item : Events \cup Failures])
        BY DEF Init
    <2>3. integrity \in [emitted_any : BOOLEAN, completed : BOOLEAN] /\ bytes \in 0..MaxBodyBytes
        BY FreshTypes DEF Init
    <2>4. pc \in Suspended /\ attempt \in Nat /\ sends \in 0..3
        BY DEF Init, Suspended
    <2>5. partial \in BOOLEAN
        BY DEF Init
    <2>6. QED BY <2>1, <2>2, <2>3, <2>4, <2>5 DEF TypeOK
<1>2. SendsMatchAttempt
    BY DEF Init, SendsMatchAttempt
<1>5. SeenSoFar
    BY FreshTypes DEF Init, SeenSoFar
<1>3. CompletionKnown /\ FailureEndsStream /\ RetriesExhausted /\ EndIsHonest
    BY DEF Init, CompletionKnown, FailureEndsStream, RetriesExhausted, EndIsHonest, Streaming
<1>4. QED BY <1>1, <1>2, <1>3, <1>5 DEF IInv

\* send_once (request.rs:73-96).
LEMMA SendKeeps ==
    ASSUME IInv, SendFails \/ Answered
    PROVE  IInv'
<1>1. pc = "send" /\ attempt \in {0, 1} /\ sends' = attempt + 1 /\ out = <<>>
    BY DEF SendFails, Answered, IInv, TypeOK, SendsMatchAttempt, Counted, SeenSoFar, NothingSeenYet
<1>2. GivenUp
    BY <1>1 DEF GivenUp, Suspended
<1>3. CASE SendFails
    <2>1. CASE attempt = 0 /\ Retry
        BY <1>1, <1>2, <2>1, RetryKeeps
    <2>2. CASE attempt = 1 /\ Fail("transport")
        BY <1>1, <1>2, <2>2, FailKeeps DEF ErrorKinds
    <2>3. CASE Fail("application")
        BY <1>1, <1>2, <2>3, FailKeeps DEF ErrorKinds
    <2>4. QED BY <1>1, <1>3, <2>1, <2>2, <2>3 DEF SendFails
<1>4. CASE Answered
    <2>1. pc' \in {"body", "chunk"} /\ out' = <<>> /\ attempt' = attempt /\ integrity' = integrity
        BY <1>1, <1>4 DEF Answered
    <2>2. integrity = Fresh
        BY <1>1 DEF IInv, SeenSoFar
    <2>3. TypeOK'
        BY <1>1, <1>4 DEF IInv, TypeOK, Answered, Suspended
    <2>4. SendsMatchAttempt'
        BY <1>1, <2>1 DEF SendsMatchAttempt, Suspended
    <2>5. SeenSoFar'
        BY <2>1, <2>2 DEF SeenSoFar, Fresh
    <2>6. CompletionKnown' /\ FailureEndsStream' /\ RetriesExhausted' /\ EndIsHonest'
        BY <2>1, <2>2 DEF CompletionKnown, FailureEndsStream, RetriesExhausted, EndIsHonest, Fresh
    <2>7. QED BY <2>3, <2>4, <2>5, <2>6 DEF IInv
<1>5. QED BY <1>3, <1>4

\* The consumer goes away; nothing else changes.
LEMMA DropKeeps ==
    ASSUME IInv, Drop
    PROVE  IInv'
<1>1. pc \in Suspended /\ pc' = "dropped" /\ out' = out /\ attempt' = attempt /\ sends' = sends
    BY DEF Drop
<1>2. TypeOK'
    BY <1>1 DEF IInv, TypeOK, Drop, Ended
<1>3. SendsMatchAttempt'
    BY <1>1 DEF IInv, TypeOK, SendsMatchAttempt, Suspended
<1>4. SeenSoFar'
    BY <1>1 DEF IInv, SeenSoFar, Drop, NothingSeenYet, Streaming, Suspended
<1>5. CompletionKnown' /\ EndIsHonest'
    BY <1>1 DEF CompletionKnown, EndIsHonest, Streaming
<1>6. FailureEndsStream'
    BY <1>1 DEF IInv, FailureEndsStream, Suspended
<1>7. RetriesExhausted'
    BY <1>1 DEF IInv, RetriesExhausted
<1>8. QED BY <1>2, <1>3, <1>4, <1>5, <1>6, <1>7 DEF IInv

\* A call that has ended stays as it is.
LEMMA StutterKeeps ==
    ASSUME IInv, UNCHANGED vars
    PROVE  IInv'
<1>1. TypeOK'
    BY DEF IInv, TypeOK, vars
<1>2. SendsMatchAttempt' /\ CompletionKnown'
    BY DEF IInv, SendsMatchAttempt, CompletionKnown, vars
<1>3. SeenSoFar'
    BY DEF IInv, SeenSoFar, NothingSeenYet, vars
<1>4. FailureEndsStream' /\ RetriesExhausted' /\ EndIsHonest'
    BY DEF IInv, FailureEndsStream, RetriesExhausted, EndIsHonest, vars
<1>5. QED BY <1>1, <1>2, <1>3, <1>4 DEF IInv

\* A step that yields nothing and stays in its attempt keeps what was seen.
LEMMA SilentStepKeeps ==
    ASSUME IInv, TypeOK', pc \in Suspended \ {"send"}, pc' \in {"json", "chunk", "message", "emit"},
           UNCHANGED <<attempt, integrity, sends, out>>,
           pc \in Streaming <=> pc' \in Streaming,
           pc' = "json" => events' # <<>> /\ IsTerminal(events'[Len(events')])
    PROVE  IInv'
<1>1. SendsMatchAttempt'
    BY DEF IInv, SendsMatchAttempt, Suspended
<1>2. SeenSoFar'
    BY FreshTypes DEF IInv, SeenSoFar, NothingSeenYet, Streaming, Suspended
<1>3. CompletionKnown'
    BY DEF IInv, CompletionKnown, Streaming
<1>4. FailureEndsStream' /\ RetriesExhausted' /\ EndIsHonest'
    BY DEF IInv, FailureEndsStream, RetriesExhausted, EndIsHonest, Suspended
<1>5. QED BY <1>1, <1>2, <1>3, <1>4 DEF IInv

\* Yielding an event, alone or before the stream returns.
LEMMA YieldKeeps ==
    ASSUME IInv, pc \in {"json", "emit", "chunk"}, NEW e \in Events, out' = Append(out, Item(e)),
           UNCHANGED <<attempt, sends>>,
           integrity' \in [emitted_any : BOOLEAN, completed : BOOLEAN],
           integrity'.completed => integrity.completed \/ EventMarksCompletion(e),
           pc' \in {"json", "emit", "completed"},
           pc' \in {"json", "emit"} => pc' = pc,
           pc' = "emit" => integrity'.emitted_any
    PROVE  /\ SendsMatchAttempt' /\ SeenSoFar' /\ FailureEndsStream' /\ RetriesExhausted'
           /\ out' \in Seq(OutItems) /\ out' # <<>> /\ out'[Len(out')].item = e
           /\ pc \in Streaming /\ integrity'.completed => \E i \in DOMAIN out' : Completes(out'[i])
<1>1. /\ out \in Seq(OutItems) /\ Item(e) \in OutItems /\ attempt \in Nat
      /\ Item(e).item = e /\ Item(e).attempt = attempt
    BY ItemType DEF IInv, TypeOK, OutItems, Item
<1>2. /\ out' \in Seq(OutItems) /\ Len(out') = Len(out) + 1 /\ out'[Len(out')] = Item(e)
      /\ \A i \in DOMAIN out' : i = Len(out') \/ (i \in DOMAIN out /\ out'[i] = out[i])
      /\ \A i \in DOMAIN out : i \in DOMAIN out' /\ out'[i] = out[i] /\ i # Len(out')
    BY <1>1, AppendedItem
<1>3. Len(out') \in DOMAIN out' /\ out' # <<>>
    BY <1>1, <1>2
<1>4. SendsMatchAttempt'
    <2>1. attempt <= 1 /\ sends = attempt + 1
        BY DEF IInv, SendsMatchAttempt, Suspended
    <2>2. attempt' <= 1 /\ sends' = attempt' + 1 /\ sends' <= 2
        BY <1>1, <2>1
    <2>3. QED BY <2>2 DEF SendsMatchAttempt, Suspended
<1>5. SeenSoFar'
    <2>1. \A i \in DOMAIN out' : out'[i].attempt = attempt'
        BY <1>1, <1>2 DEF IInv, SeenSoFar
    <2>2. \A i \in DOMAIN out' : out'[i].item \in Events
        BY <1>1, <1>2 DEF IInv, SeenSoFar
    <2>3. ~NothingSeenYet'
        BY DEF NothingSeenYet, Streaming
    <2>4. QED BY <1>3, <2>1, <2>2, <2>3 DEF SeenSoFar
<1>6. FailureEndsStream'
    BY <1>5, EventKinds DEF FailureEndsStream, SeenSoFar
<1>7. RetriesExhausted'
    <2>1. \A x \in {"transport", "integrity"} : Failure(x) \in Failures
        BY DEF Failures, ErrorKinds
    <2>2. SUFFICES ASSUME NEW x \in {"transport", "integrity"}, out'[1].item = Failure(x), Len(out') = 1
                   PROVE  FALSE
        BY DEF RetriesExhausted
    <2>3. out'[1].item \in Events
        BY <1>3, <1>5, <2>2 DEF SeenSoFar
    <2>4. QED BY <2>1, <2>2, <2>3, FailureKinds
<1>8. ASSUME pc \in Streaming, integrity'.completed
      PROVE  \E i \in DOMAIN out' : Completes(out'[i])
    <2>1. CASE integrity.completed
        <3>1. PICK i \in DOMAIN out : Completes(out[i])
            BY <1>8, <2>1 DEF IInv, CompletionKnown
        <3>2. i \in DOMAIN out' /\ out'[i] = out[i]
            BY <1>2, <3>1
        <3>3. QED BY <3>1, <3>2
    <2>2. CASE EventMarksCompletion(e)
        <3>1. Completes(Item(e))
            BY <1>1, <2>2 DEF Completes, EventMarksCompletion, IsIncomplete
        <3>2. QED BY <1>2, <1>3, <3>1
    <2>3. QED BY <1>8, <2>1, <2>2
<1>9. QED BY <1>1, <1>2, <1>3, <1>4, <1>5, <1>6, <1>7, <1>8

\* The JSON path (request.rs:104-150).
LEMMA JsonKeeps ==
    ASSUME IInv, BodyFails \/ BodyRead \/ YieldJson
    PROVE  IInv'
<1>1. CASE BodyFails
    <2>1. GivenUp /\ out = <<>>
        BY <1>1 DEF GivenUp, BodyFails, IInv, SendsMatchAttempt, SeenSoFar, NothingSeenYet, Suspended
    <2>2. attempt = 0 \/ attempt = 1
        BY <2>1 DEF GivenUp, IInv, TypeOK
    <2>3. CASE attempt = 0 /\ Retry
        BY <2>1, <2>3, RetryKeeps
    <2>4. CASE attempt = 1 /\ Fail("transport")
        BY <2>1, <2>4, FailKeeps DEF ErrorKinds
    <2>5. CASE Fail("limit")
        BY <2>1, <2>5, FailKeeps DEF ErrorKinds
    <2>6. CASE Fail("json")
        BY <2>1, <2>6, FailKeeps DEF ErrorKinds
    <2>7. QED BY <1>1, <2>2, <2>3, <2>4, <2>5, <2>6 DEF BodyFails
<1>2. CASE BodyRead
    <2>1. events' \in Seq(Events) /\ events' # <<>> /\ IsTerminal(events'[Len(events')])
        BY <1>2, Constants DEF BodyRead
    <2>2. TypeOK'
        BY <1>2, <2>1 DEF BodyRead, IInv, TypeOK, Suspended
    <2>3. QED BY <1>2, <2>1, <2>2, SilentStepKeeps DEF BodyRead, Suspended, Streaming
<1>3. CASE YieldJson /\ events = <<>>
    <2>1. /\ pc = "json" /\ pc' = "completed" /\ out' = out /\ attempt' = attempt /\ sends' = sends
          /\ integrity' = integrity /\ events' = events
        BY <1>3 DEF YieldJson
    <2>2. TypeOK'
        BY <1>3, <2>1 DEF IInv, TypeOK, YieldJson, Ended
    <2>3. SendsMatchAttempt'
        BY <2>1 DEF IInv, TypeOK, SendsMatchAttempt, Suspended
    <2>4. SeenSoFar'
        BY <2>1 DEF IInv, SeenSoFar, NothingSeenYet, Streaming
    <2>5. CompletionKnown' /\ FailureEndsStream' /\ RetriesExhausted'
        BY <2>1 DEF IInv, CompletionKnown, FailureEndsStream, RetriesExhausted, Streaming
    <2>6. EndIsHonest'
        BY <1>3, <2>1 DEF IInv, CompletionKnown, EndIsHonest
    <2>7. QED BY <2>2, <2>3, <2>4, <2>5, <2>6 DEF IInv
<1>4. CASE YieldJson /\ events # <<>>
    <2>1. /\ pc = "json" /\ pc' = "json" /\ out' = Append(out, Item(Head(events)))
          /\ UNCHANGED <<attempt, integrity, bytes, partial, messages, sends>> /\ events' = Tail(events)
        BY <1>4 DEF YieldJson
    <2>2. events \in Seq(Events) /\ Head(events) \in Events /\ events' \in Seq(Events)
        BY <1>4, <2>1 DEF IInv, TypeOK
    <2>3. IsTerminal(events[Len(events)])
        BY <1>4, <2>1 DEF IInv, CompletionKnown
    <2>4. integrity \in [emitted_any : BOOLEAN, completed : BOOLEAN]
        BY DEF IInv, TypeOK
    <2>5. /\ SendsMatchAttempt' /\ SeenSoFar' /\ FailureEndsStream' /\ RetriesExhausted'
          /\ out' \in Seq(OutItems) /\ out' # <<>> /\ out'[Len(out')].item = Head(events)
        BY <2>1, <2>2, <2>4, YieldKeeps
    <2>6. TypeOK'
        BY <2>1, <2>2, <2>5 DEF IInv, TypeOK, OutItems, Suspended
    <2>7. CompletionKnown'
        <3>1. CASE Tail(events) = <<>>
            <4>1. Len(events) = 1 /\ Head(events) = events[1]
                BY <2>2, <3>1, <1>4, TailEmpty
            <4>2. QED BY <2>1, <2>3, <2>5, <3>1, <4>1 DEF CompletionKnown, Streaming
        <3>2. CASE Tail(events) # <<>>
            <4>1. Tail(events)[Len(Tail(events))] = events[Len(events)]
                BY <2>2, <3>2, <1>4, TailEnds
            <4>2. QED BY <2>1, <2>3, <3>2, <4>1 DEF CompletionKnown, Streaming
        <3>3. QED BY <3>1, <3>2
    <2>8. EndIsHonest'
        BY <2>1 DEF EndIsHonest
    <2>9. QED BY <2>5, <2>6, <2>7, <2>8 DEF IInv
<1>5. QED BY <1>1, <1>2, <1>3, <1>4

\* What every state of an attempt's event stream knows.
LEMMA StreamingFacts ==
    ASSUME IInv, pc \in Streaming, sends' = sends
    PROVE  GivenUp /\ pc \in Suspended \ {"send"} /\ integrity \in [emitted_any : BOOLEAN, completed : BOOLEAN]
BY DEF GivenUp, IInv, TypeOK, SendsMatchAttempt, Suspended, Streaming

\* Receiving and decoding (request.rs:163-233).
LEMMA ReceiveKeeps ==
    ASSUME IInv, ChunkFails \/ ChunkArrives \/ NextMessage \/ ChunkDone
    PROVE  IInv'
<1>1. CASE ChunkFails
    <2>1. GivenUp /\ pc \in Streaming
        BY <1>1, StreamingFacts DEF ChunkFails, Streaming
    <2>2. CASE RetryOrFail("transport")
        BY <2>1, <2>2, RetryOrFailKeeps DEF ErrorKinds
    <2>3. CASE RetryOrFail("integrity")
        BY <2>1, <2>3, RetryOrFailKeeps DEF ErrorKinds
    <2>4. CASE Fail("limit")
        BY <2>1, <2>4, FailKeeps DEF ErrorKinds
    <2>5. QED BY <1>1, <2>2, <2>3, <2>4 DEF ChunkFails
<1>2. CASE ChunkArrives
    <2>1. pc = "chunk" /\ pc' = "message" /\ UNCHANGED <<attempt, integrity, sends, out, events>>
        BY <1>2 DEF ChunkArrives
    <2>2. messages' \in Seq(Messages) /\ partial' \in BOOLEAN
        BY <1>2, Constants DEF ChunkArrives
    <2>3. bytes' \in 0..MaxBodyBytes
        BY <1>2, Constants DEF ChunkArrives, IInv, TypeOK
    <2>4. TypeOK'
        BY <2>1, <2>2, <2>3 DEF IInv, TypeOK, Suspended
    <2>5. QED BY <2>1, <2>4, SilentStepKeeps DEF Suspended, Streaming
<1>3. CASE NextMessage
    <2>1. pc = "message" /\ messages # <<>> /\ sends' = sends
        BY <1>3 DEF NextMessage
    <2>2. GivenUp /\ pc \in Streaming
        BY <2>1, StreamingFacts DEF Streaming
    <2>3. messages \in Seq(Messages)
        BY DEF IInv, TypeOK
    <2>4. Head(messages) \in Messages /\ Tail(messages) \in Seq(Messages)
        BY <2>1, <2>3
    <2>5. CASE Fail("upstream")
        BY <2>2, <2>5, FailKeeps DEF ErrorKinds
    <2>6. CASE RetryOrFail("integrity")
        BY <2>2, <2>6, RetryOrFailKeeps DEF ErrorKinds
    <2>7. CASE /\ messages' = Tail(messages) /\ pc' = "emit"
               /\ events' = DecodeGenerationEvents(Head(messages))
               /\ UNCHANGED <<attempt, integrity, bytes, partial, out>>
        <3>1. events' \in Seq(Events)
            BY <2>4, <2>7, DecodeType
        <3>2. TypeOK'
            BY <2>1, <2>4, <2>7, <3>1 DEF IInv, TypeOK, Suspended
        <3>3. QED BY <2>1, <2>7, <3>2, SilentStepKeeps DEF Suspended, Streaming
    <2>8. QED BY <1>3, <2>5, <2>6, <2>7 DEF NextMessage
<1>4. CASE ChunkDone
    <2>1. pc = "message" /\ pc' = "chunk"
          /\ UNCHANGED <<attempt, integrity, bytes, partial, messages, events, sends, out>>
        BY <1>4 DEF ChunkDone
    <2>2. TypeOK'
        BY <2>1 DEF IInv, TypeOK, Suspended
    <2>3. QED BY <2>1, <2>2, SilentStepKeeps DEF Suspended, Streaming
<1>5. QED BY <1>1, <1>2, <1>3, <1>4

\* Yielding the events of a message (request.rs:234-256).
LEMMA EmitKeeps ==
    ASSUME IInv, Emit
    PROVE  IInv'
<1>1. CASE events = <<>>
    <2>1. pc = "emit" /\ pc' = "message"
          /\ UNCHANGED <<attempt, integrity, bytes, partial, messages, events, sends, out>>
        BY <1>1 DEF Emit
    <2>2. TypeOK'
        BY <2>1 DEF IInv, TypeOK, Suspended
    <2>3. QED BY <2>1, <2>2, SilentStepKeeps DEF Suspended, Streaming
<1>2. CASE events # <<>>
    <2>1. /\ pc = "emit" /\ pc' = "emit" /\ out' = Append(out, Item(Head(events)))
          /\ UNCHANGED <<attempt, bytes, partial, messages, sends>> /\ events' = Tail(events)
          /\ integrity' = [completed |-> integrity.completed \/ EventMarksCompletion(Head(events)),
                           emitted_any |-> TRUE]
        BY <1>2 DEF Emit
    <2>2. events \in Seq(Events) /\ Head(events) \in Events /\ events' \in Seq(Events)
        BY <1>2, <2>1 DEF IInv, TypeOK
    <2>3. integrity.completed \in BOOLEAN
        BY DEF IInv, TypeOK
    <2>4. EventMarksCompletion(Head(events)) \in BOOLEAN
        BY <2>2 DEF EventMarksCompletion, Events
    <2>5. /\ integrity' \in [emitted_any : BOOLEAN, completed : BOOLEAN]
          /\ integrity'.emitted_any
          /\ integrity'.completed => integrity.completed \/ EventMarksCompletion(Head(events))
        <3> HIDE DEF EventMarksCompletion
        <3>1. (integrity.completed \/ EventMarksCompletion(Head(events))) \in BOOLEAN
            OBVIOUS
        <3>2. QED BY <2>1, <3>1, Zenon
    <2>6. /\ SendsMatchAttempt' /\ SeenSoFar' /\ FailureEndsStream' /\ RetriesExhausted'
          /\ out' \in Seq(OutItems) /\ out' # <<>>
          /\ pc \in Streaming /\ integrity'.completed => \E i \in DOMAIN out' : Completes(out'[i])
        BY <2>1, <2>2, <2>5, YieldKeeps
    <2>7. TypeOK'
        BY <2>1, <2>2, <2>5, <2>6 DEF IInv, TypeOK, OutItems, Suspended
    <2>8. CompletionKnown' /\ EndIsHonest'
        BY <2>1, <2>6 DEF CompletionKnown, EndIsHonest, Streaming
    <2>9. QED BY <2>6, <2>7, <2>8 DEF IInv
<1>3. QED BY <1>1, <1>2

\* The end of an event stream (request.rs:258-300).
LEMMA StreamEndsKeeps ==
    ASSUME IInv, StreamEnds
    PROVE  IInv'
<1>1. pc = "chunk" /\ sends' = sends
    BY DEF StreamEnds
<1>2. GivenUp /\ pc \in Streaming /\ integrity \in [emitted_any : BOOLEAN, completed : BOOLEAN]
    BY <1>1, StreamingFacts DEF Streaming
<1>3. CASE RetryOrFail("integrity")
    BY <1>2, <1>3, RetryOrFailKeeps DEF ErrorKinds
<1>4. CASE Complete /\ integrity.completed
    <2>1. pc' = "completed" /\ UNCHANGED <<attempt, integrity, bytes, partial, messages, events, sends, out>>
        BY <1>1, <1>4 DEF Complete
    <2>2. TypeOK'
        BY <2>1 DEF IInv, TypeOK, Ended
    <2>3. SendsMatchAttempt'
        BY <1>1, <2>1 DEF IInv, TypeOK, SendsMatchAttempt, Suspended
    <2>4. SeenSoFar'
        BY <1>1, <2>1 DEF IInv, SeenSoFar, NothingSeenYet, Streaming
    <2>5. CompletionKnown' /\ FailureEndsStream' /\ RetriesExhausted'
        BY <1>1, <2>1 DEF IInv, CompletionKnown, FailureEndsStream, RetriesExhausted, Streaming
    <2>6. EndIsHonest'
        BY <1>2, <1>4, <2>1 DEF IInv, CompletionKnown, EndIsHonest
    <2>7. QED BY <2>2, <2>3, <2>4, <2>5, <2>6 DEF IInv
<1>5. CASE Complete /\ ~integrity.completed
    <2>1. /\ pc' = "completed" /\ out' = Append(out, Item(Stop("stream_incomplete")))
          /\ UNCHANGED <<attempt, integrity, bytes, partial, messages, events, sends>>
        BY <1>1, <1>5 DEF Complete
    <2>2. Stop("stream_incomplete") \in Events /\ IsTerminal(Stop("stream_incomplete"))
        <3>1. Stop("stream_incomplete") \in [kind : {"stop"}, reason : Reasons]
            BY DEF Stop, Reasons
        <3>2. Stop("stream_incomplete").kind = "stop"
            BY DEF Stop
        <3>3. QED BY <3>1, <3>2 DEF Events, IsTerminal
    <2>3. /\ SendsMatchAttempt' /\ SeenSoFar' /\ FailureEndsStream' /\ RetriesExhausted'
          /\ out' \in Seq(OutItems) /\ out' # <<>> /\ out'[Len(out')].item = Stop("stream_incomplete")
        BY <1>1, <1>2, <2>1, <2>2, YieldKeeps
    <2>4. TypeOK'
        BY <2>1, <2>3 DEF IInv, TypeOK, OutItems, Ended
    <2>5. CompletionKnown'
        BY <2>1 DEF CompletionKnown, Streaming
    <2>6. EndIsHonest'
        BY <2>2, <2>3 DEF EndIsHonest
    <2>7. QED BY <2>3, <2>4, <2>5, <2>6 DEF IInv
<1>6. QED BY <1>3, <1>4, <1>5 DEF StreamEnds

\* The invariant is inductive.
LEMMA NextInvariant == IInv /\ [Next]_vars => IInv'
<1> SUFFICES ASSUME IInv, [Next]_vars PROVE IInv'
    OBVIOUS
<1>1. CASE SendFails \/ Answered
    BY <1>1, SendKeeps
<1>2. CASE BodyFails \/ BodyRead \/ YieldJson
    BY <1>2, JsonKeeps
<1>3. CASE ChunkFails \/ ChunkArrives \/ NextMessage \/ ChunkDone
    BY <1>3, ReceiveKeeps
<1>4. CASE Emit \/ StreamEnds
    BY <1>4, EmitKeeps, StreamEndsKeeps
<1>5. CASE Drop
    BY <1>5, DropKeeps
<1>6. CASE Done \/ UNCHANGED vars
    BY <1>6, StutterKeeps DEF Done
<1>7. QED BY <1>1, <1>2, <1>3, <1>4, <1>5, <1>6 DEF Next, Poll

-----------------------------------------------------------------------------
(* A call is a SingleDelivery: every step delivers an item, closes the      *)
(* stream, or is not seen by the consumer.                                  *)

\* Yielding an item of the attempt extends what was delivered.
LEMMA YieldExtends ==
    ASSUME IInv, NEW x \in Events \cup Failures, out' = Append(out, Item(x))
    PROVE  Delivery!Extends /\ Delivery!Newest = Item(x)
<1>1. out \in Seq(OutItems) /\ Item(x) \in OutItems
    BY ItemType DEF IInv, TypeOK, OutItems
<1>2. out' \in Seq(OutItems) /\ Len(out') = Len(out) + 1 /\ out'[Len(out')] = Item(x)
    BY <1>1, AppendedItem
<1>3. out' # <<>>
    BY <1>1, <1>2
<1>4. Delivery!Newest = Item(x)
    BY <1>2 DEF Delivery!Newest
<1>5. \A i \in DOMAIN out : out[i].attempt = Item(x).attempt
    BY DEF IInv, SeenSoFar, Item
<1>6. QED BY <1>3, <1>4, <1>5 DEF Delivery!Extends

\* Yielding an event without returning delivers it.
LEMMA YieldDelivers ==
    ASSUME IInv, NEW e \in Events, out' = Append(out, Item(e)),
           pc \in Suspended, pc' \in Suspended
    PROVE  Delivery!Deliver
<1>1. Delivery!Extends /\ Delivery!Newest = Item(e)
    BY YieldExtends
<1>2. Item(e).item.kind # "failure"
    BY EventKinds DEF Item
<1>3. QED BY <1>1, <1>2 DEF Delivery!Deliver

\* Returning closes the stream, with a last item or without.
LEMMA ReturnCloses ==
    ASSUME IInv, pc \in Suspended, pc' \in Ended,
           \/ out' = out
           \/ \E x \in Events \cup Failures : out' = Append(out, Item(x))
    PROVE  Delivery!Close
<1>1. (pc \in Suspended) /\ (pc' \in Suspended) = FALSE
    BY DEF Suspended, Ended
<1>2. out' = out \/ Delivery!Extends
    BY YieldExtends
<1>3. QED BY <1>1, <1>2 DEF Delivery!Close

\* Giving up an attempt is not seen when it is retried, and closes the call if not.
LEMMA GivingUpDelivers ==
    ASSUME IInv, pc \in Suspended, NEW k \in ErrorKinds, Retry \/ Fail(k)
    PROVE  [Delivery!Next]_<<out, pc \in Suspended>>
<1>1. CASE Retry
    <2>1. out' = out /\ (pc \in Suspended) /\ (pc' \in Suspended)
        BY <1>1 DEF Retry, Suspended
    <2>2. QED BY <2>1
<1>2. CASE Fail(k)
    <2>1. Failure(k) \in Events \cup Failures
        BY DEF Failures
    <2>2. pc' \in Ended /\ out' = Append(out, Item(Failure(k)))
        BY <1>2 DEF Fail, Ended
    <2>3. Delivery!Close
        BY <2>1, <2>2, ReturnCloses
    <2>4. QED BY <2>3 DEF Delivery!Next
<1>3. QED BY <1>1, <1>2

\* A step that yields nothing and does not return is not seen.
LEMMA SilentUnseen ==
    ASSUME out' = out, pc \in Suspended, pc' \in Suspended
    PROVE  [Delivery!Next]_<<out, pc \in Suspended>>
<1>1. (pc' \in Suspended) = (pc \in Suspended)
    OBVIOUS
<1>2. QED BY <1>1

\* Every step of a call is a step of SingleDelivery.
LEMMA StepDelivers ==
    ASSUME IInv, [Next]_vars
    PROVE  [Delivery!Next]_<<out, pc \in Suspended>>
<1>1. CASE SendFails
    BY <1>1, GivingUpDelivers DEF SendFails, ErrorKinds, Suspended
<1>2. CASE BodyFails
    BY <1>2, GivingUpDelivers DEF BodyFails, ErrorKinds, Suspended
<1>3. CASE ChunkFails
    BY <1>3, GivingUpDelivers DEF ChunkFails, RetryOrFail, ErrorKinds, Suspended
<1>4. CASE Answered \/ BodyRead \/ ChunkArrives \/ ChunkDone
    BY <1>4, SilentUnseen DEF Answered, BodyRead, ChunkArrives, ChunkDone, Suspended
<1>5. CASE NextMessage
    <2>1. pc \in Suspended
        BY <1>5 DEF NextMessage, Suspended
    <2>2. CASE Fail("upstream")
        BY <2>1, <2>2, GivingUpDelivers DEF ErrorKinds
    <2>3. CASE RetryOrFail("integrity")
        BY <2>1, <2>3, GivingUpDelivers DEF RetryOrFail, ErrorKinds
    <2>4. CASE pc' = "emit" /\ out' = out
        BY <2>1, <2>4, SilentUnseen DEF Suspended
    <2>5. QED BY <1>5, <2>2, <2>3, <2>4 DEF NextMessage
<1>6. CASE YieldJson \/ Emit
    <2>1. pc \in Suspended
        BY <1>6 DEF YieldJson, Emit, Suspended
    <2>2. CASE events = <<>> /\ YieldJson
        <3>1. pc' \in Ended /\ out' = out
            BY <2>2 DEF YieldJson, Ended
        <3>2. Delivery!Close
            BY <2>1, <3>1, ReturnCloses
        <3>3. QED BY <3>2 DEF Delivery!Next
    <2>3. CASE events = <<>> /\ Emit
        BY <2>1, <2>3, SilentUnseen DEF Emit, Suspended
    <2>4. CASE events # <<>>
        <3>1. pc' \in Suspended /\ out' = Append(out, Item(Head(events)))
            BY <1>6, <2>1, <2>4 DEF YieldJson, Emit
        <3>2. Head(events) \in Events
            BY <2>4 DEF IInv, TypeOK
        <3>3. Delivery!Deliver
            BY <2>1, <3>1, <3>2, YieldDelivers
        <3>4. QED BY <3>3 DEF Delivery!Next
    <2>5. QED BY <1>6, <2>2, <2>3, <2>4
<1>7. CASE StreamEnds
    <2>1. pc \in Suspended
        BY <1>7 DEF StreamEnds, Suspended
    <2>2. CASE RetryOrFail("integrity")
        BY <2>1, <2>2, GivingUpDelivers DEF RetryOrFail, ErrorKinds
    <2>3. CASE Complete
        <3>1. Stop("stream_incomplete") \in Events
            BY DEF Stop, Events, Reasons
        <3>2. pc' \in Ended
            BY <2>3 DEF Complete, Ended
        <3>3. out' = out \/ out' = Append(out, Item(Stop("stream_incomplete")))
            BY <2>3 DEF Complete
        <3>4. Delivery!Close
            BY <2>1, <3>1, <3>2, <3>3, ReturnCloses
        <3>5. QED BY <3>4 DEF Delivery!Next
    <2>4. QED BY <1>7, <2>2, <2>3 DEF StreamEnds
<1>8. CASE Drop
    <2>1. pc \in Suspended /\ pc' \in Ended /\ out' = out
        BY <1>8 DEF Drop, Ended
    <2>2. Delivery!Close
        BY <2>1, ReturnCloses
    <2>3. QED BY <2>2 DEF Delivery!Next
<1>9. CASE Done \/ UNCHANGED vars
    BY <1>9 DEF Done, vars
<1>10. QED
    BY <1>1, <1>2, <1>3, <1>4, <1>5, <1>6, <1>7, <1>8, <1>9 DEF Next, Poll

\* A call opens with nothing delivered.
LEMMA InitDelivers == Init => Delivery!Init
<1> SUFFICES ASSUME Init PROVE Delivery!Init
    OBVIOUS
<1>1. out = <<>> /\ (pc \in Suspended) = TRUE
    BY DEF Init, Suspended
<1>2. QED BY <1>1 DEF Delivery!Init

-----------------------------------------------------------------------------
(* Theorems                                                                 *)

\* In every call, the attempt under way is the only one the consumer has seen, and
\* the second one only follows a first of which nothing was yielded.
THEOREM UpstreamInvariantHolds == Spec => []IInv
BY InitInvariant, NextInvariant, PTL DEF Spec

\* Every state has its type.
THEOREM UpstreamTypesHold == Spec => []TypeOK
<1>1. IInv => TypeOK
    BY DEF IInv
<1>2. QED BY <1>1, UpstreamInvariantHolds, PTL

\* The consumer never sees items of two attempts (request.rs:163).
THEOREM OneAttemptSeenHolds == Spec => []OneAttemptSeen
<1>1. IInv => OneAttemptSeen
    BY DEF IInv, SeenSoFar, OneAttemptSeen
<1>2. QED BY <1>1, UpstreamInvariantHolds, PTL

\* The upstream gets the request twice at most.
THEOREM AtMostTwoSendsHolds == Spec => []AtMostTwoSends
<1>1. IInv => AtMostTwoSends
    BY DEF IInv, TypeOK, SendsMatchAttempt, AtMostTwoSends
<1>2. QED BY <1>1, UpstreamInvariantHolds, PTL

\* At most one failure is yielded, after everything else.
THEOREM FailureEndsStreamHolds == Spec => []FailureEndsStream
<1>1. IInv => FailureEndsStream
    BY DEF IInv
<1>2. QED BY <1>1, UpstreamInvariantHolds, PTL

\* A stream that just ends was completed by an event, or ends with one that says
\* that it was not (request.rs:277).
THEOREM EndIsHonestHolds == Spec => []EndIsHonest
<1>1. IInv => EndIsHonest
    BY DEF IInv
<1>2. QED BY <1>1, UpstreamInvariantHolds, PTL

\* An answer without events is given up only after the second attempt.
THEOREM RetriesExhaustedHolds == Spec => []RetriesExhausted
<1>1. IInv => RetriesExhausted
    BY DEF IInv
<1>2. QED BY <1>1, UpstreamInvariantHolds, PTL

\* A call, with its retry, shows its consumer a single delivery.
THEOREM CallDeliversOnce == Spec => DeliversOnce
<1>1. IInv /\ [Next]_vars => [Delivery!Next]_<<out, pc \in Suspended>>
    BY StepDelivers
<1>2. QED
    BY <1>1, InitDelivers, UpstreamInvariantHolds, PTL DEF Spec, DeliversOnce, Delivery!Spec
=============================================================================
