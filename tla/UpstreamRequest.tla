--------------------------- MODULE UpstreamRequest ---------------------------
(***************************************************************************)
(* One call of UpstreamClient::event_stream (upstream/request.rs): at most *)
(* two attempts to send the request and to decode its answer, as a stream  *)
(* that the consumer polls and may drop whenever it is suspended.          *)
(*                                                                         *)
(* The network and the upstream are the nondeterminism: what arrives, in   *)
(* which chunks, and what fails.  A chunk holds the messages it completes  *)
(* and may leave bytes of an unfinished frame in the decoder.              *)
(***************************************************************************)
EXTENDS GenerationEvents

CONSTANTS Chunks,        \* what one chunk can complete: sequences of messages
          Bodies,        \* the events of the JSON bodies the upstream answers with
          MaxBodyBytes   \* max_body_bytes, in chunks

\* decode_events returns at least one event and ends with a stop or an error:
\* see JsonEvents.
ASSUME UpstreamAssumption ==
    /\ Chunks \subseteq Seq(Messages)
    /\ \A b \in Bodies : b \in Seq(Events) /\ b # <<>> /\ IsTerminal(b[Len(b)])
    /\ MaxBodyBytes \in Nat

VARIABLES pc,        \* where event_stream is suspended, or how it ended
          attempt,   \* 0 or 1
          integrity, \* StreamIntegrity without its copy of the attempt
          bytes,     \* body_bytes
          partial,   \* the decoder holds an unfinished frame
          messages,  \* decoded messages of the chunk still to be looked at
          events,    \* events of the message still to be yielded
          sends,     \* requests sent, counted up to three
          out        \* what was yielded: events with their attempt, then an error

vars == <<pc, attempt, integrity, bytes, partial, messages, events, sends, out>>

Suspended == {"send", "body", "json", "chunk", "message", "emit"}
Ended == {"completed", "failed", "dropped"}
ErrorKinds == {"transport", "application", "limit", "json", "integrity", "upstream"}

Failure(kind) == [kind |-> "failure", error |-> kind]
Item(e) == [attempt |-> attempt, item |-> e]

\* StreamIntegrity::default()
Fresh == [emitted_any |-> FALSE, completed |-> FALSE]

Init ==
    /\ pc = "send"
    /\ attempt = 0
    /\ integrity = Fresh
    /\ bytes = 0
    /\ partial = FALSE
    /\ messages = <<>>
    /\ events = <<>>
    /\ sends = 0
    /\ out = <<>>

-----------------------------------------------------------------------------
(* How an attempt ends.  Both discard what the attempt had decoded.         *)

Discard ==
    /\ integrity' = Fresh
    /\ bytes' = 0
    /\ partial' = FALSE
    /\ messages' = <<>>
    /\ events' = <<>>

\* continue: the next attempt starts from nothing.
\* Mutated form: the loop does not count.
RetryUncounted == pc' = "send" /\ Discard /\ UNCHANGED <<attempt, out>>
Retry ==
    /\ pc' = "send"
    /\ attempt' = attempt + 1
    /\ Discard
    /\ UNCHANGED out

\* yield Err(..); return
\* Mutated form: the return is missing.
FailAndGoOn(kind) ==
    /\ pc' = "chunk"
    /\ out' = Append(out, Item(Failure(kind)))
    /\ UNCHANGED <<integrity, bytes, partial, messages, events, attempt>>
Fail(kind) ==
    /\ pc' = "failed"
    /\ out' = Append(out, Item(Failure(kind)))
    /\ Discard
    /\ UNCHANGED attempt

\* should_retry of an attempt that was found incomplete.
\* Mutated form: any number of attempts.
EndlessRetry == ~integrity.emitted_any /\ attempt < 3
\* Mutated form: no attempt but the first.
NoRetry == FALSE
\* Mutated form: emitted events are forgotten.
CarelessRetry == attempt < 1
ShouldRetry == ~integrity.emitted_any /\ attempt < 1

RetryOrFail(kind) == IF ShouldRetry THEN Retry ELSE Fail(kind)

-----------------------------------------------------------------------------
(* Sending                                                                  *)

Counted == IF sends < 3 THEN sends + 1 ELSE sends

\* A connection that fails before anything was received is tried once more;
\* an answer with an error status is not.
SendFails ==
    /\ pc = "send"
    /\ sends' = Counted
    /\ \/ IF attempt = 0 THEN Retry ELSE Fail("transport")
       \/ Fail("application")

Answered ==
    /\ pc = "send"
    /\ sends' = Counted
    /\ pc' \in {"body", "chunk"}
    /\ UNCHANGED <<attempt, integrity, bytes, partial, messages, events, out>>

-----------------------------------------------------------------------------
(* A JSON answer is read as a whole and then yielded event by event.        *)

BodyFails ==
    /\ pc = "body"
    /\ \/ IF attempt = 0 THEN Retry ELSE Fail("transport")
       \/ Fail("limit")
       \/ Fail("json")
    /\ UNCHANGED sends

BodyRead ==
    /\ pc = "body"
    /\ events' \in Bodies
    /\ pc' = "json"
    /\ UNCHANGED <<attempt, integrity, bytes, partial, messages, sends, out>>

YieldJson ==
    /\ pc = "json"
    /\ IF events = <<>>
         THEN /\ pc' = "completed"
              /\ UNCHANGED <<events, out>>
         ELSE /\ out' = Append(out, Item(Head(events)))
              /\ events' = Tail(events)
              /\ UNCHANGED pc
    /\ UNCHANGED <<attempt, integrity, bytes, partial, messages, sends>>

-----------------------------------------------------------------------------
(* An event stream                                                          *)

\* The connection breaks, or the decoder finds a bad frame: messages that the
\* same chunk completed before it are lost with it.
ChunkFails ==
    /\ pc = "chunk"
    /\ \/ RetryOrFail("transport")
       \/ bytes < MaxBodyBytes /\ RetryOrFail("integrity")
       \/ Fail("limit")
    /\ UNCHANGED sends

ChunkArrives ==
    /\ pc = "chunk"
    /\ bytes < MaxBodyBytes
    /\ bytes' = bytes + 1
    /\ messages' \in Chunks
    /\ partial' \in BOOLEAN
    /\ pc' = "message"
    /\ UNCHANGED <<attempt, integrity, events, sends, out>>

NextMessage ==
    /\ pc = "message"
    /\ messages # <<>>
    /\ LET m == Head(messages) IN
         \/ /\ m = Exception
            /\ Fail("upstream")
         \/ /\ m = Malformed
            /\ RetryOrFail("integrity")
         \/ /\ m \notin {Exception, Malformed}
            /\ messages' = Tail(messages)
            /\ events' = DecodeGenerationEvents(m)
            /\ pc' = "emit"
            /\ UNCHANGED <<attempt, integrity, bytes, partial, out>>
    /\ UNCHANGED sends

ChunkDone ==
    /\ pc = "message"
    /\ messages = <<>>
    /\ pc' = "chunk"
    /\ UNCHANGED <<attempt, integrity, bytes, partial, messages, events, sends, out>>

\* Mutated form: every stop does.
EveryStopCompletes(e) == e.kind \in {"stop", "end"}
EventMarksCompletion(e) ==
    \/ e.kind = "stop" /\ ~IsIncomplete(e.reason)
    \/ e.kind = "end" /\ e.complete

\* Mutated form: record_emission is missing.
EmitUnrecorded ==
    /\ pc = "emit"
    /\ IF events = <<>>
         THEN /\ pc' = "message"
              /\ UNCHANGED <<integrity, events, out>>
         ELSE /\ integrity' = [integrity EXCEPT !.completed = @ \/ EventMarksCompletion(Head(events))]
              /\ out' = Append(out, Item(Head(events)))
              /\ events' = Tail(events)
              /\ UNCHANGED pc
    /\ UNCHANGED <<attempt, bytes, partial, messages, sends>>
Emit ==
    /\ pc = "emit"
    /\ IF events = <<>>
         THEN /\ pc' = "message"
              /\ UNCHANGED <<integrity, events, out>>
         ELSE /\ integrity' = [completed |-> integrity.completed \/ EventMarksCompletion(Head(events)),
                               emitted_any |-> TRUE]
              /\ out' = Append(out, Item(Head(events)))
              /\ events' = Tail(events)
              /\ UNCHANGED pc
    /\ UNCHANGED <<attempt, bytes, partial, messages, sends>>

\* The end of the event stream: an unfinished frame, no events at all, or no
\* event that completes the answer, which is then marked as incomplete.
Complete ==
    /\ pc' = "completed"
    /\ out' = IF integrity.completed THEN out ELSE Append(out, Item(Stop("stream_incomplete")))
    /\ UNCHANGED <<attempt, integrity, bytes, partial, messages, events>>
StreamEnds ==
    /\ pc = "chunk"
    /\ IF partial \/ ~integrity.emitted_any THEN RetryOrFail("integrity") ELSE Complete
    /\ UNCHANGED sends

-----------------------------------------------------------------------------
\* The consumer drops the stream: a client that went away, or one that stops
\* at the first error.
Drop ==
    /\ pc \in Suspended
    /\ pc' = "dropped"
    /\ UNCHANGED <<attempt, integrity, bytes, partial, messages, events, sends, out>>

Poll ==
    \/ SendFails \/ Answered
    \/ BodyFails \/ BodyRead \/ YieldJson
    \/ ChunkFails \/ ChunkArrives \/ NextMessage \/ ChunkDone \/ Emit \/ StreamEnds

Done == pc \in Ended /\ UNCHANGED vars

Next == Poll \/ Drop \/ Done

\* The client of reqwest bounds every call by its timeout, and a consumer that
\* has not dropped the stream polls it.
Spec == Init /\ [][Next]_vars
FairSpec == Spec /\ WF_vars(Poll)

-----------------------------------------------------------------------------
(* Properties                                                               *)

Failures == {Failure(k) : k \in ErrorKinds}

TypeOK ==
    /\ pc \in Suspended \cup Ended
    /\ attempt \in Nat
    /\ integrity \in [emitted_any : BOOLEAN, completed : BOOLEAN]
    /\ bytes \in 0..MaxBodyBytes
    /\ partial \in BOOLEAN
    /\ messages \in Seq(Messages)
    /\ events \in Seq(Events)
    /\ sends \in 0..3
    /\ out \in Seq([attempt : Nat, item : Events \cup Failures])

\* The consumer never sees events, or a failure, of two attempts: what it was
\* given cannot be repeated by a retry.
OneAttemptSeen ==
    \A i, j \in DOMAIN out : out[i].attempt = out[j].attempt

\* The upstream gets the request twice at most.
AtMostTwoSends == sends <= 2

\* A stream yields at most one failure, after all its events, and ends there.
FailureEndsStream ==
    \A i \in DOMAIN out :
        out[i].item.kind = "failure" => i = Len(out) /\ pc = "failed"

\* The end of an event stream says whether the answer is complete: either an
\* event of it completed the answer, or the last one is a stop or an error.
Completes(x) ==
    \/ x.item.kind = "stop" /\ x.item.reason # "stream_incomplete"
    \/ x.item.kind = "end" /\ x.item.complete
EndIsHonest ==
    pc = "completed" =>
        \/ \E i \in DOMAIN out : Completes(out[i])
        \/ /\ out # <<>>
           /\ IsTerminal(out[Len(out)].item)

\* An interrupted or empty answer of which nothing was yielded is reported
\* only after a second attempt.
RetriesExhausted ==
    \A x \in {"transport", "integrity"} :
        Len(out) = 1 /\ out[1].item = Failure(x) => sends = 2

\* A call that is not dropped ends.
EveryCallEnds == <>(pc \in Ended)

\* What a consumer may rely on: see SingleDelivery.
Delivery == INSTANCE SingleDelivery WITH open <- pc \in Suspended
DeliversOnce == Delivery!Spec

-----------------------------------------------------------------------------
(* The inductive invariant: the attempt under way is the only one the       *)
(* consumer has seen, and it is the second if one was given up.             *)

Streaming == {"chunk", "message", "emit"}

SendsMatchAttempt ==
    CASE pc = "send"             -> attempt <= 1 /\ sends = attempt
      [] pc \in Suspended \ {"send"} -> attempt <= 1 /\ sends = attempt + 1
      [] OTHER                   -> sends <= 2

NothingSeenYet ==
    \/ pc \in {"send", "body"}
    \/ pc \in Streaming /\ ~integrity.emitted_any

SeenSoFar ==
    /\ \A i \in DOMAIN out : out[i].attempt = attempt
    /\ NothingSeenYet => out = <<>>
    /\ integrity.emitted_any => out # <<>>
    /\ pc \in {"send", "body"} => integrity = Fresh
    /\ pc # "failed" => \A i \in DOMAIN out : out[i].item \in Events

CompletionKnown ==
    /\ pc \in Streaming /\ integrity.completed => \E i \in DOMAIN out : Completes(out[i])
    /\ pc = "json" =>
           IF events = <<>> THEN out # <<>> /\ IsTerminal(out[Len(out)].item)
                            ELSE IsTerminal(events[Len(events)])

IInv ==
    TypeOK /\ SendsMatchAttempt /\ SeenSoFar /\ CompletionKnown
    /\ FailureEndsStream /\ RetriesExhausted /\ EndIsHonest
=============================================================================
