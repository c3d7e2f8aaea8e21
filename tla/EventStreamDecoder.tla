-------------------------- MODULE EventStreamDecoder --------------------------
(***************************************************************************)
(* EventStreamDecoder and parse_headers (upstream/event_stream.rs) on a    *)
(* stream of frames that is cut anywhere, may break off, and may hold a    *)
(* frame that is not what was sent.                                        *)
(*                                                                         *)
(* Bytes are the numbers 0..Base-1, and the 4-byte words of a frame are    *)
(* two of them here: a frame is total length, header length, checksum of   *)
(* both, headers, payload, checksum of all that.                           *)
(***************************************************************************)
EXTENDS Naturals, SequencesExt

CONSTANTS Base,          \* bytes are 0..Base-1, the last one is no UTF-8
          Checksum(_),   \* CRC32, a word
          MaxFrameSize,  \* max_frame_size
          Frames,        \* what may be sent: encoded, with the message it stands for
          MaxFrames      \* bound on the frames of a stream

Word(bytes, at) == Base * bytes[at] + bytes[at + 1]
PreludeSize == 6
MinFrameSize == 8

NoHeaders == [ok |-> FALSE, headers |-> <<>>]
IsUtf8(bytes) == \A i \in DOMAIN bytes : bytes[i] # Base - 1

-----------------------------------------------------------------------------
(* One frame                                                                *)

\* The size of a header's value, or its length prefix for a string or bytes.
FixedSize(type) ==
    CASE type \in {0, 1} -> 0
      [] type = 2 -> 1
      [] type = 3 -> 2
      [] type = 4 -> 4
      [] type \in {5, 8} -> 8
      [] type = 9 -> 16

\* The string headers of a header block.
ParseHeaders(block) ==
    LET from[i \in Nat] ==
            IF i > Len(block) THEN [ok |-> TRUE, headers |-> <<>>]
            ELSE LET typeAt == i + 1 + block[i]
                     name == SubSeq(block, i + 1, typeAt - 1)
                 IN  IF block[i] = 0 \/ typeAt > Len(block) \/ ~IsUtf8(name) THEN NoHeaders
                     ELSE LET type == block[typeAt]
                              prefixed == type \in {6, 7}
                              at == typeAt + (IF prefixed THEN 3 ELSE 1)
                          IN  IF type > 9 \/ at - 1 > Len(block) THEN NoHeaders
                              ELSE LET size == IF prefixed THEN Word(block, at - 2) ELSE FixedSize(type)
                                       value == SubSeq(block, at, at + size - 1)
                                       rest == from[at + size]
                                   IN  IF at + size - 1 > Len(block) \/ (type = 7 /\ ~IsUtf8(value)) \/ ~rest.ok
                                         THEN NoHeaders
                                         ELSE IF type = 7 THEN [rest EXCEPT !.headers = << <<name, value>> >> \o @]
                                                          ELSE rest
    IN  from[1]

More == [kind |-> "more"]
Bad == [kind |-> "bad"]
Message(headers, payload) == [headers |-> headers, payload |-> payload]

\* Mutated form: only the checksum of the prelude is looked at.
PreludeIntact(frame) == Checksum(SubSeq(frame, 1, 4)) = Word(frame, 5)
IsIntact(frame) ==
    /\ Checksum(SubSeq(frame, 1, Len(frame) - 2)) = Word(frame, Len(frame) - 1)
    /\ Checksum(SubSeq(frame, 1, 4)) = Word(frame, 5)

\* decode_one, when the prelude is there.
DecodeFrame(buffer) ==
    LET total == Word(buffer, 1)
        payloadAt == PreludeSize + Word(buffer, 3) + 1
        frame == SubSeq(buffer, 1, total)
        parsed == ParseHeaders(SubSeq(frame, PreludeSize + 1, payloadAt - 1))
    IN  IF total \notin MinFrameSize..MaxFrameSize \/ Word(buffer, 3) > total - MinFrameSize THEN Bad
        ELSE IF Len(buffer) < total THEN More
        ELSE IF ~IsIntact(frame) \/ ~parsed.ok THEN Bad
        ELSE [kind |-> "message",
              message |-> Message(parsed.headers, SubSeq(frame, payloadAt, total - 2)),
              rest |-> SubSeq(buffer, total + 1, Len(buffer))]

DecodeOne(buffer) == IF Len(buffer) < PreludeSize THEN More ELSE DecodeFrame(buffer)

\* The loop of push.
\* Mutated form: one message per chunk.
DecodeFirst(buffer) ==
    LET one == DecodeOne(buffer) IN
    IF one.kind = "message"
      THEN [bad |-> FALSE, messages |-> <<one.message>>, rest |-> one.rest]
      ELSE [bad |-> one.kind = "bad", messages |-> <<>>, rest |-> buffer]
DecodeAll(buffer) ==
    LET from[b \in Seq(0..(Base - 1))] ==
            LET one == DecodeOne(b) IN
            IF one.kind = "message"
              THEN [from[one.rest] EXCEPT !.messages = <<one.message>> \o @]
              ELSE [bad |-> one.kind = "bad", messages |-> <<>>, rest |-> b]
    IN  from[buffer]

-----------------------------------------------------------------------------
(* What may be sent                                                         *)

LengthsFit(bytes) ==
    Word(bytes, 1) \in MinFrameSize..MaxFrameSize /\ Word(bytes, 3) <= Word(bytes, 1) - MinFrameSize
IsSealed(bytes, size) == Checksum(SubSeq(bytes, 1, size)) = Word(bytes, size + 1)
Headers(bytes) == ParseHeaders(SubSeq(bytes, PreludeSize + 1, PreludeSize + Word(bytes, 3)))
Payload(bytes) == SubSeq(bytes, PreludeSize + Word(bytes, 3) + 1, Len(bytes) - 2)

\* A frame as the format has it.
IsFrame(bytes) ==
    /\ Len(bytes) >= PreludeSize /\ LengthsFit(bytes) /\ Len(bytes) = Word(bytes, 1)
    /\ IsSealed(bytes, 4) /\ IsSealed(bytes, Len(bytes) - 2) /\ Headers(bytes).ok

\* Bytes that are no frame, and can be told from one: the lengths are impossible, the prelude
\* is broken, or what it announces is there and is broken.
IsDamaged(bytes) ==
    LET frame == SubSeq(bytes, 1, Word(bytes, 1))
    IN  /\ Len(bytes) >= PreludeSize
        /\ LengthsFit(bytes) /\ IsSealed(bytes, 4) =>
               /\ Word(bytes, 1) <= Len(bytes)
               /\ IsSealed(frame, Len(frame) - 2) => ~Headers(frame).ok

\* Frames are bytes: each is sound and stands for its message, or is damaged so that it shows.
ASSUME FrameAssumption ==
    /\ Base \in Nat /\ MaxFrameSize \in Nat /\ MaxFrames \in Nat
    /\ \A f \in Frames :
           /\ f.bytes \in Seq(0..(Base - 1)) /\ f.sound \in BOOLEAN
           /\ f.sound => /\ IsFrame(f.bytes)
                         /\ f.message = Message(Headers(f.bytes).headers, Payload(f.bytes))
           /\ ~f.sound => IsDamaged(f.bytes)

-----------------------------------------------------------------------------
(* The decoder on a stream                                                  *)

VARIABLES sent,      \* the frames of the stream
          end,       \* the bytes after which it breaks off, or all of them
          received,  \* the bytes that have arrived
          buffer,    \* EventStreamDecoder.buffer
          decoded,   \* the messages that push has returned
          status     \* "open", "ended" after finish, or "failed"

wireVars == <<sent, end, received, buffer, decoded, status>>

Bytes(frames) == FlattenSeq([i \in DOMAIN frames |-> frames[i].bytes])

WireInit ==
    /\ sent \in UNION {[1..n -> Frames] : n \in 0..MaxFrames}
    /\ end \in 0..Len(Bytes(sent))
    /\ received = 0
    /\ buffer = <<>>
    /\ decoded = <<>>
    /\ status = "open"

\* A frame that cannot be decoded takes the messages of the same chunk with it.
Push ==
    /\ status = "open"
    /\ received' \in (received + 1)..end
    /\ LET all == DecodeAll(buffer \o SubSeq(Bytes(sent), received + 1, received')) IN
         /\ buffer' = all.rest
         /\ status' = IF all.bad THEN "failed" ELSE "open"
         /\ decoded' = IF all.bad THEN decoded ELSE decoded \o all.messages
    /\ UNCHANGED <<sent, end>>

\* Mutated form: what is left in the buffer is not looked at.
CarelessFinish ==
    /\ status = "open"
    /\ received = end
    /\ status' = "ended"
    /\ UNCHANGED <<sent, end, received, buffer, decoded>>
Finish ==
    /\ status = "open"
    /\ received = end
    /\ status' = IF buffer = <<>> THEN "ended" ELSE "failed"
    /\ UNCHANGED <<sent, end, received, buffer, decoded>>

WireDone == status # "open" /\ UNCHANGED wireVars

WireNext == Push \/ Finish \/ WireDone

WireSpec == WireInit /\ [][WireNext]_wireVars

-----------------------------------------------------------------------------
(* What arrived, said of frames instead of bytes                            *)

Sound(k) == \A i \in 1..k : sent[i].sound
Boundary(k) == Len(Bytes(SubSeq(sent, 1, k)))

\* Whatever the cuts, only messages that were sent are decoded, in order and each
\* once, and none from or behind a damaged frame (event_stream.rs:30).
DecodedWasSent ==
    LET k == Len(decoded)
    IN  k <= Len(sent) /\ Sound(k) /\ decoded = [i \in 1..k |-> sent[i].message]

\* Unless the stream has failed, a message is returned by the push that brings its
\* last byte.  (Behind a damaged length, the decoder waits for what never comes.)
NothingHeldBack ==
    status # "failed" =>
        \A k \in 0..Len(sent) : Sound(k) /\ Boundary(k) <= received => k <= Len(decoded)

\* A stream is good exactly if it ends between two frames, and it fails only for a
\* damaged frame of which bytes have come, or for one that breaks off.
VerdictIsRight ==
    /\ status = "ended" => received = Boundary(Len(decoded))
    /\ status = "failed" =>
           \/ \E k \in 1..Len(sent) : ~sent[k].sound /\ Boundary(k - 1) < received
           \/ received = end /\ \A k \in 0..Len(sent) : Boundary(k) # end

\* However a stream of frames is cut, the messages that were sent are decoded, in order, once
\* and with their last byte, and a damaged or broken stream fails, and no other
\* (event_stream.rs:30-113).
StreamIsDecoded == DecodedWasSent /\ NothingHeldBack /\ VerdictIsRight
=============================================================================
