---------------------------- MODULE MCConversions ----------------------------
(***************************************************************************)
(* Four parts that turn what they are given into something else and share  *)
(* nothing, side by side: TextChannel, EventStreamDecoder, JsonEvents and  *)
(* RequestInput. A behaviour is of one of them, the others stay at their   *)
(* first state.                                                            *)
(***************************************************************************)
EXTENDS MCJsonEvents, TextChannel, EventStreamDecoder, RequestInput

-----------------------------------------------------------------------------
(* Markers and texts. As in KIRO_MARKERS, markers share their first         *)
(* characters, and one of them differs by "/" only.                         *)

Characters == {"<", "/", "u", ">"}
MCMarkers == {<<"<", "u", ">">>, <<"<", "u", "u", ">">>, <<"<", "/", "u", ">">>}
MCChunks == UNION {[1..n -> Characters] : n \in 0..2}

-----------------------------------------------------------------------------
(* Frames as the upstream encodes them, and with one damage each.           *)

\* A toy checksum that depends on every byte and on its place.
MCChecksum(bytes) ==
    FoldLeftDomain(LAMBDA sum, i : (sum + (i + 2) * (bytes[i] + 1)) % (Base * Base), 0, bytes)

Encoded(n) == <<n \div Base, n % Base>>
Sealed(bytes) == bytes \o Encoded(MCChecksum(bytes))

\* A frame whose lengths say what they say.
Frame(total, headersSize, headers, payload) ==
    Sealed(Sealed(Encoded(total) \o Encoded(headersSize)) \o headers \o payload)
Encode(headers, payload) ==
    Frame(8 + Len(headers) + Len(payload), Len(headers), headers, payload)

\* A header block: a boolean, a string "4" under the name "3", a short integer.
Block == <<1, 2, 0>> \o <<1, 3, 7, 0, 1, 4>> \o <<2, 1, 1, 3, 9, 9>>
BadBlocks == {<<0>>, <<1>>, <<3, 1, 0>>, <<1, 15, 0>>, <<1, 2, 10>>, <<1, 2, 7, 0>>,
              <<1, 2, 7, 0, 2, 4>>, <<1, 2, 7, 0, 1, 15>>, <<1, 2, 3, 9>>}

Whole(bytes, message) == [sound |-> TRUE, bytes |-> bytes, message |-> message]
Damaged(bytes) == [sound |-> FALSE, bytes |-> bytes, message |-> Message(<<>>, <<>>)]
Changed(bytes, at) == [bytes EXCEPT ![at] = (@ + 1) % Base]

MCFrames ==
    {Whole(Encode(<<>>, <<>>), Message(<<>>, <<>>)),
     Whole(Encode(Block, <<5>>), Message(<< <<<<3>>, <<4>>>> >>, <<5>>))}
    \cup {Damaged(Changed(Encode(<<>>, <<5, 6>>), i)) : i \in 1..10}
    \cup {Damaged(Frame(n, 0, <<>>, <<>>)) : n \in {0, 7, 25}}
    \cup {Damaged(Frame(8, 1, <<>>, <<>>))}
    \cup {Damaged(Encode(b, <<>>)) : b \in BadBlocks}

-----------------------------------------------------------------------------
(* Tools whose names the gateway must translate: a function with a dot in   *)
(* its name and a custom tool in a namespace; and one name that no tool     *)
(* has. Up to three calls in up to five items.                              *)

OneWord(w) == [words |-> <<w>>, sep |-> "_"]

ReadFile == [custom |-> FALSE, space |-> <<>>, name |-> [words |-> <<"fs", "read">>, sep |-> "."]]
Exec == [custom |-> TRUE, space |-> <<"functions">>, name |-> OneWord("exec")]

MCTools == {ReadFile, Exec}
MCStrays == {OneWord("stray")}

-----------------------------------------------------------------------------
VARIABLE subject

jsonVars == <<body, result>>
conversionVars == <<subject, textVars, wireVars, jsonVars, inputVars>>

NoBody == Body(Object(<<>>), <<>>, TRUE)

ConversionInit ==
    /\ subject \in {"text", "wire", "json", "request"}
    /\ subject = "wire" \/ (subject # "wire" /\ sent = <<>>)
    /\ subject = "request" \/ (subject # "request" /\ protocol = "chat")
    /\ TextInit /\ WireInit /\ InputInit
    /\ \/ subject = "json" /\ Init
       \/ subject # "json" /\ body = NoBody /\ result = Pending

ConversionNext ==
    /\ \/ subject = "text" /\ TextNext /\ UNCHANGED <<wireVars, jsonVars, inputVars>>
       \/ subject = "wire" /\ WireNext /\ UNCHANGED <<textVars, jsonVars, inputVars>>
       \/ subject = "json" /\ Next /\ UNCHANGED <<textVars, wireVars, inputVars>>
       \/ subject = "request" /\ InputNext /\ UNCHANGED <<textVars, wireVars, jsonVars>>
    /\ UNCHANGED subject

ConversionSpec == ConversionInit /\ [][ConversionNext]_conversionVars

-----------------------------------------------------------------------------
(* What each promises: TextChannel, EventStreamDecoder and RequestInput     *)
(* state the properties of the run that are theirs, JsonEvents its parts.   *)

\* A JSON answer becomes the same events in every shape, each call once and one terminal
\* event; what is no answer becomes an error (json.rs:16-111).
AnswerIsDecoded == EndsOnce /\ CallsComeOnce /\ ShapeIsInvisible

=============================================================================
