----------------------------- MODULE TextChannel -----------------------------
(***************************************************************************)
(* The text of one answer on its way through XmlLeakFilter: pushed in      *)
(* chunks as the upstream cuts them, then finished.                        *)
(***************************************************************************)
EXTENDS XmlLeakFilter

CONSTANTS TextChunks,  \* the chunks that may arrive
          MaxText      \* bound on the text of an answer

ASSUME ChunkAssumption == TextChunks \subseteq Seq(STRING)

VARIABLES textIn,       \* everything pushed
          textPending,  \* XmlLeakFilter.pending
          textOut,      \* everything handed on
          textFinished

textVars == <<textIn, textPending, textOut, textFinished>>

TextInit == textIn = <<>> /\ textPending = <<>> /\ textOut = <<>> /\ textFinished = FALSE

PushText(chunk) ==
    /\ ~textFinished
    /\ Len(textIn) + Len(chunk) <= MaxText
    /\ textIn' = textIn \o chunk
    /\ LET step == FilterPush(textPending, chunk)
       IN  textPending' = step.pending /\ textOut' = textOut \o step.output
    /\ UNCHANGED textFinished

FinishText ==
    /\ ~textFinished
    /\ textFinished' = TRUE
    /\ LET step == FilterFinish(textPending)
       IN  textPending' = step.pending /\ textOut' = textOut \o step.output
    /\ UNCHANGED textIn

TextDone == textFinished /\ UNCHANGED textVars

TextNext == (\E chunk \in TextChunks : PushText(chunk)) \/ FinishText \/ TextDone

TextSpec == TextInit /\ [][TextNext]_textVars

-----------------------------------------------------------------------------
(* What the filter must do, said of the whole text instead of its chunks:   *)
(* the characters inside a marker go, all others stay, in order.            *)

Occurrences(text) ==
    {o \in (DOMAIN text) \X KiroMarkers : IsPrefix(o[2], SubSeq(text, o[1], Len(text)))}
Covered(text) == UNION {o[1]..(o[1] + Len(o[2]) - 1) : o \in Occurrences(text)}
WithoutMarkers(text) ==
    LET covered == Covered(text)
        upTo[i \in 0..Len(text)] ==
            IF i = 0 THEN <<>>
            ELSE IF i \in covered THEN upTo[i - 1] ELSE Append(upTo[i - 1], text[i])
    IN  upTo[Len(text)]

\* However the text was cut, what was handed on and what is pending are the text
\* without its markers, and at the end nothing is pending (truncation.rs:33).
ChunkingIsInvisible ==
    /\ textOut \o textPending = WithoutMarkers(textIn)
    /\ textFinished => textPending = <<>>

\* Text is held back only while it can still become a marker, so what a client of
\* a stream waits for is always shorter than one (truncation.rs:45).
HeldBackIsPartialMarker ==
    textPending # <<>> => IsStartOfMarker(textPending) /\ textPending \notin KiroMarkers

\* However a text is cut, its markers are removed and nothing else, and less than a marker
\* is held back (truncation.rs:33-66).
FilterIsExact == ChunkingIsInvisible /\ HeldBackIsPartialMarker
=============================================================================
