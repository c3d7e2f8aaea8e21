---------------------------- MODULE XmlLeakFilter ----------------------------
(***************************************************************************)
(* XmlLeakFilter (transform/truncation.rs): removes the markers of leaked  *)
(* tool calls from a text that comes in chunks.  A text is a sequence of   *)
(* characters; the filter's state is the pending text.                     *)
(***************************************************************************)
EXTENDS Sequences, Naturals, SequencesExt

CONSTANT KiroMarkers    \* KIRO_MARKERS

\* No marker is the start of another, and each has its only "<" in front, so that
\* looking at the pending text character by character is as good as searching
\* for the next "<".
ASSUME MarkerAssumption ==
    /\ KiroMarkers \subseteq Seq(STRING)
    /\ \A m \in KiroMarkers :
           m # <<>> /\ \A i \in DOMAIN m : (m[i] = "<") = (i = 1)
    /\ \A m, n \in KiroMarkers : IsPrefix(m, n) => m = n

IsStartOfMarker(text) == \E m \in KiroMarkers : IsPrefix(text, m)
MarkerAt(text) == {m \in KiroMarkers : IsPrefix(m, text)}

\* The loop of drain over what is pending.
\* Mutated form: a partial marker is not waited for.
ImpatientDrain(final, pending) ==
    LET from[text \in Seq(STRING)] ==
            IF text = <<>>
              THEN [output |-> <<>>, pending |-> text]
              ELSE IF MarkerAt(text) # {}
                THEN LET m == CHOOSE m \in MarkerAt(text) : TRUE
                     IN  from[SubSeq(text, Len(m) + 1, Len(text))]
                ELSE LET rest == from[Tail(text)]
                     IN  [rest EXCEPT !.output = <<Head(text)>> \o @]
    IN  from[pending]
\* Mutated form: everything from the first "<" on is waited for.
TimidDrain(final, pending) ==
    LET from[text \in Seq(STRING)] ==
            IF text = <<>> \/ (~final /\ MarkerAt(text) = {} /\ Head(text) = "<")
              THEN [output |-> <<>>, pending |-> text]
              ELSE IF MarkerAt(text) # {}
                THEN LET m == CHOOSE m \in MarkerAt(text) : TRUE
                     IN  from[SubSeq(text, Len(m) + 1, Len(text))]
                ELSE LET rest == from[Tail(text)]
                     IN  [rest EXCEPT !.output = <<Head(text)>> \o @]
    IN  from[pending]
Drain(final, pending) ==
    LET from[text \in Seq(STRING)] ==
            IF text = <<>>
              THEN [output |-> <<>>, pending |-> text]
              ELSE IF MarkerAt(text) # {}
                THEN LET m == CHOOSE m \in MarkerAt(text) : TRUE
                     IN  from[SubSeq(text, Len(m) + 1, Len(text))]
                ELSE IF ~final /\ IsStartOfMarker(text)
                  THEN [output |-> <<>>, pending |-> text]
                  ELSE LET rest == from[Tail(text)]
                       IN  [rest EXCEPT !.output = <<Head(text)>> \o @]
    IN  from[pending]

FilterPush(pending, input) == Drain(FALSE, pending \o input)
FilterFinish(pending) == Drain(TRUE, pending)
=============================================================================
