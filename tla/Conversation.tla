---------------------------- MODULE Conversation ----------------------------
(***************************************************************************)
(* The body that is sent to the upstream for a list of messages:           *)
(* conversation_body of endpoint/mod.rs. The upstream takes tool calls and *)
(* their results as structures only for the round that the request         *)
(* answers; all earlier ones become text. What is sent as text keeps only  *)
(* which part it is of the messages; headings and placeholders are layout. *)
(*                                                                         *)
(* A text part is a number; a call has an id, the upstream's name of its   *)
(* tool and whether its arguments are complete; a result has a number and  *)
(* the id of the call that it answers.                                     *)
(***************************************************************************)
EXTENDS Naturals, Sequences, FiniteSets, SequencesExt

\* Message::empty
EmptyMessage(role) == [role |-> role, texts |-> <<>>, calls |-> <<>>, results |-> <<>>]

\* Message::text
TextMessage(role, text) == [EmptyMessage(role) EXCEPT !.texts = <<text>>]

IdsOf(calls) == {calls[i].id : i \in DOMAIN calls}

\* The elements of a sequence at some of its places, in order.
Picked(seq, places) ==
    [n \in 1..Cardinality(places) |->
        seq[CHOOSE i \in places : Cardinality({j \in places : j <= i}) = n]]

-----------------------------------------------------------------------------
(* active_tool_round                                                        *)

\* Mutated form: a call that was cut off, or of a tool that is not offered, is taken for one.
RoundIdsOfAll(message, declared) == IdsOf(message.calls)

\* The calls of an assistant's message that can be sent as structures.
RoundIds(message, declared) ==
    {c.id : c \in {d \in Range(message.calls) : d.complete /\ d.name \in declared}}

\* The calls that the messages after this one have results for.
AnsweredAfter(messages, i) ==
    UNION {{r.call : r \in Range(messages[j].results)} : j \in (i + 1)..Len(messages)}

\* Mutated form: one result is enough.
IsActiveRoundPartly(messages, i, declared) ==
    LET ids == RoundIds(messages[i], declared)
    IN  /\ messages[i].role = "assistant" /\ messages[i].calls # <<>>
        /\ i < Len(messages)
        /\ \A j \in (i + 1)..Len(messages) :
              messages[j].calls = <<>> /\ messages[j].results # <<>>
        /\ ids # {} /\ ids \cap AnsweredAfter(messages, i) # {}

\* Message i asks for tools, and all that follows it are results, one for each of its calls.
IsActiveRound(messages, i, declared) ==
    LET ids == RoundIds(messages[i], declared)
    IN  /\ messages[i].role = "assistant" /\ messages[i].calls # <<>>
        /\ i < Len(messages)
        /\ \A j \in (i + 1)..Len(messages) :
              messages[j].calls = <<>> /\ messages[j].results # <<>>
        /\ ids # {} /\ ids \subseteq AnsweredAfter(messages, i)

\* The last such message, or 0; without tools there is none.
ActiveToolRound(messages, declared) ==
    LET active == {i \in DOMAIN messages : IsActiveRound(messages, i, declared)}
    IN  IF declared = {} \/ messages = <<>> \/ Last(messages).results = <<>> \/ active = {}
        THEN 0 ELSE Max(active)

-----------------------------------------------------------------------------
(* conversation_body                                                        *)

\* message_to_history and history_text: everything as text.
MessageToHistory(message) ==
    [texts |-> message.texts, calls |-> message.calls, results |-> message.results,
     uses |-> <<>>]

InRound(call, ids) == call.id \in ids

\* assistant_tool_message: the calls of the round as structures, its other calls as text.
AssistantToolMessage(message, ids) ==
    [texts |-> message.texts,
     calls |-> Picked(message.calls, {i \in DOMAIN message.calls : ~InRound(message.calls[i], ids)}),
     results |-> <<>>,
     uses |-> Picked(message.calls, {i \in DOMAIN message.calls : InRound(message.calls[i], ids)})]

\* Mutated form: an active round's results are written out as well.
ActiveRoundTextOfAll(message, ids) == message.results

\* active_round_text: the results that are not of the round, as text.
ActiveRoundText(message, ids) ==
    Picked(message.results, {i \in DOMAIN message.results : message.results[i].call \notin ids})

OfRound(results, ids) == {i \in DOMAIN results : results[i].call \in ids}

\* Mutated form: every result of the round is sent.
FirstResultsAll(results, ids) == Picked(results, OfRound(results, ids))

\* The results that are sent as structures: of each call of the round the first.
FirstResults(results, ids) ==
    Picked(results, {i \in OfRound(results, ids) : \A j \in 1..(i - 1) : results[j].call # results[i].call})

\* Mutated form: the message of the round is not in the history.
CurrentStartAtRound(messages, round) ==
    IF round > 0 THEN round ELSE IF messages = <<>> THEN 1 ELSE Len(messages)

\* current_start: the first message that belongs to the current prompt, not to the history.
CurrentStart(messages, round) ==
    IF round > 0 THEN round + 1 ELSE IF messages = <<>> THEN 1 ELSE Len(messages)

\* The history, and the current prompt with the instructions and the results.
ConversationBody(messages, declared, guidance) ==
    LET round == ActiveToolRound(messages, declared)
        ids == IF round > 0 THEN RoundIds(messages[round], declared) ELSE {}
        start == CurrentStart(messages, round)
        current == SubSeq(messages, start, Len(messages))
    IN  [history |-> [i \in 1..(start - 1) |-> IF i = round
                                               THEN AssistantToolMessage(messages[i], ids)
                                               ELSE MessageToHistory(messages[i])],
         guidance |-> guidance,
         texts |-> FlattenSeq([i \in DOMAIN current |-> current[i].texts]),
         calls |-> IF round > 0 THEN <<>> ELSE FlattenSeq([i \in DOMAIN current |-> current[i].calls]),
         results |-> FlattenSeq([i \in DOMAIN current |-> IF round > 0 THEN ActiveRoundText(current[i], ids)
                                                                       ELSE current[i].results]),
         toolResults |-> FirstResults(FlattenSeq([i \in DOMAIN current |-> current[i].results]), ids)]
=============================================================================
