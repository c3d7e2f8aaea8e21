--------------------------- MODULE SingleDelivery ---------------------------
(***************************************************************************)
(* What the consumer of an upstream call may rely on, however often the    *)
(* call was tried: items come one by one, all of one attempt, until the    *)
(* stream closes; nothing is taken back, nothing comes after a failure.    *)
(***************************************************************************)
EXTENDS Sequences, Naturals

VARIABLES out,   \* the items delivered
          open   \* the stream may deliver more

Init == out = <<>> /\ open = TRUE

Newest == out'[Len(out')]

Extends ==
    /\ out' # <<>>
    /\ out' = Append(out, Newest)
    /\ \A i \in DOMAIN out : out[i].attempt = Newest.attempt

Deliver ==
    /\ open
    /\ Extends
    /\ Newest.item.kind # "failure"
    /\ UNCHANGED open

\* The last item, if any, comes with the close.
Close ==
    /\ open
    /\ open' = FALSE
    /\ out' = out \/ Extends

Next == Deliver \/ Close

Spec == Init /\ [][Next]_<<out, open>>
=============================================================================
