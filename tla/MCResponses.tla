----------------------------- MODULE MCResponses -----------------------------
(* Responses on small instances: sets of model values and their symmetry. *)
EXTENDS ResponsesInvariant, TLC

\* Requests differ only in name, and no choice depends on it.
Symmetry == Permutations(Requests)

=============================================================================
