--------------------------- MODULE MCTokenManager ---------------------------
(* TokenManager on small instances. *)
EXTENDS TokenInvariant, TLC

\* Tasks differ only in name; the lock's queue orders them by arrival.
Symmetry == Permutations(Tasks)

=============================================================================
