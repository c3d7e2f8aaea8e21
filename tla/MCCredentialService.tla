------------------------ MODULE MCCredentialService ------------------------
(* CredentialService on small instances. *)
EXTENDS CredentialService, TLC

\* Tasks differ only in name; each lock's queue orders them by arrival.
Symmetry == Permutations(Tasks)

=============================================================================
