--------------------------- MODULE TokenInvariant ---------------------------
(***************************************************************************)
(* The inductive invariant behind the properties of TokenManager: what     *)
(* always holds, and what holds until a credential is reloaded.            *)
(***************************************************************************)
EXTENDS TokenManager

\* A refresh under way, until its answer is in memory, is of a token that is due.
RefreshedIsDue == \A t \in Tasks : pc[t] \in BeforeReplace => NeedsRefresh

\* Tokens in use were issued, so the next one to be issued is new.
NumbersIssued ==
    /\ {credential.refresh, file.refresh} \cup revoked \subseteq 0..issued
    /\ \A t \in Tasks : held[t].refresh \in 0..issued

NoReload == \A t \in Tasks : pc[t] \notin {"reloading", "reloaded"}

\* A refresh works on the credential in memory, before its call and after it.
CopyCurrent ==
    \A t \in Tasks : pc[t] \in {"calling", "replaced", "persisting"} => held[t] = credential

\* The endpoint accepts what a call just obtained, and otherwise what is in memory.
MemoryLive ==
    ~lost => /\ \A t \in Tasks : pc[t] = "granted" => held[t].refresh \notin revoked
             /\ (\A t \in Tasks : pc[t] # "granted") => credential.refresh \notin revoked

\* Memory runs ahead of the file only inside a refresh or after a failed write.
FileCurrent ==
    ~status.error /\ (\A t \in Tasks : pc[t] \notin {"replaced", "persisting"})
        => file = credential

\* Everything that holds in every reachable state: the inductive invariant.
TokenIInv ==
    /\ TokenTypeOK
    /\ SingleFlight
    /\ ~reloaded =>
        /\ RefreshedIsDue
        /\ NumbersIssued
        /\ NoReload
        /\ CopyCurrent
        /\ MemoryLive
        /\ FileCurrent

=============================================================================
