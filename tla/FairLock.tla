------------------------------ MODULE FairLock ------------------------------
(***************************************************************************)
(* tokio::sync::Mutex as the gateway uses it, a value with its operations: *)
(* waiters queue first come, first served, a release hands the lock to the *)
(* oldest, and a waiter or holder whose task is dropped gives up its place.*)
(***************************************************************************)
EXTENDS Naturals, Sequences, SequencesExt

CONSTANTS
    Tasks,      \* the tokio tasks that call the gateway's shared services
    Nobody      \* the holder of a lock that is free

ASSUME FairLockAssumption == Nobody \notin Tasks

Locks == [holder : Tasks \cup {Nobody}, waiters : Seq(Tasks)]
Unlocked == [holder |-> Nobody, waiters |-> <<>>]

\* Task t calls lock().
Joined(lock, t) ==
    IF lock.holder = Nobody
    THEN [lock EXCEPT !.holder = t]
    ELSE [lock EXCEPT !.waiters = Append(@, t)]

\* The holder's guard is dropped.
Released(lock) ==
    IF lock.waiters = <<>>
    THEN Unlocked
    ELSE [holder |-> Head(lock.waiters), waiters |-> Tail(lock.waiters)]

\* Task t is dropped, guard and all, wherever it stands.
Left(lock, t) ==
    IF lock.holder = t
    THEN Released(lock)
    ELSE [lock EXCEPT !.waiters = IF Contains(@, t)
                                  THEN RemoveAt(@, CHOOSE i \in DOMAIN @ : @[i] = t)
                                  ELSE @]

=============================================================================
