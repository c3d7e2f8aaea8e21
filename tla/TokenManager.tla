---------------------------- MODULE TokenManager ----------------------------
(***************************************************************************)
(* The credential of the gateway: TokenManager with the refresh call, the  *)
(* JSON file it is persisted to and reloaded from, and, as far as they can *)
(* be seen from here, the token endpoint and the operator.                 *)
(*                                                                         *)
(* Tokens are numbered as they are issued. An API key is never due, so it  *)
(* needs no case of its own. The file is both the configured source and    *)
(* credential.json_path.                                                   *)
(***************************************************************************)
EXTENDS FairLock

CONSTANTS
    Mishaps,    \* what may go wrong or interfere, a subset of MishapKinds
    MaxIssued,  \* bound: how many credentials are ever issued
    MaxCrashes  \* bound: how often the process is killed

\* "error": the endpoint cannot be reached or its answer cannot be used;
\* "timeout": the timeout around the call; "cancel": the client of a request goes
\* away; "write": the file cannot be written; "crash": the process is killed;
\* "reload": the operator logs in again and reloads the credential.
MishapKinds == {"error", "timeout", "cancel", "write", "crash", "reload"}

ASSUME TokenManagerAssumption ==
    /\ Mishaps \subseteq MishapKinds
    /\ MaxIssued \in Nat
    /\ MaxCrashes \in Nat

VARIABLES
    credential,  \* the credential in memory
    file,        \* the credential in the JSON file
    status,      \* RefreshState: refreshing, and whether there is a last_error
    refreshLock, \* the single-flight lock
    pc,          \* pc[t]: where task t stands
    held,        \* held[t]: the local credential of refresh or of a reload in t
    due,         \* the access tokens for which needs_refresh holds
    issued,      \* the number of the last credential issued
    revoked,     \* the refresh tokens that the endpoint no longer accepts
    lost,        \* history variable: an issued refresh token was dropped
    reloaded,    \* history variable: somebody logged in again or began a reload
    crashes      \* number of crashes so far

worldVars == <<due, issued, revoked, lost, reloaded, crashes>>
tokenVars == <<credential, file, status, refreshLock, pc, held, worldVars>>

-----------------------------------------------------------------------------
Credentials == [access : Nat, refresh : Nat]
Issued(n) == [access |-> n, refresh |-> n]
RefreshStates == [refreshing : BOOLEAN, error : BOOLEAN]
Calm == [refreshing |-> FALSE, error |-> FALSE]

\* Between the recheck and the end of a refresh, and its part until the answer
\* is in memory. "calling" waits for the endpoint, "granted" for its answer.
BeforeReplace == {"checked", "calling", "granted"}
Refreshing == BeforeReplace \cup {"replaced", "persisting"}
Steps == {"idle", "waiting", "fresh", "reloading", "reloaded"} \cup Refreshing

TokenInit ==
    /\ credential  = Issued(1)
    /\ file        = Issued(1)
    /\ status      = Calm
    /\ refreshLock = Unlocked
    /\ pc          = [t \in Tasks |-> "idle"]
    /\ held        = [t \in Tasks |-> Issued(1)]
    /\ due         = {}
    /\ issued      = 1
    /\ revoked     = {}
    /\ lost        = FALSE
    /\ reloaded    = FALSE
    /\ crashes     = 0

Goto(t, step) == pc' = [pc EXCEPT ![t] = step]
NeedsRefresh == credential.access \in due

-----------------------------------------------------------------------------
(* ensure_fresh and refresh. *)

\* ensure_fresh has nothing to do.
StillFresh(t) ==
    /\ pc[t] = "idle"
    /\ ~NeedsRefresh
    /\ Goto(t, "fresh")
    /\ UNCHANGED <<credential, file, status, refreshLock, held, worldVars>>

\* ensure_fresh found the token due, or an administrator calls refresh.
JoinRefresh(t) ==
    /\ pc[t] = "idle"
    /\ refreshLock' = Joined(refreshLock, t)
    /\ Goto(t, "waiting")
    /\ UNCHANGED <<credential, file, status, held, worldVars>>

\* Mutated form: the lock is not awaited.
LockIgnored(t) == TRUE

HasLock(t) == refreshLock.holder = t

\* Mutated form: no second look at the credential once the lock is held.
AlwaysRefreshes == TRUE

\* The check under the lock.
StillNeedsRefresh == NeedsRefresh

RefreshedMeanwhile(t) ==
    /\ pc[t] = "waiting"
    /\ HasLock(t)
    /\ ~StillNeedsRefresh
    /\ refreshLock' = Released(refreshLock)
    /\ Goto(t, "fresh")
    /\ UNCHANGED <<credential, file, status, held, worldVars>>

StartRefresh(t) ==
    /\ pc[t] = "waiting"
    /\ HasLock(t)
    /\ StillNeedsRefresh
    /\ status' = [status EXCEPT !.refreshing = TRUE]
    /\ Goto(t, "checked")
    /\ UNCHANGED <<credential, file, refreshLock, held, worldVars>>

\* The credential is copied, in a read of its own, and the request sent.
CallEndpoint(t) ==
    /\ pc[t] = "checked"
    /\ held' = [held EXCEPT ![t] = credential]
    /\ Goto(t, "calling")
    /\ UNCHANGED <<credential, file, status, refreshLock, worldVars>>

\* The endpoint accepts the refresh token and may rotate it, which revokes it.
Grant(t) ==
    /\ pc[t] = "calling"
    /\ held[t].refresh \notin revoked
    /\ issued < MaxIssued
    /\ issued' = issued + 1
    /\ \/ /\ held' = [held EXCEPT ![t] = Issued(issued')]
          /\ revoked' = revoked \cup {held[t].refresh}
       \/ /\ held' = [held EXCEPT ![t].access = issued']
          /\ UNCHANGED revoked
    /\ Goto(t, "granted")
    /\ UNCHANGED <<credential, file, status, refreshLock, due, lost, reloaded, crashes>>

\* The task ends before its answer is in memory: a token granted to it is lost.
GiveUp(t, lock) ==
    /\ refreshLock' = lock
    /\ lost' = (lost \/ pc[t] = "granted")
    /\ Goto(t, "idle")
    /\ UNCHANGED <<credential, file, held, due, issued, revoked, reloaded, crashes>>

\* refresh::refresh returns an error: the token is refused, or the call fails
\* before or after the endpoint has dealt with it.
RefreshFails(t) ==
    /\ \/ pc[t] = "calling" /\ held[t].refresh \in revoked
       \/ pc[t] \in {"calling", "granted"} /\ "error" \in Mishaps
    /\ status' = [refreshing |-> FALSE, error |-> TRUE]
    /\ GiveUp(t, Released(refreshLock))

\* Mutated form: a timed out refresh that leaves the lock taken.
LockKept(lock) == lock

\* The `?` behind the timeout drops the guard; it skips every status update.
LockAfterTimeout(lock) == Released(lock)

RefreshTimesOut(t) ==
    /\ "timeout" \in Mishaps
    /\ pc[t] \in {"calling", "granted"}
    /\ GiveUp(t, LockAfterTimeout(refreshLock))
    /\ UNCHANGED status

\* The request's future is dropped at one of refresh's awaits.
RequestCancelled(t) ==
    /\ "cancel" \in Mishaps
    /\ pc[t] \in {"waiting", "calling", "granted"}
    /\ GiveUp(t, Left(refreshLock, t))
    /\ UNCHANGED status

\* replace_credential, first half: a refresh's answer or a reloaded credential.
ReplaceCredential(t) ==
    /\ pc[t] \in {"granted", "reloading"}
    /\ credential' = held[t]
    /\ Goto(t, IF pc[t] = "granted" THEN "replaced" ELSE "reloaded")
    /\ UNCHANGED <<file, status, refreshLock, held, worldVars>>

\* replace_credential, second half: the model catalog is told.
InvalidateCatalog(t) ==
    /\ pc[t] \in {"replaced", "reloaded"}
    /\ Goto(t, IF pc[t] = "replaced" THEN "persisting" ELSE "idle")
    /\ UNCHANGED <<credential, file, status, refreshLock, held, worldVars>>

\* The credential is read again and written to a temporary file that is renamed.
Persist(t) ==
    /\ pc[t] = "persisting"
    /\ file' = credential
    /\ status' = Calm
    /\ refreshLock' = Released(refreshLock)
    /\ Goto(t, "fresh")
    /\ UNCHANGED <<credential, held, worldVars>>

\* Mutated form: a failed write that is not reported.
ErrorForgotten == Calm

ErrorNoted == [refreshing |-> FALSE, error |-> TRUE]

PersistFails(t) ==
    /\ "write" \in Mishaps
    /\ pc[t] = "persisting"
    /\ status' = ErrorNoted
    /\ refreshLock' = Released(refreshLock)
    /\ Goto(t, "idle")
    /\ UNCHANGED <<credential, file, held, worldVars>>

-----------------------------------------------------------------------------
(* Reload, the operator and time. *)

\* reload_credential reads its source; it takes no lock.
ReadSource(t) ==
    /\ "reload" \in Mishaps
    /\ pc[t] = "idle"
    /\ held' = [held EXCEPT ![t] = file]
    /\ Goto(t, "reloading")
    /\ reloaded' = TRUE
    /\ UNCHANGED <<credential, file, status, refreshLock, due, issued, revoked, lost, crashes>>

\* A new login puts a new credential into the file.
OperatorLogin ==
    /\ "reload" \in Mishaps
    /\ issued < MaxIssued
    /\ issued' = issued + 1
    /\ file' = Issued(issued')
    /\ reloaded' = TRUE
    /\ UNCHANGED <<credential, status, refreshLock, pc, held, due, revoked, lost, crashes>>

\* The clock comes within refresh_early_secs of an access token's expiry.
BecomesDue(access) ==
    /\ access \notin due
    /\ due' = due \cup {access}
    /\ UNCHANGED <<credential, file, status, refreshLock, pc, held, issued, revoked, lost, reloaded, crashes>>

\* The process is killed; main loads the file again.
Crash ==
    /\ "crash" \in Mishaps
    /\ crashes < MaxCrashes
    /\ crashes' = crashes + 1
    /\ lost' = (lost \/ credential # file \/ \E t \in Tasks : pc[t] = "granted")
    /\ credential' = file
    /\ status' = Calm
    /\ refreshLock' = Unlocked
    /\ pc' = [t \in Tasks |-> "idle"]
    /\ UNCHANGED <<file, held, due, issued, revoked, reloaded>>

-----------------------------------------------------------------------------
\* What the caller does next with a credential known to be fresh.
Proceed(t) ==
    /\ pc[t] = "fresh"
    /\ Goto(t, "idle")
    /\ UNCHANGED <<credential, file, status, refreshLock, held, worldVars>>

\* A call to refresh, once begun, up to its end.
RefreshStep(t) ==
    \/ RefreshedMeanwhile(t) \/ StartRefresh(t) \/ CallEndpoint(t)
    \/ Grant(t) \/ RefreshFails(t) \/ RefreshTimesOut(t)
    \/ ReplaceCredential(t) \/ Persist(t) \/ PersistFails(t)

\* What others do to it.
WorldStep ==
    \/ OperatorLogin
    \/ \E access \in {credential.access, file.access} : BecomesDue(access)

TokenNext ==
    \/ \E t \in Tasks : \/ StillFresh(t) \/ JoinRefresh(t) \/ RefreshStep(t)
                        \/ RequestCancelled(t) \/ InvalidateCatalog(t)
                        \/ ReadSource(t) \/ Proceed(t)
    \/ WorldStep \/ Crash

TokenSpec == TokenInit /\ [][TokenNext]_tokenVars

-----------------------------------------------------------------------------
TokenTypeOK ==
    /\ credential \in Credentials
    /\ file \in Credentials
    /\ status \in RefreshStates
    /\ refreshLock \in Locks
    /\ pc \in [Tasks -> Steps]
    /\ held \in [Tasks -> Credentials]
    /\ due \subseteq Nat
    /\ issued \in Nat
    /\ revoked \subseteq Nat
    /\ lost \in BOOLEAN
    /\ reloaded \in BOOLEAN
    /\ crashes \in Nat

\* One refresh at a time, and the status shows it while it runs
\* (token_manager.rs:147-158).
SingleFlight ==
    \A t \in Tasks : pc[t] \in Refreshing => HasLock(t) /\ status.refreshing

(***************************************************************************)
(* The next four speak of a credential that nobody has reloaded so far.    *)
(***************************************************************************)

\* However many tasks found the token due, the endpoint is called only while the
\* credential in memory still is (token_manager.rs:149-152).
OnlyDueIsRefreshed ==
    ~reloaded => \A t \in Tasks : pc[t] \in BeforeReplace => NeedsRefresh

\* Unless an answer was lost, the endpoint is never asked with a refresh token
\* that it has already revoked (token_manager.rs:158-172).
LiveTokenUsed ==
    ~reloaded /\ ~lost => \A t \in Tasks : pc[t] = "calling" => held[t].refresh \notin revoked

\* When the status shows neither a refresh nor an error, the file holds what is
\* in memory (token_manager.rs:176-197, persistence.rs:66).
HealthyIsSaved == ~reloaded /\ status = Calm => file = credential

\* When the status is calm and no answer was lost, a restart would load a token
\* that the endpoint still accepts (main.rs:76-79, token_manager.rs:179-187).
RestartCanRefresh == ~reloaded /\ ~lost /\ status = Calm => file.refresh \notin revoked

-----------------------------------------------------------------------------
\* README.md:441: the credential that a refresh obtained is the one written back
\* to the file.
PersistedIsRefreshed ==
    [][\A t \in Tasks : pc[t] = "persisting" /\ pc'[t] = "fresh" => file' = held[t]]_tokenVars

=============================================================================
