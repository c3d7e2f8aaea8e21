------------------------- MODULE CredentialTheorems -------------------------
(***************************************************************************)
(* TokenManager is correct for any set of tasks, any bounds and any        *)
(* mishaps; what depends on the credential in memory being the last one    *)
(* obtained is proved until somebody logs in again or reloads it. The      *)
(* catalog takes nothing away from that, and no model list is fetched in   *)
(* vain.                                                                   *)
(***************************************************************************)
EXTENDS CredentialService, TokenInvariant, TLAPS

-----------------------------------------------------------------------------
(* TokenManager. *)

\* What the operations of a lock return.
LEMMA LockOperations ==
    ASSUME NEW lock \in Locks, NEW t \in Tasks
    PROVE  /\ Joined(lock, t) \in Locks
           /\ Released(lock) \in Locks
           /\ Left(lock, t) \in Locks
<1>1. Joined(lock, t) \in Locks
  BY DEF Joined, Locks
<1>2. Released(lock) \in Locks
  BY DEF Released, Locks, Unlocked
<1>3. Left(lock, t) \in Locks
  <2>1. CASE lock.holder = t
    BY <2>1, <1>2 DEF Left
  <2>2. CASE lock.holder # t /\ ~Contains(lock.waiters, t)
    BY <2>2 DEF Left, Locks
  <2>3. CASE lock.holder # t /\ Contains(lock.waiters, t)
    <3> DEFINE i == CHOOSE i \in DOMAIN lock.waiters : lock.waiters[i] = t
    <3>1. lock.waiters \in Seq(Tasks)
      BY DEF Locks
    <3>2. \E j \in DOMAIN lock.waiters : lock.waiters[j] = t
      BY <2>3, <3>1 DEF Contains
    <3>3. i \in 1..Len(lock.waiters)
      BY <3>1, <3>2
    <3> HIDE DEF i
    <3>4. RemoveAt(lock.waiters, i) \in Seq(Tasks)
      BY <3>1, <3>3 DEF RemoveAt
    <3>5. Left(lock, t) = [lock EXCEPT !.waiters = RemoveAt(lock.waiters, i)]
      BY <2>3 DEF Left, Locks, i
    <3> QED BY <3>4, <3>5 DEF Locks
  <2> QED BY <2>1, <2>2, <2>3
<1> QED BY <1>1, <1>2, <1>3

\* Only the holder can take the lock from its holder.
LEMMA HolderStays ==
    ASSUME NEW lock \in Locks, NEW t \in Tasks
    PROVE  /\ lock.holder \in Tasks => Joined(lock, t).holder = lock.holder
           /\ lock.holder # t => Left(lock, t).holder = lock.holder
BY FairLockAssumption DEF Joined, Left, Locks

-----------------------------------------------------------------------------
\* What holds whatever happens, a reload included.
SharedInv == TokenTypeOK /\ SingleFlight

\* A free lock is a lock.
LEMMA UnlockedIsLock == Unlocked \in Locks
<1>1. <<>> \in Seq(Tasks)
  OBVIOUS
<1> QED BY <1>1 DEF Unlocked, Locks

\* What a refresh, a failure or a success makes of the status.
LEMMA StatusValues ==
    /\ Calm \in RefreshStates
    /\ [refreshing |-> FALSE, error |-> TRUE] \in RefreshStates
    /\ \A s \in RefreshStates : [s EXCEPT !.refreshing = TRUE] \in RefreshStates
<1>1. TRUE \in BOOLEAN /\ FALSE \in BOOLEAN
  OBVIOUS
<1>2. Calm \in RefreshStates
  BY <1>1 DEF Calm, RefreshStates
<1>3. [refreshing |-> FALSE, error |-> TRUE] \in RefreshStates
  BY <1>1 DEF RefreshStates
<1>4. ASSUME NEW s \in RefreshStates
      PROVE  [s EXCEPT !.refreshing = TRUE] \in RefreshStates
  BY <1>1 DEF RefreshStates
<1> QED BY <1>2, <1>3, <1>4

\* Initially no task is anywhere.
LEMMA SharedInit == TokenInit => SharedInv
<1> SUFFICES ASSUME TokenInit PROVE SharedInv
  OBVIOUS
<1>1. TokenTypeOK
  BY UnlockedIsLock, StatusValues DEF TokenInit, TokenTypeOK, Credentials, Issued, Steps
<1>2. SingleFlight
  BY DEF TokenInit, SingleFlight, Refreshing, BeforeReplace
<1> QED BY <1>1, <1>2 DEF SharedInv

\* Where a step leads is a step.
LEMMA GotoKeepsType ==
    ASSUME pc \in [Tasks -> Steps], NEW t \in Tasks, NEW step \in Steps, Goto(t, step)
    PROVE  pc' \in [Tasks -> Steps]
BY DEF Goto

\* The names of the steps.
LEMMA StepNames ==
    {"idle", "waiting", "fresh", "reloading", "reloaded", "checked", "calling", "granted",
     "replaced", "persisting"} \subseteq Steps
BY DEF Steps, Refreshing, BeforeReplace

\* Every step of every task keeps the types.
LEMMA TypesKept == TokenTypeOK /\ [TokenNext]_tokenVars => TokenTypeOK'
<1> SUFFICES ASSUME TokenTypeOK, [TokenNext]_tokenVars PROVE TokenTypeOK'
  OBVIOUS
<1> USE DEF TokenTypeOK, worldVars
<1>1. ASSUME NEW t \in Tasks, \/ StillFresh(t) \/ JoinRefresh(t) \/ RefreshedMeanwhile(t)
                              \/ StartRefresh(t) \/ CallEndpoint(t)
      PROVE  TokenTypeOK'
  <2>1. pc' \in [Tasks -> Steps]
    BY <1>1, GotoKeepsType, StepNames DEF StillFresh, JoinRefresh, RefreshedMeanwhile,
       StartRefresh, CallEndpoint
  <2>2. refreshLock' \in Locks
    BY <1>1, LockOperations DEF StillFresh, JoinRefresh, RefreshedMeanwhile, StartRefresh,
       CallEndpoint
  <2>3. status' \in RefreshStates /\ held' \in [Tasks -> Credentials]
    BY <1>1, StatusValues DEF StillFresh, JoinRefresh, RefreshedMeanwhile, StartRefresh,
       CallEndpoint
  <2> QED BY <1>1, <2>1, <2>2, <2>3 DEF StillFresh, JoinRefresh, RefreshedMeanwhile,
       StartRefresh, CallEndpoint
<1>2. ASSUME NEW t \in Tasks, Grant(t)
      PROVE  TokenTypeOK'
  <2>1. pc' \in [Tasks -> Steps]
    BY <1>2, GotoKeepsType, StepNames DEF Grant
  <2>2. issued' \in Nat
    BY <1>2 DEF Grant
  <2>3. held' \in [Tasks -> Credentials] /\ revoked' \subseteq Nat
    BY <1>2, <2>2 DEF Grant, Credentials, Issued
  <2> QED BY <1>2, <2>1, <2>2, <2>3 DEF Grant
<1>3. ASSUME NEW t \in Tasks, RefreshFails(t) \/ RefreshTimesOut(t) \/ RequestCancelled(t)
      PROVE  TokenTypeOK'
  <2>1. PICK lock \in Locks : GiveUp(t, lock)
    BY <1>3, LockOperations DEF RefreshFails, RefreshTimesOut, RequestCancelled,
       LockAfterTimeout
  <2>2. pc' \in [Tasks -> Steps]
    BY <2>1, GotoKeepsType, StepNames DEF GiveUp
  <2>3. status' \in RefreshStates
    BY <1>3, StatusValues DEF RefreshFails, RefreshTimesOut, RequestCancelled
  <2>4. lost' \in BOOLEAN
    BY <2>1 DEF GiveUp
  <2> QED BY <2>1, <2>2, <2>3, <2>4 DEF GiveUp
<1>4. ASSUME NEW t \in Tasks, ReplaceCredential(t) \/ InvalidateCatalog(t) \/ ReadSource(t) \/ Proceed(t)
      PROVE  TokenTypeOK'
  <2>1. PICK step \in Steps : Goto(t, step)
    BY <1>4, StepNames DEF ReplaceCredential, InvalidateCatalog, ReadSource, Proceed
  <2>2. pc' \in [Tasks -> Steps]
    BY <2>1, GotoKeepsType
  <2> QED BY <1>4, <2>2 DEF ReplaceCredential, InvalidateCatalog, ReadSource, Proceed
<1>5. ASSUME NEW t \in Tasks, Persist(t) \/ PersistFails(t)
      PROVE  TokenTypeOK'
  <2>1. pc' \in [Tasks -> Steps]
    BY <1>5, GotoKeepsType, StepNames DEF Persist, PersistFails
  <2>2. refreshLock' \in Locks
    BY <1>5, LockOperations DEF Persist, PersistFails
  <2> QED BY <1>5, <2>1, <2>2, StatusValues DEF Persist, PersistFails, ErrorNoted
<1>6. ASSUME WorldStep PROVE TokenTypeOK'
  <2>1. CASE OperatorLogin
    BY <2>1 DEF OperatorLogin, Credentials, Issued
  <2>2. ASSUME NEW access \in {credential.access, file.access}, BecomesDue(access)
        PROVE  TokenTypeOK'
    BY <2>2 DEF BecomesDue, Credentials
  <2> QED BY <1>6, <2>1, <2>2 DEF WorldStep
<1>7. ASSUME Crash PROVE TokenTypeOK'
  <2>1. pc' \in [Tasks -> Steps]
    BY <1>7, StepNames DEF Crash
  <2>2. lost' \in BOOLEAN
    BY <1>7 DEF Crash
  <2> QED BY <1>7, <2>1, <2>2, UnlockedIsLock, StatusValues DEF Crash
<1>8. ASSUME UNCHANGED tokenVars PROVE TokenTypeOK'
  BY <1>8 DEF tokenVars
<1> QED BY <1>1, <1>2, <1>3, <1>4, <1>5, <1>6, <1>7, <1>8 DEF TokenNext, RefreshStep

\* Only the holder of the lock is ever inside a refresh, and the flag stays set.
LEMMA SingleFlightKept == SharedInv /\ [TokenNext]_tokenVars => SingleFlight'
<1> SUFFICES ASSUME SharedInv, [TokenNext]_tokenVars, NEW u \in Tasks, pc'[u] \in Refreshing
             PROVE  refreshLock'.holder = u /\ status'.refreshing
  BY DEF SingleFlight, HasLock
<1> USE DEF SharedInv, SingleFlight, HasLock, worldVars, Goto
<1>0. /\ refreshLock \in Locks
      /\ pc \in [Tasks -> Steps]
      /\ status \in RefreshStates
  BY DEF TokenTypeOK
<1>1. ASSUME NEW t \in Tasks, \/ StillFresh(t) \/ JoinRefresh(t) \/ RefreshedMeanwhile(t)
                              \/ StartRefresh(t) \/ CallEndpoint(t)
      PROVE  refreshLock'.holder = u /\ status'.refreshing
  <2>1. CASE StillFresh(t) \/ JoinRefresh(t)
    BY <1>0, <2>1, HolderStays DEF StillFresh, JoinRefresh, Refreshing, BeforeReplace
  <2>2. CASE RefreshedMeanwhile(t)
    BY <1>0, <2>2 DEF RefreshedMeanwhile, Refreshing, BeforeReplace
  <2>3. CASE StartRefresh(t)
    BY <1>0, <2>3 DEF StartRefresh, Refreshing, BeforeReplace, RefreshStates
  <2>4. CASE CallEndpoint(t)
    BY <1>0, <2>4 DEF CallEndpoint, Refreshing, BeforeReplace
  <2> QED BY <1>1, <2>1, <2>2, <2>3, <2>4
<1>2. ASSUME NEW t \in Tasks, RefreshFails(t) \/ RefreshTimesOut(t) \/ Persist(t) \/ PersistFails(t)
      PROVE  refreshLock'.holder = u /\ status'.refreshing
  BY <1>0, <1>2 DEF RefreshFails, RefreshTimesOut, GiveUp, Persist, PersistFails, Refreshing,
     BeforeReplace
<1>3. ASSUME NEW t \in Tasks, RequestCancelled(t)
      PROVE  refreshLock'.holder = u /\ status'.refreshing
  BY <1>0, <1>3, HolderStays DEF RequestCancelled, GiveUp, Refreshing, BeforeReplace
<1>4. ASSUME NEW t \in Tasks, \/ Grant(t) \/ ReplaceCredential(t) \/ InvalidateCatalog(t)
                              \/ ReadSource(t) \/ Proceed(t)
      PROVE  refreshLock'.holder = u /\ status'.refreshing
  BY <1>0, <1>4 DEF Grant, ReplaceCredential, InvalidateCatalog, ReadSource, Proceed,
     Refreshing, BeforeReplace
<1>5. ASSUME WorldStep PROVE refreshLock'.holder = u /\ status'.refreshing
  BY <1>5 DEF WorldStep, OperatorLogin, BecomesDue
<1>6. CASE Crash
  BY <1>6 DEF Crash, Refreshing, BeforeReplace
<1>7. CASE UNCHANGED tokenVars
  BY <1>7 DEF tokenVars
<1> QED BY <1>1, <1>2, <1>3, <1>4, <1>5, <1>6, <1>7 DEF TokenNext, RefreshStep

\* Types and single flight are invariant.
THEOREM SharedInvariant == TokenSpec => []SharedInv
<1>1. SharedInv /\ [TokenNext]_tokenVars => SharedInv'
  BY TypesKept, SingleFlightKept DEF SharedInv
<1> QED BY <1>1, SharedInit, PTL DEF TokenSpec

\* Every variable keeps its type.
THEOREM TokenTypesHold == TokenSpec => []TokenTypeOK
<1>1. SharedInv => TokenTypeOK
  BY DEF SharedInv
<1> QED BY <1>1, SharedInvariant, PTL

\* One refresh at a time, visible in the status, although any task may time out or
\* be cancelled holding the lock (token_manager.rs:147-158).
THEOREM SingleFlightHolds == TokenSpec => []SingleFlight
<1>1. SharedInv => SingleFlight
  BY DEF SharedInv
<1> QED BY <1>1, SharedInvariant, PTL

-----------------------------------------------------------------------------
\* What else holds until a credential is reloaded, without what SharedInv says.
DataInv ==
    RefreshedIsDue /\ NumbersIssued /\ NoReload /\ CopyCurrent /\ MemoryLive /\ FileCurrent

\* Initially memory and file agree, and every token is live.
LEMMA DataInit == TokenInit => DataInv
BY DEF TokenInit, DataInv, RefreshedIsDue, NumbersIssued, NoReload, CopyCurrent,
       MemoryLive, FileCurrent, Issued, Calm, BeforeReplace

\* Two tasks are never in a refresh together.
LEMMA OneRefresh ==
    ASSUME SharedInv, NEW t \in Tasks, NEW u \in Tasks, pc[t] \in Refreshing, pc[u] \in Refreshing
    PROVE  t = u
BY DEF SharedInv, SingleFlight, HasLock

\* Looking for a token, starting a refresh and leaving it early: neither the
\* credential nor the file changes, nor what the endpoint accepts.
LEMMA QuietStepsKeepData ==
    ASSUME SharedInv, DataInv, NEW t \in Tasks,
           \/ StillFresh(t) \/ JoinRefresh(t) \/ RefreshedMeanwhile(t) \/ StartRefresh(t)
           \/ CallEndpoint(t) \/ Proceed(t)
    PROVE  DataInv'
<1> USE DEF DataInv, Goto, worldVars
<1>0. pc \in [Tasks -> Steps] /\ held \in [Tasks -> Credentials] /\ status \in RefreshStates
  BY DEF SharedInv, TokenTypeOK
<1>1. /\ UNCHANGED <<credential, file, due, issued, revoked, lost>>
      /\ status'.error = status.error
      /\ \E step : Goto(t, step)
      /\ pc'[t] \notin {"granted", "replaced", "persisting", "reloading", "reloaded"}
      /\ pc[t] \notin {"granted", "replaced", "persisting"}
      /\ pc'[t] \in BeforeReplace => NeedsRefresh
      /\ held' = held \/ held' = [held EXCEPT ![t] = credential]
      /\ pc'[t] = "calling" => held'[t] = credential
  BY <1>0 DEF StillFresh, JoinRefresh, RefreshedMeanwhile, StartRefresh, CallEndpoint, Proceed,
     RefreshedIsDue, StillNeedsRefresh, BeforeReplace, RefreshStates
<1>2. RefreshedIsDue'
  BY <1>0, <1>1 DEF RefreshedIsDue, NeedsRefresh
<1>3. NumbersIssued' /\ NoReload'
  BY <1>0, <1>1 DEF NumbersIssued, NoReload
<1>4. CopyCurrent'
  BY <1>0, <1>1 DEF CopyCurrent
<1>5. MemoryLive' /\ FileCurrent'
  BY <1>0, <1>1 DEF MemoryLive, FileCurrent
<1> QED BY <1>2, <1>3, <1>4, <1>5

\* The endpoint's answer is new, so it was not revoked before.
LEMMA GrantKeepsData ==
    ASSUME SharedInv, DataInv, NEW t \in Tasks, Grant(t)
    PROVE  DataInv'
<1> USE DEF DataInv, Goto, Grant
<1>0. /\ pc \in [Tasks -> Steps] /\ held \in [Tasks -> Credentials]
      /\ issued \in Nat /\ credential \in Credentials /\ file \in Credentials
  BY DEF SharedInv, TokenTypeOK
<1>1. \A u \in Tasks \ {t} : pc[u] \notin Refreshing
  BY OneRefresh DEF Refreshing, BeforeReplace
<1>2. RefreshedIsDue'
  BY <1>0, <1>1 DEF RefreshedIsDue, NeedsRefresh, BeforeReplace, Refreshing
<1>3. /\ held'[t].refresh \in {held[t].refresh, issued'}
      /\ held'[t].refresh = issued' \/ revoked' = revoked
      /\ \A u \in Tasks \ {t} : held'[u] = held[u]
      /\ revoked' \subseteq revoked \cup {held[t].refresh}
  BY <1>0 DEF Credentials, Issued
<1>4. NumbersIssued'
  BY <1>0, <1>3 DEF NumbersIssued, Credentials
<1>5. NoReload' /\ CopyCurrent'
  BY <1>0, <1>1 DEF NoReload, CopyCurrent, Refreshing, BeforeReplace
<1>6. MemoryLive'
  <2>1. held'[t].refresh \notin revoked'
    BY <1>0, <1>3 DEF NumbersIssued, Credentials
  <2> QED BY <1>0, <1>1, <2>1 DEF MemoryLive, Refreshing, BeforeReplace
<1>7. FileCurrent'
  BY <1>0, <1>1 DEF FileCurrent, Refreshing, BeforeReplace
<1> QED BY <1>2, <1>4, <1>5, <1>6, <1>7

\* A refresh that ends without its answer loses what it was granted, and no more.
LEMMA GivingUpKeepsData ==
    ASSUME SharedInv, DataInv, NEW t \in Tasks,
           RefreshFails(t) \/ RefreshTimesOut(t) \/ RequestCancelled(t)
    PROVE  DataInv'
<1> USE DEF DataInv, Goto
<1>0. pc \in [Tasks -> Steps] /\ status \in RefreshStates
  BY DEF SharedInv, TokenTypeOK
<1>1. /\ UNCHANGED <<credential, file, held, due, issued, revoked>>
      /\ lost' = (lost \/ pc[t] = "granted")
      /\ pc' = [pc EXCEPT ![t] = "idle"]
      /\ pc[t] \in {"waiting", "calling", "granted"}
      /\ status'.error \/ status' = status
  BY DEF RefreshFails, RefreshTimesOut, RequestCancelled, GiveUp
<1>2. RefreshedIsDue'
  BY <1>0, <1>1 DEF RefreshedIsDue, NeedsRefresh, BeforeReplace
<1>3. NumbersIssued' /\ NoReload' /\ CopyCurrent'
  BY <1>0, <1>1 DEF NumbersIssued, NoReload, CopyCurrent
<1>4. MemoryLive'
  BY <1>0, <1>1 DEF MemoryLive
<1>5. FileCurrent'
  BY <1>0, <1>1 DEF FileCurrent
<1> QED BY <1>2, <1>3, <1>4, <1>5

\* The answer, still live, becomes the credential in memory and then the file.
LEMMA SuccessKeepsData ==
    ASSUME SharedInv, DataInv, NEW t \in Tasks,
           ReplaceCredential(t) \/ InvalidateCatalog(t) \/ Persist(t) \/ PersistFails(t)
    PROVE  DataInv'
<1> USE DEF DataInv, Goto, worldVars
<1>0. pc \in [Tasks -> Steps] /\ held \in [Tasks -> Credentials]
  BY DEF SharedInv, TokenTypeOK
<1>1. \A u \in Tasks \ {t} : pc[u] \notin Refreshing
  BY OneRefresh DEF ReplaceCredential, InvalidateCatalog, Persist, PersistFails, NoReload,
     Refreshing, BeforeReplace
<1>2. CASE ReplaceCredential(t)
  <2>1. pc[t] = "granted" /\ pc' = [pc EXCEPT ![t] = "replaced"]
    BY <1>0, <1>2 DEF ReplaceCredential, NoReload
  <2> QED BY <1>0, <1>1, <1>2, <2>1 DEF ReplaceCredential, RefreshedIsDue, NumbersIssued,
          NoReload, CopyCurrent, MemoryLive, FileCurrent, Refreshing, BeforeReplace
<1>3. CASE InvalidateCatalog(t)
  <2>1. pc[t] = "replaced" /\ pc' = [pc EXCEPT ![t] = "persisting"]
    BY <1>0, <1>3 DEF InvalidateCatalog, NoReload
  <2> QED BY <1>0, <1>1, <1>3, <2>1 DEF InvalidateCatalog, RefreshedIsDue, NeedsRefresh,
          NumbersIssued, NoReload, CopyCurrent, MemoryLive, FileCurrent, Refreshing,
          BeforeReplace
<1>4. CASE Persist(t)
  BY <1>0, <1>1, <1>4 DEF Persist, RefreshedIsDue, NeedsRefresh, NumbersIssued, NoReload,
     CopyCurrent, MemoryLive, FileCurrent, Refreshing, BeforeReplace
<1>5. CASE PersistFails(t)
  BY <1>0, <1>1, <1>5 DEF PersistFails, ErrorNoted, RefreshedIsDue, NeedsRefresh,
     NumbersIssued, NoReload, CopyCurrent, MemoryLive, FileCurrent, Refreshing, BeforeReplace
<1> QED BY <1>2, <1>3, <1>4, <1>5

\* Time only makes more tokens due, and a restart begins with the file.
LEMMA WorldKeepsData ==
    ASSUME SharedInv, DataInv, WorldStep \/ Crash, ~reloaded'
    PROVE  DataInv'
<1> USE DEF DataInv
<1>1. CASE WorldStep
  <2>1. PICK access : BecomesDue(access)
    BY <1>1 DEF WorldStep, OperatorLogin
  <2> QED BY <2>1 DEF BecomesDue, RefreshedIsDue, NeedsRefresh, NumbersIssued, NoReload,
          CopyCurrent, MemoryLive, FileCurrent
<1>2. CASE Crash
  <2>1. \A t \in Tasks : pc'[t] = "idle"
    BY <1>2 DEF Crash
  <2>2. ~lost' => credential = file /\ ~lost /\ \A t \in Tasks : pc[t] # "granted"
    <3>1. lost' = (lost \/ credential # file \/ \E t \in Tasks : pc[t] = "granted")
      BY <1>2 DEF Crash
    <3> QED BY <3>1, Zenon
  <2>3. MemoryLive'
    BY <1>2, <2>1, <2>2 DEF Crash, MemoryLive
  <2> QED BY <1>2, <2>1, <2>3 DEF Crash, RefreshedIsDue, NumbersIssued, NoReload,
          CopyCurrent, FileCurrent, BeforeReplace
<1> QED BY <1>1, <1>2

\* Once reloaded, always reloaded: a history variable.
LEMMA ReloadedStays == SharedInv /\ [TokenNext]_tokenVars /\ reloaded => reloaded'
BY DEF TokenNext, RefreshStep, StillFresh, JoinRefresh, RefreshedMeanwhile, StartRefresh,
       CallEndpoint, Grant, RefreshFails, RefreshTimesOut, RequestCancelled, GiveUp,
       ReplaceCredential, InvalidateCatalog, Persist, PersistFails, ReadSource, Proceed,
       WorldStep, OperatorLogin, BecomesDue, Crash, tokenVars, worldVars

\* TokenIInv is invariant: no step but a reload or a login breaks what depends on
\* the credential being the last one obtained.
THEOREM TokenInvariantHolds == TokenSpec => []TokenIInv
<1> DEFINE Inv == ~reloaded => DataInv
<1>1. TokenIInv <=> SharedInv /\ Inv
  BY DEF TokenIInv, SharedInv, DataInv
<1>2. SharedInv /\ Inv /\ [TokenNext]_tokenVars => Inv'
  <2> SUFFICES ASSUME SharedInv, Inv, [TokenNext]_tokenVars, ~reloaded' PROVE DataInv'
    OBVIOUS
  <2>1. DataInv
    BY ReloadedStays
  <2>2. ASSUME NEW t \in Tasks, ReadSource(t) PROVE DataInv'
    BY <2>2 DEF ReadSource
  <2>3. CASE UNCHANGED tokenVars
    BY <2>1, <2>3 DEF tokenVars, worldVars, DataInv, RefreshedIsDue, NeedsRefresh,
       NumbersIssued, NoReload, CopyCurrent, MemoryLive, FileCurrent
  <2> QED BY <2>1, <2>2, <2>3, QuietStepsKeepData, GrantKeepsData, GivingUpKeepsData,
          SuccessKeepsData, WorldKeepsData DEF TokenNext, RefreshStep
<1>3. TokenInit => Inv
  BY DataInit
<1> HIDE DEF Inv
<1>4. TokenSpec => []Inv
  BY <1>2, <1>3, SharedInvariant, PTL DEF TokenSpec
<1> QED BY <1>1, <1>4, SharedInvariant, PTL

\* Until the first reload, the endpoint is called only for a token that is due.
THEOREM OnlyDueIsRefreshedHolds == TokenSpec => []OnlyDueIsRefreshed
<1>1. TokenIInv => OnlyDueIsRefreshed
  BY DEF TokenIInv, OnlyDueIsRefreshed, RefreshedIsDue
<1> QED BY <1>1, TokenInvariantHolds, PTL

\* Until then, no refresh token is used twice unless an answer was lost.
THEOREM LiveTokenUsedHolds == TokenSpec => []LiveTokenUsed
<1>1. TokenIInv => LiveTokenUsed
  <2> SUFFICES ASSUME TokenIInv, ~reloaded, ~lost, NEW t \in Tasks, pc[t] = "calling"
               PROVE  held[t].refresh \notin revoked
    BY DEF LiveTokenUsed
  <2>1. ASSUME NEW u \in Tasks, pc[u] = "granted" PROVE FALSE
    <3>1. SharedInv /\ pc[t] \in Refreshing /\ pc[u] \in Refreshing
      BY <2>1 DEF TokenIInv, SharedInv, Refreshing, BeforeReplace
    <3>2. t = u
      BY <3>1, OneRefresh
    <3> QED BY <2>1, <3>2
  <2> QED BY <2>1 DEF TokenIInv, MemoryLive, CopyCurrent
<1> QED BY <1>1, TokenInvariantHolds, PTL

\* Until then, a calm status means that memory is saved.
THEOREM HealthyIsSavedHolds == TokenSpec => []HealthyIsSaved
<1>1. TokenIInv => HealthyIsSaved
  BY DEF TokenIInv, HealthyIsSaved, SingleFlight, FileCurrent, Calm, Refreshing
<1> QED BY <1>1, TokenInvariantHolds, PTL

\* Until then, a calm status means that a restart can refresh, unless an answer
\* was lost.
THEOREM RestartCanRefreshHolds == TokenSpec => []RestartCanRefresh
<1>1. TokenIInv => RestartCanRefresh
  BY DEF TokenIInv, RestartCanRefresh, SingleFlight, FileCurrent, MemoryLive, Calm, Refreshing,
     BeforeReplace
<1> QED BY <1>1, TokenInvariantHolds, PTL

-----------------------------------------------------------------------------
(* The composition with the catalog. *)

\* Every step of the composition is a step of TokenManager or leaves it alone.
THEOREM ServiceIsTokenManager == Spec => TokenSpec
<1>1. Init => TokenInit
  BY DEF Init
<1>2. ASSUME [Next]_vars PROVE [TokenNext]_tokenVars
  <2>1. ASSUME NEW t \in Tasks, \/ TokenStep(t) \/ CredentialReplaced(t) \/ UseForUpstream(t)
                                \/ AvailableModels(t) \/ CatalogStep(t)
        PROVE  [TokenNext]_tokenVars
    BY <2>1 DEF TokenStep, CredentialReplaced, UseForUpstream, AvailableModels, CatalogStep,
       TokenNext
  <2> QED BY <1>2, <2>1 DEF Next, vars, ServiceCrash, TokenNext
<1> QED BY <1>1, <1>2, PTL DEF Spec, TokenSpec

\* One refresh at a time, with the catalog between the calls as well.
THEOREM ServiceSingleFlight == Spec => []SingleFlight
BY ServiceIsTokenManager, SingleFlightHolds, PTL

-----------------------------------------------------------------------------
\* The invariant of the catalog.
CatalogInv == CatalogTypeOK /\ FetchIsNeeded

\* Initially nothing is cached and nobody fetches.
LEMMA CatalogInitially == CatalogInit => CatalogInv
BY UnlockedIsLock DEF CatalogInit, CatalogInv, CatalogTypeOK, FetchIsNeeded, NoEntry, InFetch

\* A task that waits, fetches or is done keeps the others from fetching.
LEMMA GetKeepsCatalog ==
    ASSUME CatalogInv, NEW t \in Tasks, GetStep(t) \/ GetCancelled(t)
    PROVE  CatalogInv'
<1> USE DEF CatalogInv, CatalogTypeOK, Step
<1>1. CASE FetchedMeanwhile(t)
  <2>1. fetchLock' \in Locks
    BY <1>1, LockOperations DEF FetchedMeanwhile
  <2>2. FetchIsNeeded'
    BY <1>1 DEF FetchedMeanwhile, FetchIsNeeded, InFetch
  <2> QED BY <1>1, <2>1, <2>2 DEF FetchedMeanwhile
<1>2. CASE StartFetch(t)
  BY <1>2 DEF StartFetch, CachedMeanwhile, FetchIsNeeded, InFetch
<1>3. CASE FirstRegionForbids(t)
  BY <1>3 DEF FirstRegionForbids, FetchIsNeeded, InFetch
<1>4. CASE FetchEnds(t)
  <2>1. fetchLock' \in Locks
    BY <1>4, LockOperations DEF FetchEnds
  <2>2. cache' \in [result : Results \cup {"none"}, access : Nat]
    BY <1>4 DEF FetchEnds, Entry
  <2>3. FetchIsNeeded'
    BY <1>4 DEF FetchEnds, FetchIsNeeded, InFetch
  <2> QED BY <1>4, <2>1, <2>2, <2>3 DEF FetchEnds
<1>5. CASE GetCancelled(t)
  <2>1. fetchLock' \in Locks
    BY <1>5, LockOperations DEF GetCancelled
  <2>2. FetchIsNeeded'
    BY <1>5, HolderStays DEF GetCancelled, FetchIsNeeded, InFetch
  <2> QED BY <1>5, <2>1, <2>2 DEF GetCancelled
<1> QED BY <1>1, <1>2, <1>3, <1>4, <1>5 DEF GetStep

\* A request that joins the queue takes the lock from nobody.
LEMMA AvailableModelsKeepsCatalog ==
    ASSUME CatalogInv, TokenTypeOK, NEW t \in Tasks, AvailableModels(t)
    PROVE  CatalogInv'
<1> USE DEF CatalogInv, CatalogTypeOK, Step
<1>1. CASE GetCached(t)
  BY <1>1 DEF GetCached, catalogVars, FetchIsNeeded
<1>2. CASE GetMissed(t, credential.access)
  <2>1. fetchLock' \in Locks
    BY <1>2, LockOperations DEF GetMissed
  <2>2. using' \in [Tasks -> Nat]
    BY <1>2 DEF GetMissed, TokenTypeOK, Credentials
  <2>3. FetchIsNeeded'
    <3>1. fetchLock.holder \in Tasks => fetchLock'.holder = fetchLock.holder
      BY <1>2, HolderStays DEF GetMissed
    <3> QED BY <1>2, <3>1 DEF GetMissed, FetchIsNeeded, InFetch
  <2> QED BY <1>2, <2>1, <2>2, <2>3 DEF GetMissed
<1> QED BY <1>1, <1>2 DEF AvailableModels

\* Emptying the cache, from wherever, makes every fetch needed.
LEMMA EmptyingKeepsCatalog ==
    ASSUME CatalogInv, Invalidate \/ EntryExpires \/ ServiceCrash
    PROVE  CatalogInv'
<1> USE DEF CatalogInv, CatalogTypeOK, NoEntry
<1>1. CASE Invalidate \/ EntryExpires
  BY <1>1 DEF Invalidate, EntryExpires, FetchIsNeeded
<1>2. CASE ServiceCrash
  BY <1>2, UnlockedIsLock DEF ServiceCrash, FetchIsNeeded, InFetch
<1> QED BY <1>1, <1>2

\* A model list is fetched by one task at a time and only while none is cached,
\* for any number of tasks, reloads, cancellations and expiries
\* (model_catalog.rs:81-88).
THEOREM FetchIsNeededHolds == Spec => []FetchIsNeeded
<1>1. Init => CatalogInv
  BY CatalogInitially DEF Init
<1>2. CatalogInv /\ TokenTypeOK /\ [Next]_vars => CatalogInv'
  <2> SUFFICES ASSUME CatalogInv, TokenTypeOK, [Next]_vars PROVE CatalogInv'
    OBVIOUS
  <2>1. CASE UNCHANGED catalogVars
    BY <2>1 DEF catalogVars, CatalogInv, CatalogTypeOK, FetchIsNeeded
  <2> QED BY <2>1, GetKeepsCatalog, AvailableModelsKeepsCatalog, EmptyingKeepsCatalog
          DEF Next, vars, TokenStep, CredentialReplaced, UseForUpstream, CatalogStep
<1>3. Spec => []TokenTypeOK
  BY ServiceIsTokenManager, TokenTypesHold, PTL
<1>4. CatalogInv => FetchIsNeeded
  BY DEF CatalogInv
<1> QED BY <1>1, <1>2, <1>3, <1>4, PTL DEF Spec

=============================================================================
