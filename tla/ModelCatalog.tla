---------------------------- MODULE ModelCatalog ----------------------------
(***************************************************************************)
(* The model catalog: one cached result of ListAvailableModels and the     *)
(* lock under which it is fetched. Model lists are not told apart; what is *)
(* kept of a result is whether it is one, and whose access token asked.    *)
(***************************************************************************)
EXTENDS FairLock

VARIABLES
    cache,      \* the cached result, NoEntry also when its TTL has passed
    fetchLock,  \* refresh_lock of the catalog
    at,         \* at[t]: where task t stands in get
    using       \* using[t]: the access token get was called with

catalogVars == <<cache, fetchLock, at, using>>

-----------------------------------------------------------------------------
Results == {"models", "error"}
NoEntry == [result |-> "none", access |-> 0]
Entry(result, access) == [result |-> result, access |-> access]

\* Mutated form: nothing counts as cached any more once the lock was awaited.
NeverCached == FALSE

\* The look at the cache under the lock.
CachedMeanwhile == cache # NoEntry

\* Fetching from the first or the second region.
InFetch == {"first region", "second region"}

CatalogInit ==
    /\ cache     = NoEntry
    /\ fetchLock = Unlocked
    /\ at        = [t \in Tasks |-> "idle"]
    /\ using     = [t \in Tasks |-> 0]

Step(t, step) == at' = [at EXCEPT ![t] = step]

-----------------------------------------------------------------------------
\* get answers from the cache.
GetCached(t) ==
    /\ at[t] = "idle"
    /\ cache # NoEntry
    /\ UNCHANGED catalogVars

GetMissed(t, access) ==
    /\ at[t] = "idle"
    /\ cache = NoEntry
    /\ using' = [using EXCEPT ![t] = access]
    /\ fetchLock' = Joined(fetchLock, t)
    /\ Step(t, "waiting")
    /\ UNCHANGED cache

\* Another task filled the cache while this one waited for the lock.
FetchedMeanwhile(t) ==
    /\ at[t] = "waiting"
    /\ fetchLock.holder = t
    /\ CachedMeanwhile
    /\ fetchLock' = Released(fetchLock)
    /\ Step(t, "idle")
    /\ UNCHANGED <<cache, using>>

StartFetch(t) ==
    /\ at[t] = "waiting"
    /\ fetchLock.holder = t
    /\ ~CachedMeanwhile
    /\ Step(t, "first region")
    /\ UNCHANGED <<cache, fetchLock, using>>

\* The first region answers 403.
FirstRegionForbids(t) ==
    /\ at[t] = "first region"
    /\ Step(t, "second region")
    /\ UNCHANGED <<cache, fetchLock, using>>

\* Models, or an error of the second region or any but 403 of the first: either
\* result is cached.
FetchEnds(t) ==
    /\ at[t] \in InFetch
    /\ \E result \in Results : cache' = Entry(result, using[t])
    /\ fetchLock' = Released(fetchLock)
    /\ Step(t, "idle")
    /\ UNCHANGED using

\* The request is dropped while get awaits.
GetCancelled(t) ==
    /\ at[t] # "idle"
    /\ fetchLock' = Left(fetchLock, t)
    /\ Step(t, "idle")
    /\ UNCHANGED <<cache, using>>

\* The TTL of the cached result passes.
EntryExpires ==
    /\ cache # NoEntry
    /\ cache' = NoEntry
    /\ UNCHANGED <<fetchLock, at, using>>

Invalidate ==
    /\ cache' = NoEntry
    /\ UNCHANGED <<fetchLock, at, using>>

GetStep(t) ==
    \/ FetchedMeanwhile(t) \/ StartFetch(t) \/ FirstRegionForbids(t) \/ FetchEnds(t)

-----------------------------------------------------------------------------
CatalogTypeOK ==
    /\ cache \in [result : Results \cup {"none"}, access : Nat]
    /\ fetchLock \in Locks
    /\ at \in [Tasks -> {"idle", "waiting"} \cup InFetch]
    /\ using \in [Tasks -> Nat]

\* Models are fetched only while no valid result is cached, however many tasks
\* found the cache empty and whoever invalidates it (model_catalog.rs:81-88).
FetchIsNeeded ==
    \A t \in Tasks : at[t] \in InFetch => fetchLock.holder = t /\ cache = NoEntry
=============================================================================
