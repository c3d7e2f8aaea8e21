------------------------- MODULE CredentialService -------------------------
(***************************************************************************)
(* TokenManager composed with the ModelCatalog that it owns. A request     *)
(* first makes sure that the token is fresh and then uses it, to ask the   *)
(* catalog or for a call upstream; each new credential empties the cache.  *)
(***************************************************************************)
EXTENDS TokenManager, ModelCatalog

vars == <<tokenVars, catalogVars>>

Init == TokenInit /\ CatalogInit

-----------------------------------------------------------------------------
\* A task in the catalog does nothing else.
TokenStep(t) ==
    /\ at[t] = "idle"
    /\ \/ StillFresh(t) \/ JoinRefresh(t) \/ RefreshStep(t)
       \/ RequestCancelled(t) \/ ReadSource(t)
    /\ UNCHANGED catalogVars

CredentialReplaced(t) == InvalidateCatalog(t) /\ Invalidate

\* The token is used for a call upstream.
UseForUpstream(t) == Proceed(t) /\ at[t] = "idle" /\ UNCHANGED catalogVars

\* available_models: the credential is read again and passed to the catalog.
AvailableModels(t) == Proceed(t) /\ (GetCached(t) \/ GetMissed(t, credential.access))

CatalogStep(t) ==
    /\ \/ GetStep(t)
       \/ "cancel" \in Mishaps /\ GetCancelled(t)
    /\ UNCHANGED tokenVars

\* The process is killed; the cache was only in memory.
ServiceCrash ==
    /\ Crash
    /\ cache' = NoEntry
    /\ fetchLock' = Unlocked
    /\ at' = [t \in Tasks |-> "idle"]
    /\ UNCHANGED using

Next ==
    \/ \E t \in Tasks : \/ TokenStep(t) \/ CredentialReplaced(t) \/ UseForUpstream(t)
                        \/ AvailableModels(t) \/ CatalogStep(t)
    \/ WorldStep /\ UNCHANGED catalogVars
    \/ EntryExpires /\ UNCHANGED tokenVars
    \/ ServiceCrash

\* The runtime polls every task that can go on, the clients' timeouts end every
\* call to the endpoint and to the catalog's regions, and a woken task gets its lock.
Fairness ==
    \A t \in Tasks :
        /\ WF_vars(RefreshStep(t) /\ UNCHANGED catalogVars)
        /\ WF_vars(CredentialReplaced(t))
        /\ WF_vars(UseForUpstream(t) \/ AvailableModels(t))
        /\ WF_vars(GetStep(t) /\ UNCHANGED tokenVars)

Spec == Init /\ [][Next]_vars
FairSpec == Spec /\ Fairness

-----------------------------------------------------------------------------
\* A task that waits for a token or for models does not wait for ever, whoever
\* times out, fails or is cancelled holding a lock (token_manager.rs:148-169,
\* model_catalog.rs:81-89).
EveryCallEnds ==
    \A t \in Tasks : pc[t] # "idle" \/ at[t] # "idle" ~> pc[t] = "idle" /\ at[t] = "idle"

\* The test replacing_credential_invalidates_cached_models (token_manager.rs:227):
\* once a credential has been replaced, no models found with another are cached.
ReplacedModelsNotServed ==
    cache.result = "models" /\ (\A t \in Tasks : pc[t] \notin {"replaced", "reloaded"})
        => cache.access = credential.access

=============================================================================
