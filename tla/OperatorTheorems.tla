--------------------------- MODULE OperatorTheorems ---------------------------
(***************************************************************************)
(* Proofs about the two parts an operator deals with.                      *)
(*                                                                         *)
(* AdminSession, for any requests, keys, limit and times: the tables keep  *)
(* their shape, no request runs for a session that is over, no live        *)
(* session is taken away, and the logins of a key are limited.             *)
(*                                                                         *)
(* CredentialSource, for any configurations, files, databases and numbers  *)
(* of tokens: what a refresh wrote is read back, a token that was rotated  *)
(* away does not come back, auto chooses nothing and a refusal out of the  *)
(* blue has one cause only.                                                *)
(***************************************************************************)
EXTENDS AdminSession, CredentialSource, FiniteSetTheorems, TLAPS

\* The constants' assumptions, one by one.
LEMMA AdminConstants ==
    /\ Limit \in Nat /\ Limit > 0
    /\ Window \in Nat /\ Window > 0
    /\ Ttl \in Nat /\ MaxTime \in Nat /\ MaxSessions \in Nat /\ MaxRestarts \in Nat
BY AdminAssumption DEF AdminAssumption

\* The invariant of the sessions: the tables have their shape, and a session that is over
\* was issued and is not in the table.
SessionInv ==
    /\ AdminTypeOK
    /\ over \subseteq 1..issued
    /\ over \cap DOMAIN expires = {}

-----------------------------------------------------------------------------
(* The tables                                                               *)

\* The clean-up keeps what is alive as it is, and adds nothing.
LEMMA RetainKeeps ==
    ASSUME NEW f
    PROVE  /\ DOMAIN Retain(f) \subseteq DOMAIN f
           /\ \A s \in DOMAIN f : f[s] > now => s \in DOMAIN Retain(f)
           /\ \A s \in DOMAIN Retain(f) : Retain(f)[s] = f[s] /\ f[s] > now
BY DEF Retain

\* Only windows that have not passed are kept, as they are.
LEMMA OpenWindowsKeep ==
    /\ DOMAIN OpenWindows = {k \in DOMAIN attempts : now - attempts[k].started < Window}
    /\ \A k \in DOMAIN OpenWindows : OpenWindows[k] = attempts[k]
BY DEF OpenWindows

\* The window of a key and those of the others after an attempt.
LEMMA WithWindowSets ==
    ASSUME NEW key, NEW window
    PROVE  /\ DOMAIN WithWindow(key, window) = DOMAIN OpenWindows \union {key}
           /\ WithWindow(key, window)[key] = window
           /\ \A k \in DOMAIN OpenWindows \ {key} :
                 WithWindow(key, window)[k] = attempts[k]
BY OpenWindowsKeep DEF WithWindow

\* The window of a key that has an attempt to make.
LEMMA WindowOfType ==
    ASSUME AdminTypeOK, NEW key \in Keys
    PROVE  /\ WindowOf(key) \in [started : 0..now, count : 0..Limit]
           /\ key \in DOMAIN OpenWindows => WindowOf(key) = attempts[key]
           /\ key \notin DOMAIN OpenWindows => WindowOf(key) = [started |-> now, count |-> 0]
<1> USE AdminConstants
<1>1. now \in Nat /\ now \in 0..now
    BY DEF AdminTypeOK
<1>2. CASE key \in DOMAIN OpenWindows
    <2>1. attempts[key] \in [started : 0..now, count : 1..Limit]
        BY <1>2, OpenWindowsKeep DEF AdminTypeOK
    <2>2. WindowOf(key) = attempts[key]
        BY <1>2, OpenWindowsKeep DEF WindowOf
    <2> QED BY <1>2, <2>1, <2>2
<1>3. CASE key \notin DOMAIN OpenWindows
    <2>1. WindowOf(key) = [started |-> now, count |-> 0]
        BY <1>3 DEF WindowOf
    <2> QED BY <1>1, <1>3, <2>1
<1> QED BY <1>2, <1>3

-----------------------------------------------------------------------------
(* The sessions                                                             *)

\* Nobody is logged in at the start.
LEMMA SessionInitially == AdminInit => SessionInv
<1> SUFFICES ASSUME AdminInit PROVE SessionInv
    OBVIOUS
<1>1. DOMAIN expires = {} /\ DOMAIN attempts = {}
    BY DEF AdminInit
<1>2. AdminTypeOK
    BY <1>1, AdminConstants DEF AdminInit, AdminTypeOK
<1> QED BY <1>1, <1>2 DEF SessionInv, AdminInit

\* A key that is refused has an open window, which stays as it is.
LEMMA RefusedKeeps ==
    ASSUME AdminTypeOK, NEW key \in Keys, LoginRefused(key)
    PROVE  /\ key \in DOMAIN OpenWindows
           /\ attempts' = OpenWindows
<1> USE AdminConstants
<1>1. WindowOf(key).count \in 0..Limit /\ ~(WindowOf(key).count < Limit)
    BY WindowOfType DEF LoginRefused, WithinLimit
<1>2. key \in DOMAIN OpenWindows
    BY <1>1, WindowOfType
<1>3. attempts' = WithWindow(key, WindowOf(key)) /\ WindowOf(key) = OpenWindows[key]
    BY <1>2 DEF LoginRefused, WindowOf
<1>4. attempts' = [k \in DOMAIN OpenWindows |-> OpenWindows[k]]
    BY <1>2, <1>3 DEF WithWindow
<1>5. OpenWindows = [k \in DOMAIN OpenWindows |-> OpenWindows[k]]
    BY DEF OpenWindows
<1> QED BY <1>2, <1>4, <1>5

\* The attempts that are open have the shape of the table.
LEMMA OpenWindowsType ==
    ASSUME AdminTypeOK
    PROVE  /\ DOMAIN OpenWindows \subseteq Keys
           /\ \A k \in DOMAIN OpenWindows : OpenWindows[k] \in [started : 0..now, count : 1..Limit]
BY OpenWindowsKeep DEF AdminTypeOK

\* An attempt that counts leaves the table of the windows in shape.
LEMMA AdmittedType ==
    ASSUME AdminTypeOK, NEW key \in Keys, LoginAdmitted(key)
    PROVE  /\ DOMAIN attempts' = DOMAIN OpenWindows \union {key}
           /\ attempts'[key] = [started |-> WindowOf(key).started,
                                count |-> WindowOf(key).count + 1]
           /\ \A k \in DOMAIN OpenWindows \ {key} : attempts'[k] = attempts[k]
           /\ \A k \in DOMAIN attempts' : attempts'[k] \in [started : 0..now, count : 1..Limit]
           /\ DOMAIN attempts' \subseteq Keys
<1> USE AdminConstants
<1> DEFINE w == WindowOf(key)
<1>1. w \in [started : 0..now, count : 0..Limit] /\ w.count < Limit
    BY WindowOfType DEF LoginAdmitted, WithinLimit
<1>2. Counted(w) = [started |-> w.started, count |-> w.count + 1]
    BY <1>1 DEF Counted
<1>3. attempts' = WithWindow(key, Counted(w))
    BY DEF LoginAdmitted
<1>4. /\ DOMAIN attempts' = DOMAIN OpenWindows \union {key}
      /\ attempts'[key] = Counted(w)
      /\ \A k \in DOMAIN OpenWindows \ {key} : attempts'[k] = attempts[k]
    <2> HIDE DEF w
    <2>1. /\ DOMAIN WithWindow(key, Counted(w)) = DOMAIN OpenWindows \union {key}
          /\ WithWindow(key, Counted(w))[key] = Counted(w)
          /\ \A k \in DOMAIN OpenWindows \ {key} :
                WithWindow(key, Counted(w))[k] = attempts[k]
        BY WithWindowSets, Zenon
    <2> QED BY <1>3, <2>1, Zenon
<1>5. Counted(w) \in [started : 0..now, count : 1..Limit]
    <2>1. w.started \in 0..now /\ w.count + 1 \in 1..Limit
        BY <1>1
    <2> QED BY <1>2, <2>1
<1>6. \A k \in DOMAIN OpenWindows : attempts[k] \in [started : 0..now, count : 1..Limit]
    BY OpenWindowsType, OpenWindowsKeep
<1>7. DOMAIN attempts' \subseteq Keys
    BY <1>4, OpenWindowsType
<1> QED BY <1>2, <1>4, <1>5, <1>6, <1>7

\* A table that has lost expired sessions only keeps the invariant.
LEMMA AfterRetain ==
    ASSUME SessionInv, expires' = Retain(expires), now' = now, issued' = issued
    PROVE  /\ DOMAIN expires' \subseteq 1..issued'
           /\ \A s \in DOMAIN expires' : expires'[s] \in 0..(MaxTime + Ttl)
           /\ DOMAIN expires' \subseteq DOMAIN expires
           /\ \A s \in DOMAIN expires : expires[s] > now =>
                 s \in DOMAIN expires' /\ expires'[s] = expires[s]
BY RetainKeeps DEF SessionInv, AdminTypeOK

\* What a step must not do: the two action properties, of one step.
Authorised ==
    \A r \in Requests :
        (request[r].at = "idle" /\ request'[r].at = "handler") =>
            LET started == request'[r]
            IN  /\ started.token \in DOMAIN expires \ over
                /\ expires[started.token] > now
                /\ started.route \in {"logout", "change"} => started.csrf = started.token

Stay ==
    \A s \in DOMAIN expires :
        (expires[s] > now /\ s \notin over') =>
            s \in DOMAIN expires' /\ expires'[s] = expires[s]

\* A refused login is a clean-up.
LEMMA RefusedStep ==
    ASSUME SessionInv, NEW key \in Keys, LoginRefused(key)
    PROVE  SessionInv' /\ Authorised /\ Stay
<1>1. UNCHANGED <<now, issued, request, restarts, admitted, over>> /\ expires' = Retain(expires)
    BY DEF LoginRefused
<1>2. DOMAIN attempts' \subseteq Keys
      /\ \A k \in DOMAIN attempts' : attempts'[k] \in [started : 0..now', count : 1..Limit]
    BY <1>1, RefusedKeeps, OpenWindowsType DEF SessionInv
<1>3. AdminTypeOK'
    BY <1>1, <1>2, AfterRetain DEF SessionInv, AdminTypeOK
<1>4. SessionInv'
    BY <1>1, <1>3, AfterRetain DEF SessionInv
<1>5. Authorised
    BY <1>1 DEF Authorised
<1>6. Stay
    BY <1>1, AfterRetain DEF Stay
<1> QED BY <1>4, <1>5, <1>6

\* A wrong API key is a clean-up too.
LEMMA FailsStep ==
    ASSUME SessionInv, NEW key \in Keys, LoginFails(key)
    PROVE  SessionInv' /\ Authorised /\ Stay
<1>1. UNCHANGED <<now, issued, request, restarts, over>> /\ expires' = Retain(expires)
    BY DEF LoginFails, LoginAdmitted
<1>2. DOMAIN attempts' \subseteq Keys
      /\ \A k \in DOMAIN attempts' : attempts'[k] \in [started : 0..now', count : 1..Limit]
    BY <1>1, AdmittedType DEF SessionInv, LoginFails
<1>3. AdminTypeOK'
    BY <1>1, <1>2, AfterRetain DEF SessionInv, AdminTypeOK
<1>4. SessionInv'
    BY <1>1, <1>3, AfterRetain DEF SessionInv
<1>5. Authorised
    BY <1>1 DEF Authorised
<1>6. Stay
    BY <1>1, AfterRetain DEF Stay
<1> QED BY <1>4, <1>5, <1>6

\* A new session has a number that nobody had before.
LEMMA SucceedsStep ==
    ASSUME SessionInv, NEW key \in Keys, LoginSucceeds(key)
    PROVE  SessionInv' /\ Authorised /\ Stay
<1> USE AdminConstants
<1> DEFINE new == issued + 1
<1>1. /\ UNCHANGED <<now, request, restarts, over>>
      /\ issued < MaxSessions /\ issued' = new
      /\ expires' = [s \in DOMAIN Retain(expires) \union {new} |->
                       IF s = new THEN now + Ttl ELSE expires[s]]
    BY DEF LoginSucceeds, LoginAdmitted
<1>2. issued \in 0..MaxSessions /\ now \in 0..MaxTime /\ DOMAIN expires \subseteq 1..issued
    BY DEF SessionInv, AdminTypeOK
<1>3. DOMAIN attempts' \subseteq Keys
      /\ \A k \in DOMAIN attempts' : attempts'[k] \in [started : 0..now', count : 1..Limit]
    BY <1>1, AdmittedType DEF SessionInv, LoginSucceeds
<1>4. DOMAIN expires' \subseteq 1..issued'
    BY <1>1, <1>2, RetainKeeps
<1>5. ASSUME NEW s \in DOMAIN expires' PROVE expires'[s] \in 0..(MaxTime + Ttl)
    <2>1. s = new \/ (s # new /\ s \in DOMAIN Retain(expires))
        BY <1>1
    <2>2. CASE s = new
        BY <1>1, <1>2, <2>2
    <2>3. CASE s # new /\ s \in DOMAIN Retain(expires)
        <3>1. s \in DOMAIN expires /\ expires'[s] = expires[s]
            BY <1>1, <2>3, RetainKeeps
        <3> QED BY <3>1 DEF SessionInv, AdminTypeOK
    <2> QED BY <2>1, <2>2, <2>3
<1>6. \A r \in Requests : request'[r] = Idle \/ request'[r] \in
           [at : {"handler"}, route : Routes, token : 1..issued', csrf : 0..issued']
    <2>1. 1..issued \subseteq 1..issued' /\ 0..issued \subseteq 0..issued'
        BY <1>1, <1>2
    <2> QED BY <1>1, <2>1 DEF SessionInv, AdminTypeOK
<1>7. AdminTypeOK'
    <2>1. now' \in 0..MaxTime /\ issued' \in 0..MaxSessions
        BY <1>1, <1>2
    <2> QED BY <1>3, <1>4, <1>5, <1>6, <2>1 DEF AdminTypeOK
<1>8. over' \subseteq 1..issued' /\ over' \cap DOMAIN expires' = {}
    <2>1. over \subseteq 1..issued /\ over \cap DOMAIN expires = {} /\ new \notin 1..issued
        BY <1>2 DEF SessionInv
    <2>2. DOMAIN expires' \subseteq DOMAIN expires \union {new}
        BY <1>1, RetainKeeps
    <2> QED BY <1>1, <1>2, <2>1, <2>2
<1>9. Authorised
    BY <1>1 DEF Authorised
<1>10. Stay
    <2>1. \A s \in DOMAIN expires : s # new
        BY <1>2
    <2> QED BY <1>1, <2>1, RetainKeeps DEF Stay
<1> QED BY <1>7, <1>8, <1>9, <1>10 DEF SessionInv

\* The middleware turns a request away: at most a clean-up.
LEMMA RejectStep ==
    ASSUME SessionInv, NEW route, NEW token, NEW csrf, CheckRejects(route, token, csrf)
    PROVE  SessionInv' /\ Authorised /\ Stay
<1>1. UNCHANGED <<now, attempts, issued, request, restarts, admitted, over>>
    BY DEF CheckRejects
<1>2. CASE expires' = expires
    <2>1. SessionInv'
        BY <1>1, <1>2 DEF SessionInv, AdminTypeOK
    <2>2. Authorised /\ Stay
        BY <1>1, <1>2 DEF Authorised, Stay
    <2> QED BY <2>1, <2>2
<1>3. CASE expires' = Retain(expires)
    <2>1. SessionInv'
        BY <1>1, <1>3, AfterRetain DEF SessionInv, AdminTypeOK
    <2>2. Authorised
        BY <1>1 DEF Authorised
    <2>3. Stay
        BY <1>1, <1>3, AfterRetain DEF Stay
    <2> QED BY <2>1, <2>2, <2>3
<1> QED BY <1>2, <1>3 DEF CheckRejects, CheckUnauthorized, CheckForbidden, AfterGet

\* The middleware lets a request pass: its session is in the table and alive, so that it is
\* not over, and a change carries its CSRF token.
LEMMA PassStep ==
    ASSUME SessionInv, NEW r \in Requests, NEW route \in Routes,
           NEW token \in 0..issued, NEW csrf \in 0..issued, CheckPasses(r, route, token, csrf)
    PROVE  SessionInv' /\ Authorised /\ Stay
<1> DEFINE started == [at |-> "handler", route |-> route, token |-> token, csrf |-> csrf]
<1>1. /\ UNCHANGED <<now, attempts, issued, restarts, admitted, over>>
      /\ expires' = Retain(expires)
      /\ request' = [request EXCEPT ![r] = started]
      /\ token \in DOMAIN Retain(expires)
      /\ IsSafe(route) \/ csrf = token
    BY DEF CheckPasses, AfterGet, Found, CsrfMatches
<1>2. token \in DOMAIN expires /\ expires[token] > now
    BY <1>1, RetainKeeps
<1>3. token \in 1..issued /\ token \notin over
    BY <1>2 DEF SessionInv, AdminTypeOK
<1>4. started \in [at : {"handler"}, route : Routes, token : 1..issued, csrf : 0..issued]
    BY <1>3
<1>5. \A q \in Requests : request'[q] = started \/ request'[q] = request[q]
    BY <1>1
<1>6. AdminTypeOK'
    BY <1>1, <1>4, <1>5, AfterRetain DEF SessionInv, AdminTypeOK
<1>7. SessionInv'
    BY <1>1, <1>6, AfterRetain DEF SessionInv
<1>8. Authorised
    <2>1. started.route \in {"logout", "change"} => started.csrf = started.token
        BY <1>1 DEF IsSafe
    <2>2. ASSUME NEW q \in Requests, request[q].at = "idle", request'[q].at = "handler"
          PROVE  request'[q] = started
        BY <1>5, <2>2
    <2> QED BY <1>2, <1>3, <2>1, <2>2 DEF Authorised
<1>9. Stay
    BY <1>1, AfterRetain DEF Stay
<1> QED BY <1>7, <1>8, <1>9

\* A handler ends: only a logout takes a session, the one it is for.
LEMMA HandleStep ==
    ASSUME SessionInv, NEW r \in Requests, Handle(r)
    PROVE  SessionInv' /\ Authorised /\ Stay
<1> DEFINE token == request[r].token
<1>1. /\ UNCHANGED <<now, attempts, issued, restarts, admitted>>
      /\ request' = [request EXCEPT ![r] = Idle]
      /\ request[r].at = "handler"
    BY DEF Handle, Logout, Session, OtherHandler, Answered
<1>2. token \in 1..issued
    <2>1. request[r] # Idle
        BY <1>1 DEF Idle
    <2> QED BY <2>1 DEF SessionInv, AdminTypeOK
<1>3. \A q \in Requests : request'[q] = Idle \/ request'[q] = request[q]
    BY <1>1
<1>4. Authorised
    BY <1>3 DEF Authorised, Idle
<1>5. CASE Logout(r)
    <2>1. /\ DOMAIN expires' = DOMAIN expires \ {token}
          /\ \A s \in DOMAIN expires' : expires'[s] = expires[s]
          /\ over' = over \union {token}
        BY <1>5 DEF Logout, Remove
    <2>2. AdminTypeOK'
        BY <1>1, <1>3, <2>1 DEF SessionInv, AdminTypeOK
    <2>3. SessionInv'
        BY <1>1, <1>2, <2>1, <2>2 DEF SessionInv
    <2>4. Stay
        BY <2>1 DEF Stay
    <2> QED BY <1>4, <2>3, <2>4
<1>6. CASE Session(r)
    <2>1. expires' = Retain(expires) /\ over' = over
        BY <1>6 DEF Session, AfterGet
    <2>2. AdminTypeOK'
        BY <1>1, <1>3, <2>1, AfterRetain DEF SessionInv, AdminTypeOK
    <2>3. SessionInv'
        BY <1>1, <2>1, <2>2, AfterRetain DEF SessionInv
    <2>4. Stay
        BY <1>1, <2>1, AfterRetain DEF Stay
    <2> QED BY <1>4, <2>3, <2>4
<1>7. CASE OtherHandler(r)
    <2>1. expires' = expires /\ over' = over
        BY <1>7 DEF OtherHandler
    <2>2. SessionInv'
        BY <1>1, <1>3, <2>1 DEF SessionInv, AdminTypeOK
    <2>3. Stay
        BY <2>1 DEF Stay
    <2> QED BY <1>4, <2>2, <2>3
<1> QED BY <1>5, <1>6, <1>7 DEF Handle

\* Time passes: nothing moves but the clock.
LEMMA TickStep ==
    ASSUME SessionInv, Tick
    PROVE  SessionInv' /\ Authorised /\ Stay
<1> USE AdminConstants
<1>1. /\ UNCHANGED <<expires, attempts, issued, request, restarts, admitted, over>>
      /\ now < MaxTime /\ now' = now + 1
    BY DEF Tick
<1>2. now' \in 0..MaxTime /\ 0..now \subseteq 0..now'
    BY <1>1 DEF SessionInv, AdminTypeOK
<1>3. SessionInv'
    BY <1>1, <1>2 DEF SessionInv, AdminTypeOK
<1> QED BY <1>1, <1>3 DEF Authorised, Stay

\* A restart ends every session that was issued.
LEMMA RestartStep ==
    ASSUME SessionInv, Restart
    PROVE  SessionInv' /\ Authorised /\ Stay
<1>1. /\ DOMAIN expires' = {} /\ DOMAIN attempts' = {}
      /\ \A r \in Requests : request'[r] = Idle
      /\ over' = 1..issued /\ UNCHANGED <<now, issued>>
    BY DEF Restart
<1>2. SessionInv'
    BY <1>1 DEF SessionInv, AdminTypeOK
<1>3. Authorised
    BY <1>1 DEF Authorised, Idle
<1>4. Stay
    BY <1>1 DEF Stay, SessionInv, AdminTypeOK
<1> QED BY <1>2, <1>3, <1>4

\* Every step keeps the invariant and does nothing to others' sessions.
LEMMA SessionNext ==
    ASSUME SessionInv, AdminNext
    PROVE  SessionInv' /\ Authorised /\ Stay
<1>1. ASSUME NEW key \in Keys, LoginRefused(key) \/ LoginFails(key) \/ LoginSucceeds(key)
      PROVE  SessionInv' /\ Authorised /\ Stay
    BY <1>1, RefusedStep, FailsStep, SucceedsStep
<1>2. ASSUME Arrive PROVE SessionInv' /\ Authorised /\ Stay
    <2>1. PICK route \in Routes, token \in 0..issued, csrf \in 0..issued :
              \/ CheckRejects(route, token, csrf)
              \/ \E r \in Requests : CheckPasses(r, route, token, csrf)
        BY <1>2 DEF Arrive
    <2> QED BY <2>1, RejectStep, PassStep
<1> QED BY <1>1, <1>2, HandleStep, TickStep, RestartStep DEF AdminNext

\* A step that changes nothing keeps the invariant.
LEMMA SessionStutter ==
    ASSUME SessionInv, UNCHANGED adminVars
    PROVE  SessionInv'
BY DEF SessionInv, AdminTypeOK, adminVars

\* The invariant holds in every state.
LEMMA SessionInvariant == AdminSpec => []SessionInv
<1>1. SessionInv /\ [AdminNext]_adminVars => SessionInv'
    BY SessionNext, SessionStutter
<1> QED BY <1>1, SessionInitially, PTL DEF AdminSpec

\* AdminTypeOK for every value of the constants.
THEOREM AdminTypeHolds == AdminSpec => []AdminTypeOK
<1>1. SessionInv => AdminTypeOK
    BY DEF SessionInv
<1> QED BY <1>1, SessionInvariant, PTL

\* The middleware lets no request pass for a session that was logged out, has expired or ended
\* with an earlier process, and no change without the CSRF token of its own session.
THEOREM RequestsAuthorised == AdminSpec => RequestsAreAuthorised
<1>1. SessionInv /\ [AdminNext]_adminVars => [Authorised]_adminVars
    BY SessionNext
<1> QED BY <1>1, SessionInvariant, PTL DEF AdminSpec, RequestsAreAuthorised, Authorised

\* A live session is taken away by its own logout or with the process only, and never prolonged.
THEOREM LiveSessionsRemain == AdminSpec => LiveSessionsStay
<1>1. SessionInv /\ [AdminNext]_adminVars => [Stay]_adminVars
    BY SessionNext
<1> QED BY <1>1, SessionInvariant, PTL DEF AdminSpec, LiveSessionsStay, Stay

-----------------------------------------------------------------------------
(* The logins                                                               *)

\* The attempts of a key from the tick at which its window started on, and those of the last
\* minute before it. What is left of an earlier window lacks that window's first attempt.
InWindow(key, start) == {x \in admitted[key] : start <= x[1]}
BeforeWindow(key, start) == {x \in admitted[key] : x[1] < start /\ start < x[1] + Window}

\* What the table of the windows says of the attempts that were let through.
KeyInv(key) ==
    LET window == WindowOf(key)
    IN  /\ admitted[key] \subseteq (0..now) \X Nat
        /\ IsFiniteSet(admitted[key])
        /\ Cardinality(InWindow(key, window.started)) <= window.count
        /\ Cardinality(BeforeWindow(key, window.started)) < Limit
        /\ key \in DOMAIN OpenWindows => \E x \in admitted[key] : x[1] = window.started
        /\ \A a \in 0..now : Cardinality(AdmittedFrom(key, a)) < 2 * Limit

LoginInv == DOMAIN admitted = Keys /\ \A key \in Keys : KeyInv(key)

\* A part of a finite set is finite and not larger.
LEMMA PartSize ==
    ASSUME NEW S, NEW T, IsFiniteSet(S), T \subseteq S
    PROVE  IsFiniteSet(T) /\ Cardinality(T) <= Cardinality(S)
           /\ Cardinality(T) \in Nat /\ Cardinality(S) \in Nat
BY FS_Subset, FS_CardinalityType

\* One more element adds one at most.
LEMMA OneMoreSize ==
    ASSUME NEW S, NEW T, NEW x, IsFiniteSet(S), T \subseteq S \union {x}
    PROVE  Cardinality(T) <= Cardinality(S) + 1 /\ Cardinality(S) \in Nat
           /\ Cardinality(T) \in Nat
<1>1. IsFiniteSet(S \union {x}) /\ Cardinality(S \union {x}) <= Cardinality(S) + 1
      /\ Cardinality(S) \in Nat
    BY FS_AddElement, FS_CardinalityType
<1> QED BY <1>1, PartSize

\* A set that is covered by two is not larger than both.
LEMMA CoverSize ==
    ASSUME NEW S, NEW A, NEW B, IsFiniteSet(A), IsFiniteSet(B), S \subseteq A \union B
    PROVE  Cardinality(S) <= Cardinality(A) + Cardinality(B) /\ Cardinality(S) \in Nat
           /\ Cardinality(A) \in Nat /\ Cardinality(B) \in Nat
<1>1. /\ IsFiniteSet(A \union B)
      /\ Cardinality(A \union B) = Cardinality(A) + Cardinality(B) - Cardinality(A \cap B)
    BY FS_Union
<1>2. Cardinality(A \cap B) \in Nat
    BY PartSize
<1>3. Cardinality(A) \in Nat /\ Cardinality(B) \in Nat
    BY FS_CardinalityType
<1> QED BY <1>1, <1>2, <1>3, PartSize

\* Without its element x, a part of S is smaller than S.
LEMMA OneLessSize ==
    ASSUME NEW S, NEW T, NEW x \in S, IsFiniteSet(S), T \subseteq S \ {x}
    PROVE  Cardinality(T) < Cardinality(S) /\ Cardinality(T) \in Nat /\ Cardinality(S) \in Nat
<1>1. IsFiniteSet(S \ {x}) /\ Cardinality(S \ {x}) = Cardinality(S) - 1
      /\ Cardinality(S) \in Nat
    BY FS_RemoveElement, FS_CardinalityType
<1> QED BY <1>1, PartSize

\* Nothing was tried at the start.
LEMMA LoginInitially == AdminInit => LoginInv
<1> SUFFICES ASSUME AdminInit, NEW key \in Keys PROVE KeyInv(key)
    BY DEF LoginInv, AdminInit
<1> USE AdminConstants
<1>1. admitted[key] = {} /\ DOMAIN attempts = {} /\ now = 0
    BY DEF AdminInit
<1>2. key \notin DOMAIN OpenWindows
    BY <1>1 DEF OpenWindows
<1>3. WindowOf(key) = [started |-> now, count |-> 0]
    BY <1>2 DEF WindowOf
<1>4. /\ InWindow(key, now) = {} /\ BeforeWindow(key, now) = {}
      /\ \A a : AdmittedFrom(key, a) = {}
    BY <1>1 DEF InWindow, BeforeWindow, AdmittedFrom
<1>5. WindowOf(key).started = now /\ WindowOf(key).count = 0
    BY <1>3
<1>6. IsFiniteSet(admitted[key]) /\ admitted[key] \subseteq (0..now) \X Nat
    BY <1>1, FS_EmptySet
<1>7. /\ Cardinality(InWindow(key, WindowOf(key).started)) = 0
      /\ Cardinality(BeforeWindow(key, WindowOf(key).started)) = 0
      /\ \A a \in 0..now : Cardinality(AdmittedFrom(key, a)) = 0
    BY <1>4, <1>5, FS_EmptySet
<1> QED BY <1>2, <1>5, <1>6, <1>7 DEF KeyInv

\* The window of a key that makes no attempt in a step without the clock.
LEMMA WindowUnmoved ==
    ASSUME AdminTypeOK, NEW key \in Keys, now' = now,
           key \in DOMAIN OpenWindows =>
               key \in DOMAIN attempts' /\ attempts'[key] = attempts[key],
           key \notin DOMAIN OpenWindows =>
               \/ key \notin DOMAIN attempts'
               \/ key \in DOMAIN attempts /\ attempts'[key] = attempts[key]
    PROVE  /\ WindowOf(key)' = WindowOf(key)
           /\ key \in (DOMAIN OpenWindows)' <=> key \in DOMAIN OpenWindows
<1>1. /\ DOMAIN OpenWindows = {k \in DOMAIN attempts : now - attempts[k].started < Window}
      /\ (DOMAIN OpenWindows)' = {k \in DOMAIN attempts' : now' - attempts'[k].started < Window}
      /\ \A k \in (DOMAIN OpenWindows)' : OpenWindows'[k] = attempts'[k]
    BY DEF OpenWindows
<1>2. CASE key \in DOMAIN OpenWindows
    <2>1. key \in (DOMAIN OpenWindows)'
        BY <1>1, <1>2
    <2>2. OpenWindows'[key] = attempts'[key] /\ OpenWindows[key] = attempts[key]
        BY <1>1, <1>2, <2>1, OpenWindowsKeep
    <2>3. WindowOf(key)' = OpenWindows'[key] /\ WindowOf(key) = OpenWindows[key]
        BY <1>2, <2>1 DEF WindowOf
    <2> QED BY <1>2, <2>1, <2>2, <2>3
<1>3. CASE key \notin DOMAIN OpenWindows
    <2>1. key \notin (DOMAIN OpenWindows)'
        BY <1>1, <1>3
    <2>2. WindowOf(key) = [started |-> now, count |-> 0]
          /\ WindowOf(key)' = [started |-> now', count |-> 0]
        BY <1>3, <2>1 DEF WindowOf
    <2> QED BY <1>3, <2>1, <2>2
<1> QED BY <1>2, <1>3

\* Then everything that KeyInv says of the key still holds.
LEMMA KeyUnmoved ==
    ASSUME AdminTypeOK, NEW key \in Keys, KeyInv(key), now' = now,
           admitted'[key] = admitted[key],
           key \in DOMAIN OpenWindows =>
               key \in DOMAIN attempts' /\ attempts'[key] = attempts[key],
           key \notin DOMAIN OpenWindows =>
               \/ key \notin DOMAIN attempts'
               \/ key \in DOMAIN attempts /\ attempts'[key] = attempts[key]
    PROVE  KeyInv(key)'
<1>1. /\ WindowOf(key)' = WindowOf(key)
      /\ key \in (DOMAIN OpenWindows)' <=> key \in DOMAIN OpenWindows
    BY WindowUnmoved
<1>2. \A start : InWindow(key, start)' = InWindow(key, start)
                 /\ BeforeWindow(key, start)' = BeforeWindow(key, start)
                 /\ AdmittedFrom(key, start)' = AdmittedFrom(key, start)
    BY DEF InWindow, BeforeWindow, AdmittedFrom
<1> QED BY <1>1, <1>2 DEF KeyInv

\* A refused attempt only drops windows that have passed.
LEMMA RefusedLogins ==
    ASSUME AdminTypeOK, LoginInv, NEW key \in Keys, LoginRefused(key)
    PROVE  LoginInv'
<1>1. attempts' = OpenWindows /\ now' = now /\ admitted' = admitted
    BY RefusedKeeps DEF LoginRefused
<1>2. ASSUME NEW k \in Keys PROVE KeyInv(k)'
    <2>1. /\ k \in DOMAIN OpenWindows => k \in DOMAIN attempts' /\ attempts'[k] = attempts[k]
          /\ k \notin DOMAIN OpenWindows => k \notin DOMAIN attempts'
        BY <1>1, OpenWindowsKeep
    <2> QED BY <1>1, <2>1, KeyUnmoved DEF LoginInv
<1> QED BY <1>1, <1>2 DEF LoginInv

\* The others' windows and attempts in a step that lets an attempt of a key through.
LEMMA AdmittedOthers ==
    ASSUME AdminTypeOK, LoginInv, NEW key \in Keys, LoginAdmitted(key), NEW k \in Keys \ {key}
    PROVE  KeyInv(k)'
<1>1. now' = now /\ admitted'[k] = admitted[k]
    <2>1. admitted' = [admitted EXCEPT ![key] = admitted'[key]]
        BY DEF LoginAdmitted
    <2> QED BY <2>1 DEF LoginAdmitted
<1>2. /\ k \in DOMAIN OpenWindows => k \in DOMAIN attempts' /\ attempts'[k] = attempts[k]
      /\ k \notin DOMAIN OpenWindows => k \notin DOMAIN attempts'
    BY AdmittedType
<1> QED BY <1>1, <1>2, KeyUnmoved DEF LoginInv

\* The window of the key that makes the attempt.
LEMMA AdmittedWindow ==
    ASSUME AdminTypeOK, NEW key \in Keys, LoginAdmitted(key)
    PROVE  /\ key \in (DOMAIN OpenWindows)'
           /\ WindowOf(key)'.started = WindowOf(key).started
           /\ WindowOf(key)'.count = WindowOf(key).count + 1
<1> USE AdminConstants
<1>1. /\ key \in DOMAIN attempts'
      /\ attempts'[key] = [started |-> WindowOf(key).started, count |-> WindowOf(key).count + 1]
      /\ now' = now
    BY AdmittedType DEF LoginAdmitted
<1>2. now \in Nat /\ now - WindowOf(key).started < Window
    <2>1. now \in Nat
        BY DEF AdminTypeOK
    <2>2. CASE key \in DOMAIN OpenWindows
        BY <2>1, <2>2, WindowOfType, OpenWindowsKeep
    <2>3. CASE key \notin DOMAIN OpenWindows
        BY <2>1, <2>3, WindowOfType
    <2> QED BY <2>1, <2>2, <2>3
<1>3. /\ (DOMAIN OpenWindows)' = {k \in DOMAIN attempts' : now' - attempts'[k].started < Window}
      /\ \A k \in (DOMAIN OpenWindows)' : OpenWindows'[k] = attempts'[k]
    BY DEF OpenWindows
<1>4. key \in (DOMAIN OpenWindows)'
    BY <1>1, <1>2, <1>3
<1>5. WindowOf(key)' = attempts'[key]
    BY <1>3, <1>4 DEF WindowOf
<1> QED BY <1>1, <1>4, <1>5

\* An attempt that is let through counts in the window of its key.
LEMMA AdmittedKey ==
    ASSUME AdminTypeOK, LoginInv, NEW key \in Keys, LoginAdmitted(key)
    PROVE  KeyInv(key)'
<1> USE AdminConstants
<1> DEFINE w == WindowOf(key)
           x == <<now, Cardinality({a \in admitted[key] : a[1] = now}) + 1>>
<1>1. KeyInv(key)
    BY DEF LoginInv
<1> PICK start, count : start = w.started /\ count = w.count
    OBVIOUS
<1>2. now \in Nat /\ start \in 0..now /\ count \in Nat /\ count < Limit
    <2>1. now \in Nat
        BY DEF AdminTypeOK
    <2>2. w \in [started : 0..now, count : 0..Limit] /\ w.count < Limit
        BY WindowOfType DEF LoginAdmitted, WithinLimit
    <2> QED BY <2>1, <2>2
<1>3. x \in (0..now) \X Nat /\ x[1] = now
    <2>1. IsFiniteSet({a \in admitted[key] : a[1] = now})
        BY <1>1, PartSize DEF KeyInv
    <2> QED BY <1>2, <2>1, FS_CardinalityType
<1>4. now' = now /\ admitted'[key] = admitted[key] \union {x}
    BY DEF LoginAdmitted, LoginInv
<1>5. /\ IsFiniteSet(admitted'[key]) /\ admitted'[key] \subseteq (0..now') \X Nat
    <2>1. IsFiniteSet(admitted[key]) /\ admitted[key] \subseteq (0..now) \X Nat
        BY <1>1 DEF KeyInv
    <2>2. IsFiniteSet(admitted[key] \union {x})
        BY <2>1, FS_AddElement
    <2> QED BY <1>3, <1>4, <2>1, <2>2
<1> HIDE DEF x
<1>6. InWindow(key, start)' \subseteq InWindow(key, start) \union {x}
      /\ BeforeWindow(key, start)' \subseteq BeforeWindow(key, start)
    BY <1>2, <1>3, <1>4 DEF InWindow, BeforeWindow
<1>7. /\ IsFiniteSet(InWindow(key, start)) /\ IsFiniteSet(BeforeWindow(key, start))
      /\ IsFiniteSet(InWindow(key, start)') /\ IsFiniteSet(BeforeWindow(key, start)')
    <2>1. /\ InWindow(key, start) \subseteq admitted[key]
          /\ BeforeWindow(key, start) \subseteq admitted[key]
          /\ InWindow(key, start)' \subseteq admitted'[key]
          /\ BeforeWindow(key, start)' \subseteq admitted'[key]
        BY DEF InWindow, BeforeWindow
    <2>2. IsFiniteSet(admitted[key])
        BY <1>1 DEF KeyInv
    <2> QED BY <1>5, <2>1, <2>2, PartSize
<1>8. /\ Cardinality(InWindow(key, start)') <= count + 1
      /\ Cardinality(BeforeWindow(key, start)') < Limit
      /\ Cardinality(InWindow(key, start)') \in Nat
      /\ Cardinality(BeforeWindow(key, start)') \in Nat
    <2>1. Cardinality(InWindow(key, start)) <= count
          /\ Cardinality(BeforeWindow(key, start)) < Limit
        BY <1>1 DEF KeyInv
    <2>2. /\ Cardinality(InWindow(key, start)') <= Cardinality(InWindow(key, start)) + 1
          /\ Cardinality(InWindow(key, start)') \in Nat
          /\ Cardinality(InWindow(key, start)) \in Nat
        BY <1>6, <1>7, OneMoreSize
    <2>3. /\ Cardinality(BeforeWindow(key, start)')
               <= Cardinality(BeforeWindow(key, start))
          /\ Cardinality(BeforeWindow(key, start)') \in Nat
          /\ Cardinality(BeforeWindow(key, start)) \in Nat
        BY <1>6, <1>7, PartSize
    <2> QED BY <1>2, <2>1, <2>2, <2>3
<1>9. \E y \in admitted'[key] : y[1] = start
    <2>1. CASE key \in DOMAIN OpenWindows
        BY <1>1, <1>4, <2>1 DEF KeyInv
    <2>2. CASE key \notin DOMAIN OpenWindows
        <3>1. start = now
            BY <2>2, WindowOfType
        <3> QED BY <1>3, <1>4, <3>1
    <2> QED BY <2>1, <2>2
<1>10. ASSUME NEW a \in 0..now' PROVE Cardinality(AdmittedFrom(key, a)') < 2 * Limit
    <2>1. a \in Nat /\ a \in 0..now
        BY <1>2, <1>4
    <2>2. CASE now < a + Window
        <3>1. AdmittedFrom(key, a)' \subseteq
                  InWindow(key, start)' \union BeforeWindow(key, start)'
            <4>1. ASSUME NEW y \in AdmittedFrom(key, a)'
                  PROVE  y \in InWindow(key, start)' \union BeforeWindow(key, start)'
                <5>1. y \in admitted'[key] /\ a <= y[1] /\ y[1] < a + Window
                    BY <4>1 DEF AdmittedFrom
                <5>2. y[1] \in 0..now
                    BY <1>4, <1>5, <5>1
                <5>3. /\ y[1] < start => start < y[1] + Window
                      /\ start <= y[1] \/ y[1] < start
                    BY <1>2, <2>1, <2>2, <5>1, <5>2
                <5> QED BY <5>1, <5>3 DEF InWindow, BeforeWindow
            <4> QED BY <4>1
        <3>2. Cardinality(AdmittedFrom(key, a)')
                  <= Cardinality(InWindow(key, start)')
                     + Cardinality(BeforeWindow(key, start)')
              /\ Cardinality(AdmittedFrom(key, a)') \in Nat
            BY <1>7, <3>1, CoverSize
        <3> QED BY <1>2, <1>8, <3>2
    <2>3. CASE ~(now < a + Window)
        <3>1. AdmittedFrom(key, a)' = AdmittedFrom(key, a)
            BY <1>2, <1>3, <1>4, <2>1, <2>3 DEF AdmittedFrom
        <3> QED BY <1>1, <2>1, <3>1 DEF KeyInv
    <2> QED BY <2>2, <2>3
<1>11. /\ key \in (DOMAIN OpenWindows)'
       /\ WindowOf(key)'.started = start
       /\ WindowOf(key)'.count = count + 1
    BY AdmittedWindow
<1> HIDE DEF w
<1>12. /\ InWindow(key, WindowOf(key).started)' = InWindow(key, start)'
       /\ BeforeWindow(key, WindowOf(key).started)' = BeforeWindow(key, start)'
    BY <1>11 DEF InWindow, BeforeWindow
<1> QED BY <1>5, <1>8, <1>9, <1>10, <1>11, <1>12 DEF KeyInv

\* When time passes, a window either stays open or ends: what is left of it in the minute
\* before the next one lacks its first attempt.
LEMMA TickKey ==
    ASSUME AdminTypeOK, LoginInv, Tick, NEW key \in Keys
    PROVE  KeyInv(key)'
<1> USE AdminConstants
<1> DEFINE w == WindowOf(key)
<1>1. KeyInv(key)
    BY DEF LoginInv
<1>2. now' = now + 1 /\ attempts' = attempts /\ admitted' = admitted /\ now \in Nat
    BY DEF Tick, AdminTypeOK
<1> PICK start, count : start = w.started /\ count = w.count
    OBVIOUS
<1>3. start \in 0..now /\ count \in 0..Limit
    BY WindowOfType
<1>4. /\ IsFiniteSet(admitted[key]) /\ admitted[key] \subseteq (0..now) \X Nat
      /\ Cardinality(InWindow(key, start)) <= count
      /\ Cardinality(BeforeWindow(key, start)) < Limit
      /\ key \in DOMAIN OpenWindows => \E x \in admitted[key] : x[1] = start
      /\ \A a \in 0..now : Cardinality(AdmittedFrom(key, a)) < 2 * Limit
    BY <1>1 DEF KeyInv
<1>5. IsFiniteSet(admitted'[key]) /\ admitted'[key] \subseteq (0..now') \X Nat
    <2>1. 0..now \subseteq 0..now'
        BY <1>2
    <2> QED BY <1>2, <1>4, <2>1
<1>6. IsFiniteSet(InWindow(key, start)) /\ IsFiniteSet(BeforeWindow(key, start))
    BY <1>4, PartSize DEF InWindow, BeforeWindow
<1>7. ASSUME NEW a \in 0..now' PROVE Cardinality(AdmittedFrom(key, a)') < 2 * Limit
    <2>1. AdmittedFrom(key, a)' = AdmittedFrom(key, a)
        BY <1>2 DEF AdmittedFrom
    <2>2. CASE a \in 0..now
        BY <1>4, <2>1, <2>2
    <2>3. CASE a = now + 1
        <3>1. \A x \in admitted[key] : x[1] <= now /\ x[1] \in Nat
            BY <1>2, <1>4
        <3>2. AdmittedFrom(key, a) = {}
            BY <1>2, <2>3, <3>1 DEF AdmittedFrom
        <3> QED BY <2>1, <3>2, FS_EmptySet
    <2> QED BY <1>2, <2>2, <2>3
<1>8. /\ DOMAIN OpenWindows = {k \in DOMAIN attempts : now - attempts[k].started < Window}
      /\ (DOMAIN OpenWindows)' = {k \in DOMAIN attempts : now' - attempts[k].started < Window}
      /\ \A k \in (DOMAIN OpenWindows)' : OpenWindows'[k] = attempts[k]
    BY <1>2 DEF OpenWindows
<1>9. CASE key \in (DOMAIN OpenWindows)'
    <2>1. key \in DOMAIN OpenWindows
        <3>1. key \in DOMAIN attempts /\ attempts[key].started \in Nat
            BY <1>2, <1>8, <1>9 DEF AdminTypeOK
        <3> QED BY <1>2, <1>8, <1>9, <3>1
    <2>2. WindowOf(key)' = attempts[key] /\ w = attempts[key]
        BY <1>8, <1>9, <2>1, OpenWindowsKeep DEF WindowOf
    <2>3. WindowOf(key)'.started = start /\ WindowOf(key)'.count = count
        BY <2>2
    <2> HIDE DEF w
    <2>4. /\ InWindow(key, WindowOf(key).started)' = InWindow(key, start)
          /\ BeforeWindow(key, WindowOf(key).started)' = BeforeWindow(key, start)
        BY <1>2, <2>3 DEF InWindow, BeforeWindow
    <2>5. \E x \in admitted'[key] : x[1] = start
        BY <1>2, <1>4, <2>1
    <2> QED BY <1>4, <1>5, <1>7, <2>3, <2>4, <2>5 DEF KeyInv
<1>10. CASE key \notin (DOMAIN OpenWindows)'
    <2>1. WindowOf(key)' = [started |-> now', count |-> 0]
        BY <1>10 DEF WindowOf
    <2>2. WindowOf(key)'.started = now + 1 /\ WindowOf(key)'.count = 0
        BY <1>2, <2>1
    <2>3. InWindow(key, WindowOf(key).started)' = {}
        <3>1. \A x \in admitted[key] : ~(now + 1 <= x[1])
            BY <1>2, <1>4
        <3> QED BY <1>2, <2>2, <3>1 DEF InWindow
    <2>4. BeforeWindow(key, WindowOf(key).started)' =
              {x \in admitted[key] : x[1] < now + 1 /\ now + 1 < x[1] + Window}
        BY <1>2, <2>2 DEF BeforeWindow
    <2> DEFINE Left == {x \in admitted[key] : x[1] < now + 1 /\ now + 1 < x[1] + Window}
    <2>5. Cardinality(Left) < Limit
        <3>1. CASE key \in DOMAIN OpenWindows
            <4>1. now + 1 = start + Window
                <5>1. key \in DOMAIN attempts /\ w = attempts[key]
                    BY <1>8, <3>1, WindowOfType
                <5>2. now - attempts[key].started < Window
                      /\ ~(now' - attempts[key].started < Window)
                    BY <1>8, <1>10, <3>1, <5>1
                <5>3. attempts[key].started = start
                    BY <5>1
                <5>4. now - start < Window /\ ~((now + 1) - start < Window)
                    BY <1>2, <5>2, <5>3, Zenon
                <5>5. start \in Nat /\ Window \in Nat
                    BY <1>2, <1>3
                <5> HIDE DEF w
                <5> QED BY <1>2, <5>4, <5>5
            <4>2. PICK first \in admitted[key] : first[1] = start
                BY <1>4, <3>1
            <4>3. first \in InWindow(key, start)
                BY <1>3, <4>2 DEF InWindow
            <4>4. Left \subseteq InWindow(key, start) \ {first}
                <5>1. ASSUME NEW x \in Left PROVE x \in InWindow(key, start) \ {first}
                    <6>1. x \in admitted[key] /\ x[1] \in Nat /\ now + 1 < x[1] + Window
                        BY <1>4, <5>1
                    <6>2. start < x[1]
                        BY <1>2, <1>3, <4>1, <6>1
                    <6> QED BY <1>3, <4>2, <6>1, <6>2 DEF InWindow
                <5> QED BY <5>1
            <4>5. Cardinality(Left) < Cardinality(InWindow(key, start))
                  /\ Cardinality(Left) \in Nat /\ Cardinality(InWindow(key, start)) \in Nat
                BY <1>6, <4>3, <4>4, OneLessSize
            <4> QED BY <1>3, <1>4, <4>5
        <3>2. CASE key \notin DOMAIN OpenWindows
            <4>1. start = now /\ count = 0
                BY <3>2, WindowOfType
            <4>2. InWindow(key, now) = {}
                <5>1. Cardinality(InWindow(key, now)) = 0
                    BY <1>4, <1>6, <4>1, FS_CardinalityType
                <5> QED BY <1>6, <4>1, <5>1, FS_EmptySet
            <4>3. Left \subseteq BeforeWindow(key, start)
                <5>1. ASSUME NEW x \in Left PROVE x \in BeforeWindow(key, start)
                    <6>1. x \in admitted[key] /\ x[1] \in Nat /\ now + 1 < x[1] + Window
                        BY <1>4, <5>1
                    <6>2. x[1] < now
                        BY <1>2, <4>2, <6>1 DEF InWindow
                    <6>3. now < x[1] + Window
                        BY <1>2, <6>1
                    <6> QED BY <4>1, <6>1, <6>2, <6>3 DEF BeforeWindow
                <5> QED BY <5>1
            <4>4. Cardinality(Left) <= Cardinality(BeforeWindow(key, start))
                  /\ Cardinality(Left) \in Nat /\ Cardinality(BeforeWindow(key, start)) \in Nat
                BY <1>6, <4>3, PartSize
            <4> QED BY <1>4, <4>4
        <3> QED BY <3>1, <3>2
    <2> HIDE DEF w
    <2>6. Cardinality(InWindow(key, WindowOf(key).started)') <= WindowOf(key)'.count
        <3>1. Cardinality({}) = 0
            BY FS_EmptySet
        <3> QED BY <2>2, <2>3, <3>1
    <2>7. Cardinality(BeforeWindow(key, WindowOf(key).started)') < Limit
        BY <2>4, <2>5
    <2> HIDE DEF Left
    <2> QED BY <1>5, <1>7, <1>10, <2>6, <2>7 DEF KeyInv
<1> QED BY <1>9, <1>10

\* A restart forgets the attempts with the windows.
LEMMA RestartLogins ==
    ASSUME AdminTypeOK, LoginInv, Restart
    PROVE  LoginInv'
<1> USE AdminConstants
<1> SUFFICES ASSUME NEW key \in Keys PROVE KeyInv(key)'
    BY DEF LoginInv, Restart
<1>1. admitted'[key] = {} /\ DOMAIN attempts' = {} /\ now' \in Nat
    BY DEF Restart, AdminTypeOK
<1>2. key \notin (DOMAIN OpenWindows)'
    BY <1>1 DEF OpenWindows
<1>3. WindowOf(key)' = [started |-> now', count |-> 0]
    BY <1>2 DEF WindowOf
<1>4. /\ InWindow(key, WindowOf(key).started)' = {}
      /\ BeforeWindow(key, WindowOf(key).started)' = {}
      /\ \A a : AdmittedFrom(key, a)' = {}
    BY <1>1 DEF InWindow, BeforeWindow, AdmittedFrom
<1>5. WindowOf(key)'.count = 0
    BY <1>3
<1>6. IsFiniteSet(admitted'[key]) /\ admitted'[key] \subseteq (0..now') \X Nat
    BY <1>1, FS_EmptySet
<1> QED BY <1>2, <1>4, <1>5, <1>6, FS_EmptySet DEF KeyInv

\* Steps of the sessions leave the logins alone.
LEMMA OtherLogins ==
    ASSUME AdminTypeOK, LoginInv, UNCHANGED <<now, attempts, admitted>>
    PROVE  LoginInv'
<1>1. ASSUME NEW k \in Keys PROVE KeyInv(k)'
    <2>1. k \in DOMAIN OpenWindows => k \in DOMAIN attempts
        BY OpenWindowsKeep
    <2> QED BY <2>1, KeyUnmoved DEF LoginInv
<1> QED BY <1>1 DEF LoginInv

\* Every step keeps the invariant of the logins.
LEMMA LoginNext ==
    ASSUME AdminTypeOK, LoginInv, [AdminNext]_adminVars
    PROVE  LoginInv'
<1>1. ASSUME NEW key \in Keys, LoginRefused(key) PROVE LoginInv'
    BY <1>1, RefusedLogins
<1>2. ASSUME NEW key \in Keys, LoginFails(key) \/ LoginSucceeds(key) PROVE LoginInv'
    <2>1. LoginAdmitted(key)
        BY <1>2 DEF LoginFails, LoginSucceeds
    <2>2. DOMAIN admitted' = DOMAIN admitted
        BY <2>1 DEF LoginAdmitted
    <2> QED BY <2>1, <2>2, AdmittedKey, AdmittedOthers DEF LoginInv
<1>3. ASSUME Arrive PROVE LoginInv'
    BY <1>3, OtherLogins DEF Arrive, CheckRejects, CheckPasses
<1>4. ASSUME NEW r \in Requests, Handle(r) PROVE LoginInv'
    <2>1. UNCHANGED <<now, attempts, admitted>>
        BY <1>4 DEF Handle, Logout, Session, OtherHandler
    <2> QED BY <2>1, OtherLogins
<1>5. ASSUME Tick PROVE LoginInv'
    BY <1>5, TickKey DEF Tick, LoginInv
<1>6. CASE UNCHANGED adminVars
    BY <1>6, OtherLogins DEF adminVars
<1> QED BY <1>1, <1>2, <1>3, <1>4, <1>5, <1>6, RestartLogins DEF AdminNext

\* In no minute are 2 * Limit attempts of a key let through, whatever the keys, the limit and
\* the order of attempts, clean-ups and restarts.
THEOREM LoginsLimited == AdminSpec => []LoginsAreLimited
<1>1. LoginInv => LoginsAreLimited
    BY DEF LoginInv, KeyInv, LoginsAreLimited
<1>2. AdminTypeOK /\ LoginInv /\ [AdminNext]_adminVars => LoginInv'
    BY LoginNext
<1> QED BY <1>1, <1>2, LoginInitially, AdminTypeHolds, PTL DEF AdminSpec

-----------------------------------------------------------------------------
(* The refusals                                                             *)

\* The attempts of a key that were let through at a tick.
AtTick(key, tick) == {x \in admitted[key] : x[1] = tick}

\* The attempts of a key that its last minute holds.
LastMinute(key) == {x \in admitted[key] : x[1] + Window > now}

\* A window counts no attempt that was not let through. So that every attempt makes one more
\* element of the history, those of a tick are numbered by how many there were.
CountInv(key) ==
    /\ WindowOf(key).count <= Cardinality(InWindow(key, WindowOf(key).started))
    /\ \A x \in admitted[key] : x[2] <= Cardinality(AtTick(key, x[1]))

\* The inductive invariant of the refusals.
CauseInv == LoginInv /\ (\A key \in Keys : CountInv(key)) /\ RefusedForCause

\* Every part of the history is finite.
LEMMA PartsOfHistory ==
    ASSUME NEW key \in Keys, KeyInv(key)
    PROVE  /\ \A a : IsFiniteSet(InWindow(key, a)) /\ Cardinality(InWindow(key, a)) \in Nat
           /\ \A a : IsFiniteSet(AtTick(key, a)) /\ Cardinality(AtTick(key, a)) \in Nat
           /\ IsFiniteSet(LastMinute(key)) /\ Cardinality(LastMinute(key)) \in Nat
<1>1. IsFiniteSet(admitted[key])
    BY DEF KeyInv
<1>2. \A a : InWindow(key, a) \subseteq admitted[key] /\ AtTick(key, a) \subseteq admitted[key]
    BY DEF InWindow, AtTick
<1>3. LastMinute(key) \subseteq admitted[key]
    BY DEF LastMinute
<1> QED BY <1>1, <1>2, <1>3, PartSize

\* Nothing was refused at the start.
LEMMA CauseInitially == AdminInit => CauseInv
<1> SUFFICES ASSUME AdminInit PROVE CauseInv
    OBVIOUS
<1>1. LoginInv
    BY LoginInitially
<1>2. ASSUME NEW key \in Keys PROVE CountInv(key)
    <2>1. admitted[key] = {} /\ key \notin DOMAIN OpenWindows
        BY DEF AdminInit, OpenWindows
    <2>2. WindowOf(key) = [started |-> now, count |-> 0]
        BY <2>1 DEF WindowOf
    <2>3. InWindow(key, now) = {} /\ WindowOf(key).started = now /\ WindowOf(key).count = 0
        BY <2>1, <2>2 DEF InWindow
    <2>4. Cardinality(InWindow(key, WindowOf(key).started)) = 0
        BY <2>3, FS_EmptySet
    <2> QED BY <2>1, <2>3, <2>4 DEF CountInv
<1>3. RefusedForCause
    BY DEF AdminInit, RefusedForCause
<1> QED BY <1>1, <1>2, <1>3 DEF CauseInv

\* What CountInv says of a key that makes no attempt holds as long as its window stands.
LEMMA CountUnmoved ==
    ASSUME AdminTypeOK, NEW key \in Keys, CountInv(key), now' = now,
           admitted'[key] = admitted[key],
           key \in DOMAIN OpenWindows =>
               key \in DOMAIN attempts' /\ attempts'[key] = attempts[key],
           key \notin DOMAIN OpenWindows =>
               \/ key \notin DOMAIN attempts'
               \/ key \in DOMAIN attempts /\ attempts'[key] = attempts[key]
    PROVE  CountInv(key)'
<1>1. WindowOf(key)' = WindowOf(key)
    BY WindowUnmoved
<1>2. \A a : InWindow(key, a)' = InWindow(key, a) /\ AtTick(key, a)' = AtTick(key, a)
    BY DEF InWindow, AtTick
<1> QED BY <1>1, <1>2 DEF CountInv

\* An attempt that is let through is a new element of the history, in the window it counts in.
LEMMA CountAdmitted ==
    ASSUME AdminTypeOK, LoginInv, NEW key \in Keys, CountInv(key), LoginAdmitted(key)
    PROVE  CountInv(key)'
<1> USE AdminConstants
<1> PICK start, count, tick :
        start = WindowOf(key).started /\ count = WindowOf(key).count /\ tick = now
    OBVIOUS
<1> DEFINE x == <<tick, Cardinality(AtTick(key, tick)) + 1>>
<1>1. KeyInv(key) /\ KeyInv(key)'
    BY AdmittedKey DEF LoginInv
<1>2. now \in Nat /\ start \in 0..now /\ count \in Nat
    <2>1. WindowOf(key) \in [started : 0..now, count : 0..Limit] /\ now \in Nat
        BY WindowOfType DEF AdminTypeOK
    <2> QED BY <2>1
<1>3. now' = now /\ admitted'[key] = admitted[key] \union {x}
    BY DEF LoginAdmitted, LoginInv, AtTick
<1>4. x[1] = tick /\ x[2] = Cardinality(AtTick(key, tick)) + 1
    OBVIOUS
<1>5. \A a : Cardinality(AtTick(key, a)) \in Nat /\ IsFiniteSet(AtTick(key, a))
    BY <1>1, PartsOfHistory
<1>6. x \notin admitted[key]
    BY <1>4, <1>5 DEF CountInv
<1> HIDE DEF x
<1>7. /\ InWindow(key, start)' = InWindow(key, start) \union {x}
      /\ AtTick(key, tick)' = AtTick(key, tick) \union {x}
      /\ \A a : a # tick => AtTick(key, a)' = AtTick(key, a)
    BY <1>2, <1>3, <1>4 DEF InWindow, AtTick
<1>8. x \notin InWindow(key, start) /\ x \notin AtTick(key, tick)
    BY <1>6 DEF InWindow, AtTick
<1>9. /\ Cardinality(InWindow(key, start)') = Cardinality(InWindow(key, start)) + 1
      /\ Cardinality(AtTick(key, tick)') = Cardinality(AtTick(key, tick)) + 1
      /\ Cardinality(InWindow(key, start)) \in Nat
    <2>1. IsFiniteSet(InWindow(key, start)) /\ IsFiniteSet(AtTick(key, tick))
          /\ Cardinality(InWindow(key, start)) \in Nat
        BY <1>1, PartsOfHistory
    <2>2. Cardinality(InWindow(key, start) \union {x}) = Cardinality(InWindow(key, start)) + 1
        BY <1>8, <2>1, FS_AddElement
    <2>3. Cardinality(AtTick(key, tick) \union {x}) = Cardinality(AtTick(key, tick)) + 1
        BY <1>8, <2>1, FS_AddElement
    <2> QED BY <1>7, <2>1, <2>2, <2>3
<1>10. WindowOf(key)'.started = start /\ WindowOf(key)'.count = count + 1
    BY AdmittedWindow
<1>11. WindowOf(key)'.count <= Cardinality(InWindow(key, WindowOf(key).started)')
    <2>1. InWindow(key, WindowOf(key).started)' = InWindow(key, start)'
        BY <1>10 DEF InWindow
    <2>2. count <= Cardinality(InWindow(key, start))
        BY DEF CountInv
    <2> QED BY <1>2, <1>9, <1>10, <2>1, <2>2
<1>12. ASSUME NEW y \in admitted'[key]
       PROVE  y[2] <= Cardinality(AtTick(key, y[1])')
    <2>1. CASE y = x
        BY <1>4, <1>5, <1>9, <2>1
    <2>2. CASE y \in admitted[key]
        <3>1. y[2] <= Cardinality(AtTick(key, y[1])) /\ y[2] \in Nat
            BY <1>1, <2>2 DEF CountInv, KeyInv
        <3>2. CASE y[1] = tick
            BY <1>5, <1>9, <3>1, <3>2
        <3>3. CASE y[1] # tick
            BY <1>7, <3>1, <3>3
        <3> QED BY <3>2, <3>3
    <2> QED BY <1>3, <2>1, <2>2
<1> QED BY <1>11, <1>12 DEF CountInv

\* A window that passes counts nothing any more.
LEMMA CountTick ==
    ASSUME AdminTypeOK, LoginInv, Tick, NEW key \in Keys, CountInv(key)
    PROVE  CountInv(key)'
<1> USE AdminConstants
<1>1. now' = now + 1 /\ attempts' = attempts /\ admitted' = admitted /\ now \in Nat
    BY DEF Tick, AdminTypeOK
<1>2. \A a : InWindow(key, a)' = InWindow(key, a) /\ AtTick(key, a)' = AtTick(key, a)
    BY <1>1 DEF InWindow, AtTick
<1>3. KeyInv(key)
    BY DEF LoginInv
<1>4. /\ DOMAIN OpenWindows = {k \in DOMAIN attempts : now - attempts[k].started < Window}
      /\ (DOMAIN OpenWindows)' = {k \in DOMAIN attempts : now' - attempts[k].started < Window}
      /\ \A k \in (DOMAIN OpenWindows)' : OpenWindows'[k] = attempts[k]
    BY <1>1 DEF OpenWindows
<1>5. CASE key \in (DOMAIN OpenWindows)'
    <2>1. key \in DOMAIN OpenWindows
        <3>1. key \in DOMAIN attempts /\ attempts[key].started \in Nat
            BY <1>1, <1>4, <1>5 DEF AdminTypeOK
        <3> QED BY <1>1, <1>4, <1>5, <3>1
    <2>2. WindowOf(key)' = WindowOf(key)
        BY <1>4, <1>5, <2>1, OpenWindowsKeep DEF WindowOf
    <2> QED BY <1>1, <1>2, <2>2 DEF CountInv
<1>6. CASE key \notin (DOMAIN OpenWindows)'
    <2>1. WindowOf(key)' = [started |-> now', count |-> 0]
        BY <1>6 DEF WindowOf
    <2>2. WindowOf(key)'.count = 0 /\ WindowOf(key)'.started = now'
        BY <2>1
    <2>3. InWindow(key, WindowOf(key).started)' = InWindow(key, now')
        BY <1>1, <2>2 DEF InWindow
    <2>4. Cardinality(InWindow(key, now')) \in Nat
        BY <1>3, PartsOfHistory
    <2> QED BY <1>1, <1>2, <2>2, <2>3, <2>4 DEF CountInv
<1> QED BY <1>5, <1>6

\* A refused key has used its limit: its window is open, so it lies in the last minute.
LEMMA RefusedCause ==
    ASSUME AdminTypeOK, CauseInv, NEW key \in Keys, LoginRefused(key)
    PROVE  RefusedForCause'
<1> USE AdminConstants
<1> DEFINE start == WindowOf(key).started
<1>1. KeyInv(key) /\ CountInv(key)
    BY DEF CauseInv, LoginInv
<1>2. /\ refused' = {key} /\ admitted' = admitted /\ now' = now
      /\ WindowOf(key).count \in Nat /\ WindowOf(key).count >= Limit
    BY WindowOfType DEF LoginRefused, WithinLimit
<1>3. now \in Nat /\ start \in Nat /\ start + Window > now
    <2>1. key \in DOMAIN OpenWindows
        BY RefusedKeeps
    <2>2. key \in DOMAIN attempts /\ WindowOf(key) = attempts[key]
          /\ now - attempts[key].started < Window
        BY <2>1, OpenWindowsKeep, WindowOfType
    <2>3. now \in Nat /\ attempts[key].started \in 0..now
        BY <2>2 DEF AdminTypeOK
    <2> QED BY <2>2, <2>3
<1>4. InWindow(key, start) \subseteq LastMinute(key)
    <2>1. \A x \in admitted[key] : x[1] \in Nat
        BY <1>1, <1>3 DEF KeyInv
    <2> QED BY <1>3, <2>1 DEF InWindow, LastMinute
<1>5. /\ Cardinality(InWindow(key, start)) <= Cardinality(LastMinute(key))
      /\ Cardinality(InWindow(key, start)) \in Nat /\ Cardinality(LastMinute(key)) \in Nat
    BY <1>1, <1>4, PartsOfHistory, PartSize
<1>6. Cardinality(LastMinute(key)) >= Limit
    BY <1>1, <1>2, <1>5 DEF CountInv
<1>7. LastMinute(key)' = LastMinute(key)
    BY <1>2 DEF LastMinute
<1> QED BY <1>2, <1>6, <1>7 DEF RefusedForCause, LastMinute

\* Every step keeps the invariant of the refusals.
LEMMA CauseNext ==
    ASSUME AdminTypeOK, CauseInv, [AdminNext]_adminVars
    PROVE  CauseInv'
<1>1. LoginInv /\ LoginInv'
    BY LoginNext DEF CauseInv
<1>2. \A k \in Keys : CountInv(k)
    BY DEF CauseInv
<1>3. ASSUME UNCHANGED <<now, attempts, admitted>>
      PROVE  \A k \in Keys : CountInv(k)'
    <2>1. \A k \in Keys : k \in DOMAIN OpenWindows => k \in DOMAIN attempts
        BY OpenWindowsKeep
    <2> QED BY <1>2, <1>3, <2>1, CountUnmoved
<1>4. ASSUME refused' = {} PROVE RefusedForCause'
    BY <1>4 DEF RefusedForCause
<1>5. ASSUME NEW key \in Keys, LoginRefused(key) PROVE CauseInv'
    <2>1. attempts' = OpenWindows /\ now' = now /\ admitted' = admitted
        BY <1>5, RefusedKeeps DEF LoginRefused
    <2>2. ASSUME NEW k \in Keys PROVE CountInv(k)'
        <3>1. /\ k \in DOMAIN OpenWindows => k \in DOMAIN attempts' /\ attempts'[k] = attempts[k]
              /\ k \notin DOMAIN OpenWindows => k \notin DOMAIN attempts'
            BY <2>1, OpenWindowsKeep
        <3> QED BY <1>2, <2>1, <3>1, CountUnmoved
    <2> QED BY <1>1, <1>5, <2>2, RefusedCause DEF CauseInv
<1>6. ASSUME NEW key \in Keys, LoginFails(key) \/ LoginSucceeds(key) PROVE CauseInv'
    <2>1. LoginAdmitted(key) /\ refused' = {} /\ now' = now
        BY <1>6 DEF LoginFails, LoginSucceeds, LoginAdmitted
    <2>2. CountInv(key)'
        BY <1>1, <1>2, <2>1, CountAdmitted
    <2>3. ASSUME NEW k \in Keys \ {key} PROVE CountInv(k)'
        <3>1. admitted'[k] = admitted[k]
            <4>1. admitted' = [admitted EXCEPT ![key] = admitted'[key]]
                BY <2>1 DEF LoginAdmitted
            <4> QED BY <1>1, <4>1 DEF LoginInv
        <3>2. /\ k \in DOMAIN OpenWindows => k \in DOMAIN attempts' /\ attempts'[k] = attempts[k]
              /\ k \notin DOMAIN OpenWindows => k \notin DOMAIN attempts'
            BY <2>1, AdmittedType
        <3> QED BY <1>2, <2>1, <3>1, <3>2, CountUnmoved
    <2> QED BY <1>1, <1>4, <2>1, <2>2, <2>3 DEF CauseInv
<1>7. ASSUME Arrive PROVE CauseInv'
    BY <1>1, <1>3, <1>4, <1>7 DEF Arrive, CheckRejects, CheckPasses, CauseInv
<1>8. ASSUME NEW r \in Requests, Handle(r) PROVE CauseInv'
    <2>1. UNCHANGED <<now, attempts, admitted>> /\ refused' = {}
        BY <1>8 DEF Handle, Logout, Session, OtherHandler
    <2> QED BY <1>1, <1>3, <1>4, <2>1 DEF CauseInv
<1>9. ASSUME Tick PROVE CauseInv'
    BY <1>1, <1>2, <1>4, <1>9, CountTick DEF Tick, CauseInv
<1>10. ASSUME Restart PROVE CauseInv'
    <2>1. ASSUME NEW key \in Keys PROVE CountInv(key)'
        <3>1. admitted'[key] = {} /\ DOMAIN attempts' = {}
            BY <1>10 DEF Restart
        <3>2. key \notin (DOMAIN OpenWindows)'
            BY <3>1 DEF OpenWindows
        <3>3. WindowOf(key)' = [started |-> now', count |-> 0]
            BY <3>2 DEF WindowOf
        <3>4. InWindow(key, WindowOf(key).started)' = {}
            BY <3>1 DEF InWindow
        <3>5. Cardinality(InWindow(key, WindowOf(key).started)') = 0 /\ WindowOf(key)'.count = 0
            BY <3>3, <3>4, FS_EmptySet
        <3> QED BY <3>1, <3>5 DEF CountInv
    <2> QED BY <1>1, <1>4, <1>10, <2>1 DEF CauseInv, Restart
<1>11. CASE UNCHANGED adminVars
    <2>1. UNCHANGED <<now, attempts, admitted, refused>>
        BY <1>11 DEF adminVars
    <2>2. RefusedForCause'
        BY <2>1 DEF CauseInv, RefusedForCause
    <2> QED BY <1>1, <1>3, <2>1, <2>2 DEF CauseInv
<1> QED BY <1>5, <1>6, <1>7, <1>8, <1>9, <1>10, <1>11 DEF AdminNext

\* A key is refused only if the minute before has used its whole limit, whatever the other keys
\* try, what is cleaned up in between and how often the process restarts.
THEOREM LoginsRefusedForCause == AdminSpec => []RefusedForCause
<1>1. CauseInv => RefusedForCause
    BY DEF CauseInv
<1>2. AdminTypeOK /\ CauseInv /\ [AdminNext]_adminVars => CauseInv'
    BY CauseNext
<1> QED BY <1>1, <1>2, CauseInitially, AdminTypeHolds, PTL DEF AdminSpec

-----------------------------------------------------------------------------
(* CredentialSource                                                         *)

\* The states of the deployment, as far as they are needed below.
SourceTypeOK ==
    /\ config \in Configs
    /\ database \in Databases
    /\ newest \in Nat /\ Granted <= newest
    /\ credential \in Credentials(newest)
    /\ file \in {Absent, Broken} \/ file \in Contents(newest)
    /\ revoked \subseteq 1..newest

\* The file that a refresh wrote is the credential it obtained, which is no API key.
SavedInv ==
    saved # <<>> =>
        \E c \in Credentials(newest) :
            /\ saved = <<c>> /\ file = Written(c)
            /\ c.method # "api_key" /\ c.access # 0

\* No file that the gateway can write holds a token that was rotated away.
RevokedInv ==
    /\ config.jsonPath = "writable" => LoginOf(file) \cap revoked = {}
    /\ RotatedTokenIsGone

\* The file is a second credential for auto.
SecondCredential == config.source = "auto" /\ saved # <<>> /\ Candidates \ {"file"} # {}

\* A deployment that has settled starts again, unless its own file is a second credential.
SettledInv ==
    /\ settled => Discovers \/ SecondCredential
    /\ gateway = "refused" /\ settled => ~Discovers

SourceInv == SourceTypeOK /\ SavedInv /\ RevokedInv /\ SettledInv

-----------------------------------------------------------------------------
(* The loaders and discover                                                 *)

\* The assumption on a configuration, a file and a database.
LEMMA SourceConstants ==
    /\ Granted \in Nat
    /\ \A c \in Configs :
          /\ c \in [source : Sources, jsonPath : {"none", "read_only", "writable"},
                    access : 0..Granted, refresh : 0..Granted, key : 0..Granted]
          /\ c.key = 0 \/ (c.access = 0 /\ c.refresh = 0)
    /\ \A f \in Files : f \in {Absent, Broken} \/ f \in Contents(Granted)
    /\ \A d \in Databases :
          d = Absent \/ d \in [is : {"database"}, logins : Seq(Credentials(Granted))]
BY SourceAssumption DEF SourceAssumption

\* More tokens, more credentials and more files.
LEMMA MoreTokens ==
    ASSUME NEW m \in Nat, NEW n \in Nat, m <= n
    PROVE  Credentials(m) \subseteq Credentials(n) /\ Contents(m) \subseteq Contents(n)
<1>1. 0..m \subseteq 0..n
    OBVIOUS
<1> QED BY <1>1 DEF Credentials, Contents

\* A file is absent, broken or in order.
LEMMA KindsOfFile ==
    /\ Absent.is = "absent" /\ Broken.is = "broken"
    /\ \A n : \A f \in Contents(n) : f.is = "file" /\ f # Absent /\ f # Broken
BY DEF Absent, Broken, Contents

\* What is written for a credential that is no API key loads, as that credential.
LEMMA WrittenLoads ==
    ASSUME NEW n \in Nat, NEW c \in Credentials(n), c.method # "api_key", c.access # 0
    PROVE  /\ Written(c) \in Contents(n)
           /\ FileLoads(Written(c))
           /\ FileCredential(Written(c)) = c
           /\ LoginOf(Written(c)) = {c.refresh}
<1>1. /\ c.method \in Methods /\ c.method # "none" /\ c.access \in 0..n /\ c.refresh \in 0..n
      /\ c.expires \in BOOLEAN /\ c.details \in Details /\ 0 \in 0..n
    BY DEF Credentials, Methods
<1>2. Written(c) = [is |-> "file", method |-> c.method, access |-> c.access,
                    refresh |-> c.refresh, key |-> 0, expires |-> c.expires,
                    details |-> c.details]
    BY DEF Written
<1>3. Written(c) \in Contents(n)
    BY <1>1, <1>2 DEF Contents
<1>4. FileMethod(Written(c)) = c.method
    BY <1>1, <1>2 DEF FileMethod
<1>5. FileCredential(Written(c)) =
          [method |-> c.method, access |-> c.access, refresh |-> c.refresh,
           expires |-> c.expires, details |-> c.details]
    BY <1>2, <1>4 DEF FileCredential, Credential
<1>6. c = [method |-> c.method, access |-> c.access, refresh |-> c.refresh,
           expires |-> c.expires, details |-> c.details]
    BY DEF Credentials
<1>7. FileCredential(Written(c)) = c
    BY <1>5, <1>6, Zenon
<1>8. FileLoads(Written(c))
    BY <1>2, <1>4, <1>7 DEF FileLoads, Valid
<1>9. LoginOf(Written(c)) = {c.refresh}
    BY <1>2 DEF LoginOf
<1> QED BY <1>3, <1>7, <1>8, <1>9

\* What a file holds is a credential of its tokens.
LEMMA FileCredentialType ==
    ASSUME NEW n \in Nat, NEW f \in Contents(n)
    PROVE  /\ FileCredential(f) \in Credentials(n)
           /\ FileCredential(f).refresh = f.refresh
           /\ LoginOf(f) = {f.refresh}
<1>1. FileMethod(f) \in Methods
    BY DEF FileMethod, Contents, Methods
<1>2. FileCredential(f) =
          [method |-> FileMethod(f), access |-> IF f.key # 0 THEN f.key ELSE f.access,
           refresh |-> f.refresh, expires |-> f.expires, details |-> f.details]
    BY DEF FileCredential, Credential
<1>3. (IF f.key # 0 THEN f.key ELSE f.access) \in 0..n
    BY DEF Contents
<1>4. FileCredential(f) \in Credentials(n)
    BY <1>1, <1>2, <1>3 DEF Credentials, Contents
<1>5. f.is = "file"
    BY DEF Contents
<1> QED BY <1>2, <1>4, <1>5 DEF LoginOf

\* What the environment holds is one too.
LEMMA EnvironmentType ==
    ASSUME NEW c \in Configs
    PROVE  EnvironmentCredential(c) \in Credentials(Granted)
<1>1. c.access \in 0..Granted /\ c.refresh \in 0..Granted /\ c.key \in 0..Granted
    BY SourceConstants
<1> DEFINE a == IF c.access # 0 THEN c.access ELSE c.key
           mt == IF c.key # 0 THEN "api_key" ELSE "refresh_token"
<1>2. a \in 0..Granted /\ mt \in Methods /\ "configured" \in Details /\ FALSE \in BOOLEAN
    BY <1>1 DEF Methods, Details
<1>3. EnvironmentCredential(c) =
          [method |-> mt, access |-> a, refresh |-> c.refresh, expires |-> FALSE,
           details |-> "configured"]
    BY DEF EnvironmentCredential, Credential
<1> HIDE DEF a, mt
<1> QED BY <1>1, <1>2, <1>3 DEF Credentials

\* The one candidate of a discover that succeeds is the one discovered.
LEMMA OneCandidate ==
    ASSUME Discovers
    PROVE  \E place \in Looked : Candidates = {place} /\ Discovered = CredentialIn(place)
<1>1. Candidates \subseteq {"config", "file", "database"}
    BY DEF Candidates, Looked
<1>2. IsFiniteSet({"config", "file", "database"})
    <2>1. IsFiniteSet({}) /\ \A S, x : IsFiniteSet(S) => IsFiniteSet(S \union {x})
        BY FS_EmptySet, FS_AddElement
    <2>2. IsFiniteSet((({} \union {"config"}) \union {"file"}) \union {"database"})
        BY <2>1
    <2>3. (({} \union {"config"}) \union {"file"}) \union {"database"}
              = {"config", "file", "database"}
        OBVIOUS
    <2> QED BY <2>2, <2>3
<1>3. IsFiniteSet(Candidates) /\ Cardinality(Candidates) = 1
    BY <1>1, <1>2, FS_Subset DEF Discovers
<1>4. PICK place : Candidates = {place}
    BY <1>3, FS_Singleton
<1>5. (CHOOSE p \in Candidates : TRUE) = place
    BY <1>4
<1>6. place \in Looked
    BY <1>4 DEF Candidates
<1> QED BY <1>4, <1>5, <1>6 DEF Discovered

\* Where a place is looked at.
LEMMA LookedPlaces ==
    /\ "config" \in Looked <=> config.source \in {"auto", "env", "api_key"}
    /\ "file" \in Looked <=> config.source = "json" \/ (config.source = "auto" /\ file # Absent)
    /\ "database" \in Looked
           <=> config.source = "sqlite" \/ (config.source = "auto" /\ database # Absent)
    /\ "config" \in Candidates <=> "config" \in Looked /\ EnvironmentHasOne(config)
    /\ "file" \in Candidates <=> "file" \in Looked
    /\ "database" \in Candidates <=> "database" \in Looked
BY DEF Looked, LooksAt, Candidates

\* When a place fails.
LEMMA FailingPlaces ==
    /\ Fails("config") <=> config.source = "api_key" /\ config.key = 0
    /\ Fails("file") <=> ~FileLoads(file)
    /\ Fails("database") <=> database = Absent \/ ~DatabaseLoads(database)
BY DEF Fails

\* A discover that succeeds finds a credential of tokens that were issued, and in the file the
\* one that is in it.
LEMMA DiscoveredType ==
    ASSUME SourceTypeOK, Discovers
    PROVE  /\ Discovered \in Credentials(newest)
           /\ config.source = "json" =>
                 /\ file \in Contents(newest) /\ LoginOf(file) = {Discovered.refresh}
<1>1. PICK place \in Looked : Candidates = {place} /\ Discovered = CredentialIn(place)
    BY OneCandidate
<1>2. ~Fails(place)
    BY DEF Discovers
<1>3. /\ Credentials(Granted) \subseteq Credentials(newest)
      /\ newest \in Nat
    BY MoreTokens, SourceConstants DEF SourceTypeOK
<1>4. CASE place = "config"
    <2>1. Discovered = EnvironmentCredential(config)
        BY <1>1, <1>4 DEF CredentialIn
    <2>2. config.source # "json"
        BY <1>1, <1>4, LookedPlaces
    <2> QED BY <1>3, <2>1, <2>2, EnvironmentType DEF SourceTypeOK
<1>5. CASE place = "file"
    <2>1. Discovered = FileCredential(file) /\ FileLoads(file)
        BY <1>1, <1>2, <1>5, FailingPlaces DEF CredentialIn
    <2>2. file \in Contents(newest)
        BY <2>1, KindsOfFile DEF FileLoads, SourceTypeOK
    <2> QED BY <1>3, <2>1, <2>2, FileCredentialType
<1>6. CASE place = "database"
    <2>1. Discovered = database.logins[1] /\ database # Absent /\ DatabaseLoads(database)
        BY <1>1, <1>2, <1>6, FailingPlaces DEF CredentialIn
    <2>2. database.logins \in Seq(Credentials(Granted)) /\ Len(database.logins) = 1
        BY <2>1, SourceConstants DEF SourceTypeOK, DatabaseLoads
    <2>3. database.logins[1] \in Credentials(Granted)
        BY <2>2
    <2>4. config.source # "json"
        BY <1>1, <1>6, LookedPlaces
    <2> QED BY <1>3, <2>1, <2>3, <2>4
<1> QED BY <1>1, <1>4, <1>5, <1>6 DEF Looked

\* What discover looks at, after a step that leaves it alone.
LEMMA DiscoverUnchanged ==
    ASSUME UNCHANGED <<config, file, database>>
    PROVE  /\ Discovers' = Discovers /\ Candidates' = Candidates /\ Looked' = Looked
           /\ SecondCredential' <=> config.source = "auto" /\ saved' # <<>>
                                    /\ Candidates \ {"file"} # {}
BY DEF Discovers, Candidates, Looked, LooksAt, Fails, SecondCredential

\* A refresh that writes the file leaves discover what it was, but for a second credential.
LEMMA WrittenStaysSettled ==
    ASSUME SourceTypeOK, UNCHANGED <<config, database>>, FileLoads(file'), file' # Absent,
           saved' # <<>>, Discovers \/ SecondCredential
    PROVE  Discovers' \/ SecondCredential'
<1>1. /\ "config" \in Looked' <=> config.source \in {"auto", "env", "api_key"}
      /\ "file" \in Looked' <=> config.source \in {"json", "auto"}
      /\ "database" \in Looked'
             <=> config.source = "sqlite" \/ (config.source = "auto" /\ database # Absent)
      /\ "config" \in Candidates' <=> "config" \in Looked' /\ EnvironmentHasOne(config)
      /\ "file" \in Candidates' <=> "file" \in Looked'
      /\ "database" \in Candidates' <=> "database" \in Looked'
    BY DEF Looked, LooksAt, Candidates
<1>2. /\ Fails("config")' <=> Fails("config")
      /\ ~Fails("file")'
      /\ Fails("database")' <=> Fails("database")
    BY DEF Fails
<1>3. /\ Looked' \subseteq {"config", "file", "database"}
      /\ Candidates' \subseteq {"config", "file", "database"}
      /\ Candidates \subseteq {"config", "file", "database"}
      /\ Discovers' <=> /\ \A place \in Looked' : ~(Fails(place)')
                        /\ Cardinality(Candidates') = 1
    BY DEF Discovers, Looked, Candidates
<1>4. config.source \in Sources
    BY SourceConstants DEF SourceTypeOK
<1>5. CASE config.source \in {"env", "api_key", "sqlite"}
    <2>1. Discovers
        BY <1>5 DEF SecondCredential
    <2>2. Looked' = Looked /\ Candidates' = Candidates
        BY <1>5 DEF Looked, LooksAt, Candidates
    <2>3. "file" \notin Looked
        BY <1>5, LookedPlaces
    <2>4. \A place \in Looked' : ~(Fails(place)')
        <3>1. ~Fails("config")' \/ "config" \notin Looked
            BY <1>2, <2>1 DEF Discovers
        <3>2. ~Fails("database")' \/ "database" \notin Looked
            BY <1>2, <2>1 DEF Discovers
        <3> QED BY <1>3, <2>2, <2>3, <3>1, <3>2
    <2> QED BY <1>3, <2>1, <2>2, <2>4 DEF Discovers
<1>6. CASE config.source = "json"
    <2>1. Looked' = {"file"} /\ Candidates' = {"file"}
        BY <1>1, <1>3, <1>6
    <2>2. Cardinality(Candidates') = 1
        BY <2>1, FS_Singleton
    <2> QED BY <1>2, <1>3, <2>1, <2>2
<1>7. CASE config.source = "auto"
    <2>1. Candidates' \ {"file"} = Candidates \ {"file"}
        BY <1>1, <1>3, <1>7, LookedPlaces
    <2>2. CASE Candidates \ {"file"} # {}
        BY <1>7, <2>1, <2>2 DEF SecondCredential
    <2>3. CASE Candidates \ {"file"} = {}
        <3>1. Discovers
            BY <2>3 DEF SecondCredential
        <3>2. Candidates' = {"file"}
            BY <1>1, <1>7, <2>1, <2>3
        <3>3. Cardinality(Candidates') = 1
            BY <3>2, FS_Singleton
        <3>4. ~Fails("config")'
            BY <1>2, <1>7, FailingPlaces
        <3>5. "database" \notin Looked'
            BY <1>1, <3>2
        <3>6. \A place \in Looked' : ~(Fails(place)')
            BY <1>2, <1>3, <3>4, <3>5
        <3> QED BY <1>3, <3>3, <3>6
    <2> QED BY <2>2, <2>3
<1> QED BY <1>4, <1>5, <1>6, <1>7 DEF Sources

-----------------------------------------------------------------------------
(* The invariant                                                            *)

\* A deployment that has never been started has settled nothing and written nothing.
LEMMA SourceInitially == SourceInit => SourceInv
<1> SUFFICES ASSUME SourceInit PROVE SourceInv
    OBVIOUS
<1>1. SourceTypeOK
    <2>1. newest \in Nat /\ Granted <= newest /\ newest = Granted
        BY SourceConstants DEF SourceInit
    <2>2. credential \in Credentials(newest)
        BY <2>1, EnvironmentType DEF SourceInit
    <2>3. file \in {Absent, Broken} \/ file \in Contents(newest)
        BY <2>1, SourceConstants DEF SourceInit
    <2> QED BY <2>1, <2>2, <2>3 DEF SourceInit, SourceTypeOK
<1> QED BY <1>1 DEF SourceInit, SourceInv, SavedInv, RevokedInv, RotatedTokenIsGone, SettledInv

\* A step that keeps the places, the tokens and the history keeps what is said of them.
LEMMA PlacesUnchanged ==
    ASSUME SourceInv, UNCHANGED <<config, file, database, newest, revoked, saved>>,
           credential' \in Credentials(newest)
    PROVE  /\ SourceTypeOK' /\ SavedInv'
           /\ config'.jsonPath = "writable" => LoginOf(file') \cap revoked' = {}
           /\ Discovers' = Discovers /\ SecondCredential' = SecondCredential
<1>1. SourceTypeOK' /\ SavedInv'
    BY DEF SourceInv, SourceTypeOK, SavedInv
<1>2. Discovers' = Discovers /\ SecondCredential' = SecondCredential
    BY DiscoverUnchanged DEF SecondCredential
<1> QED BY <1>1, <1>2 DEF SourceInv, RevokedInv

\* A start, whether the credential is found or not.
LEMMA StartKeeps ==
    ASSUME SourceInv, Start
    PROVE  SourceInv'
<1>1. UNCHANGED <<config, file, database, newest, revoked, saved>>
    BY DEF Start
<1>2. CASE Discovers
    <2>1. gateway' = "starting" /\ credential' = Discovered
        BY <1>2 DEF Start
    <2>2. /\ credential' \in Credentials(newest)
          /\ config.source = "json" => LoginOf(file) = {credential'.refresh}
        BY <1>2, <2>1, DiscoveredType DEF SourceInv
    <2>3. RotatedTokenIsGone'
        BY <1>1, <2>2 DEF SourceInv, RevokedInv, RotatedTokenIsGone
    <2>4. SettledInv'
        <3>1. Discovers'
            BY <1>1, <1>2, <2>2, PlacesUnchanged
        <3> QED BY <2>1, <3>1 DEF SettledInv
    <2> QED BY <1>1, <2>2, <2>3, <2>4, PlacesUnchanged DEF SourceInv, RevokedInv
<1>3. CASE ~Discovers
    <2>1. gateway' = "refused" /\ credential' = credential /\ settled' = (settled \/ Discovers)
        BY <1>3 DEF Start
    <2>2. credential' \in Credentials(newest)
        BY <2>1 DEF SourceInv, SourceTypeOK
    <2>3. RotatedTokenIsGone'
        BY <2>1 DEF RotatedTokenIsGone
    <2>4. SettledInv'
        <3>1. Discovers' = Discovers /\ SecondCredential' = SecondCredential
            BY <1>1, <2>2, PlacesUnchanged
        <3>2. settled' => settled
            BY <1>3, <2>1
        <3>3. settled => Discovers \/ SecondCredential
            BY DEF SourceInv, SettledInv
        <3> QED BY <1>3, <3>1, <3>2, <3>3 DEF SettledInv
    <2> QED BY <1>1, <2>2, <2>3, <2>4, PlacesUnchanged DEF SourceInv, RevokedInv
<1> QED BY <1>2, <1>3

\* A reload, that succeeds.
LEMMA ReloadKeeps ==
    ASSUME SourceInv, Reload
    PROVE  SourceInv'
<1>1. UNCHANGED <<config, file, database, gateway, newest, revoked, saved, settled>>
      /\ credential' = Discovered /\ Discovers /\ gateway = "running"
    BY DEF Reload
<1>2. /\ credential' \in Credentials(newest)
      /\ config.source = "json" => LoginOf(file) = {credential'.refresh}
    BY <1>1, DiscoveredType DEF SourceInv
<1>3. RotatedTokenIsGone'
    BY <1>1, <1>2 DEF SourceInv, RevokedInv, RotatedTokenIsGone
<1>4. SettledInv'
    BY <1>1, <1>2, PlacesUnchanged DEF SourceInv, SettledInv
<1> QED BY <1>1, <1>2, <1>3, <1>4, PlacesUnchanged DEF SourceInv, RevokedInv

\* The other steps of the process, and of time.
LEMMA GatewayKeeps ==
    ASSUME SourceInv, Ready \/ StartFails \/ Stop \/ BecomesDue \/ UNCHANGED sourceVars
    PROVE  SourceInv'
<1>1. UNCHANGED <<config, file, database, credential, newest, revoked, saved, settled>>
    BY DEF Ready, StartFails, Stop, BecomesDue, sourceVars
<1>2. /\ gateway' \in {"starting", "running"} => gateway \in {"starting", "running"}
      /\ gateway' = "refused" => gateway = "refused"
    BY DEF Ready, StartFails, Stop, BecomesDue, sourceVars
<1>3. credential' \in Credentials(newest)
    BY <1>1 DEF SourceInv, SourceTypeOK
<1>4. RotatedTokenIsGone'
    BY <1>1, <1>2 DEF SourceInv, RevokedInv, RotatedTokenIsGone
<1>5. SettledInv'
    BY <1>1, <1>2, <1>3, PlacesUnchanged DEF SourceInv, SettledInv
<1> QED BY <1>1, <1>3, <1>4, <1>5, PlacesUnchanged DEF SourceInv, RevokedInv

\* A refresh: its answer is a credential of one more token, the file is the gateway's own if it
\* can be written, and what was rotated away is neither in memory nor in the file.
LEMMA RefreshKeeps ==
    ASSUME SourceInv, Refresh
    PROVE  SourceInv'
<1> PICK rotates \in BOOLEAN, past \in BOOLEAN :
        /\ revoked' = IF rotates THEN revoked \cup {credential.refresh} ELSE revoked
        /\ credential' = [credential EXCEPT !.access = newest', !.expires = past,
                                            !.refresh = IF rotates THEN newest' ELSE @]
    BY DEF Refresh
<1>1. /\ UNCHANGED <<config, database, due, settled>>
      /\ newest' = newest + 1 /\ newest \in Nat
      /\ credential.method # "api_key"
      /\ credential.refresh \notin revoked /\ credential.refresh # 0
      /\ gateway \in {"starting", "running"}
      /\ gateway' = IF gateway = "starting" /\ config.jsonPath = "read_only" THEN "failed"
                    ELSE gateway
    BY DEF Refresh, NeedsRefresh, SourceInv, SourceTypeOK
<1>2. credential \in Credentials(newest)
    BY DEF SourceInv, SourceTypeOK
<1>3. /\ credential'.access = newest' /\ credential'.method = credential.method
      /\ credential'.refresh = IF rotates THEN newest' ELSE credential.refresh
      /\ credential' \in Credentials(newest')
    <2>1. 0..newest \subseteq 0..newest' /\ newest' \in 0..newest'
        BY <1>1
    <2> QED BY <1>1, <1>2, <2>1 DEF Credentials
<1>4. revoked \subseteq 1..newest /\ revoked' \subseteq 1..newest'
    <2>1. revoked \subseteq 1..newest /\ credential.refresh \in 0..newest
        BY <1>2 DEF SourceInv, SourceTypeOK, Credentials
    <2> QED BY <1>1, <2>1
<1>5. credential'.refresh \notin revoked'
    <2>1. credential.refresh \in 0..newest
        BY <1>2 DEF Credentials
    <2> QED BY <1>1, <1>3, <1>4, <2>1
<1>6. SourceTypeOK'
    <2>1. file' \in {Absent, Broken} \/ file' \in Contents(newest')
        <3>1. CASE Persists
            <4>1. file' = Written(credential')
                BY <3>1 DEF Refresh
            <4>2. credential'.method # "api_key" /\ credential'.access # 0 /\ newest' \in Nat
                BY <1>1, <1>3
            <4> QED BY <1>3, <4>1, <4>2, WrittenLoads
        <3>2. CASE ~Persists
            <4>1. file' = file /\ Contents(newest) \subseteq Contents(newest')
                BY <1>1, <3>2, MoreTokens DEF Refresh
            <4> QED BY <4>1 DEF SourceInv, SourceTypeOK
        <3> QED BY <3>1, <3>2
    <2>2. newest' \in Nat /\ Granted <= newest'
        BY <1>1, SourceConstants DEF SourceInv, SourceTypeOK
    <2> QED BY <1>1, <1>3, <1>4, <2>1, <2>2 DEF SourceInv, SourceTypeOK
<1>7. RotatedTokenIsGone'
    BY <1>5 DEF RotatedTokenIsGone
<1>8. CASE Persists
    <2>1. file' = Written(credential') /\ saved' = <<credential'>>
        BY <1>8 DEF Refresh
    <2>2. credential'.method # "api_key" /\ credential'.access # 0 /\ newest' \in Nat
        BY <1>1, <1>3
    <2>3. SavedInv'
        BY <1>3, <2>1, <2>2 DEF SavedInv
    <2>4. /\ FileLoads(file') /\ file' \in Contents(newest')
          /\ LoginOf(file') = {credential'.refresh}
        BY <1>3, <2>1, <2>2, WrittenLoads
    <2>5. file' # Absent
        BY <2>4, KindsOfFile
    <2>6. SettledInv'
        <3>1. saved' # <<>> /\ gateway' # "refused"
            BY <1>1, <2>1
        <3>2. ASSUME settled PROVE Discovers' \/ SecondCredential'
            <4>1. Discovers \/ SecondCredential
                BY <3>2 DEF SourceInv, SettledInv
            <4> QED BY <1>1, <2>4, <2>5, <3>1, <4>1, WrittenStaysSettled DEF SourceInv
        <3> QED BY <1>1, <3>1, <3>2 DEF SettledInv
    <2> QED BY <1>5, <1>6, <1>7, <2>3, <2>4, <2>6 DEF SourceInv, RevokedInv
<1>9. CASE ~Persists
    <2>1. file' = file /\ saved' = saved /\ config'.jsonPath # "writable"
        BY <1>1, <1>9 DEF Refresh, Persists
    <2>2. SavedInv'
        <3>1. Credentials(newest) \subseteq Credentials(newest')
            BY <1>1, MoreTokens
        <3> QED BY <2>1, <3>1 DEF SourceInv, SavedInv
    <2>3. SettledInv'
        <3>1. Discovers' = Discovers /\ SecondCredential' = SecondCredential
            BY <1>1, <2>1, DiscoverUnchanged DEF SecondCredential
        <3> QED BY <1>1, <3>1 DEF SourceInv, SettledInv
    <2> QED BY <1>6, <1>7, <2>1, <2>2, <2>3 DEF SourceInv, RevokedInv
<1> QED BY <1>8, <1>9

\* An operator changes what is found, and nothing is settled any more.
LEMMA OperatorKeeps ==
    ASSUME SourceInv, ChangeFile \/ ChangeDatabase
    PROVE  SourceInv'
<1>1. UNCHANGED <<config, gateway, credential, newest, revoked>> /\ settled' = FALSE
    BY DEF ChangeFile, ChangeDatabase
<1>2. RotatedTokenIsGone' /\ SettledInv'
    BY <1>1 DEF SourceInv, RevokedInv, RotatedTokenIsGone, SettledInv
<1>3. CASE ChangeFile
    <2>1. file' \in Files /\ LoginOf(file') \cap revoked = {} /\ saved' = <<>> /\ database' = database
        BY <1>3 DEF ChangeFile
    <2>2. Contents(Granted) \subseteq Contents(newest)
        BY SourceConstants, MoreTokens DEF SourceInv, SourceTypeOK
    <2>3. SourceTypeOK'
        BY <1>1, <2>1, <2>2, SourceConstants DEF SourceInv, SourceTypeOK
    <2> QED BY <1>1, <1>2, <2>1, <2>3 DEF SourceInv, SavedInv, RevokedInv
<1>4. CASE ChangeDatabase
    <2>1. database' \in Databases /\ file' = file /\ saved' = saved
        BY <1>4 DEF ChangeDatabase
    <2> QED BY <1>1, <1>2, <2>1 DEF SourceInv, SourceTypeOK, SavedInv, RevokedInv
<1> QED BY <1>3, <1>4

\* Every step keeps the invariant.
LEMMA SourceNextKeeps == SourceInv /\ [SourceNext]_sourceVars => SourceInv'
BY StartKeeps, ReloadKeeps, GatewayKeeps, RefreshKeeps, OperatorKeeps DEF SourceNext

\* The deployment is always in the states of the invariant.
THEOREM SourceInvariant == SourceSpec => []SourceInv
BY SourceInitially, SourceNextKeeps, PTL DEF SourceSpec

-----------------------------------------------------------------------------
(* The properties                                                           *)

\* What a refresh wrote is read back as it was, and with a file of its own a gateway never holds
\* a refresh token that was rotated away, whatever restarts, reloads and logins come between.
THEOREM FileIsFaithful == SourceSpec => []FileKeepsTheCredential
<1>1. SourceInv => FileKeepsTheCredential
    <2> SUFFICES ASSUME SourceInv PROVE FileIsReadBack /\ RotatedTokenIsGone
        BY DEF FileKeepsTheCredential
    <2>1. ASSUME NEW i \in DOMAIN saved
          PROVE  FileLoads(file) /\ FileCredential(file) = saved[i]
        <3>1. saved # <<>>
            BY <2>1
        <3>2. PICK c \in Credentials(newest) :
                  /\ saved = <<c>> /\ file = Written(c)
                  /\ c.method # "api_key" /\ c.access # 0
            BY <3>1 DEF SourceInv, SavedInv
        <3>3. newest \in Nat /\ saved[i] = c
            BY <2>1, <3>2 DEF SourceInv, SourceTypeOK
        <3> QED BY <3>2, <3>3, WrittenLoads
    <2> QED BY <2>1 DEF FileIsReadBack, SourceInv, RevokedInv
<1> QED BY <1>1, SourceInvariant, PTL

\* What auto discovers is the only login that is there to be found.
LEMMA OnlyLogin ==
    ASSUME SourceTypeOK, config.source = "auto", Discovers
    PROVE  Logins = 1
<1> DEFINE valid == {i \in DOMAIN database.logins : Valid(database.logins[i])}
           e == IF config.access + config.refresh + config.key = 0 THEN 0 ELSE 1
           f == IF FileLoads(file) THEN 1 ELSE 0
           d == IF database = Absent THEN 0 ELSE Cardinality(valid)
<1>1. PICK place \in Looked : Candidates = {place} /\ Discovered = CredentialIn(place)
    BY OneCandidate
<1>2. \A p \in Looked : ~Fails(p)
    BY DEF Discovers
<1>3. e = IF "config" \in Candidates THEN 1 ELSE 0
    <2>1. config.access \in Nat /\ config.refresh \in Nat /\ config.key \in Nat
        BY SourceConstants DEF SourceTypeOK
    <2>2. config.access + config.refresh + config.key = 0 <=> ~EnvironmentHasOne(config)
        BY <2>1 DEF EnvironmentHasOne
    <2> QED BY <2>2, LookedPlaces
<1>4. f = IF "file" \in Candidates THEN 1 ELSE 0
    <2>1. CASE file = Absent
        BY <2>1, LookedPlaces, KindsOfFile DEF FileLoads
    <2>2. CASE file # Absent
        BY <1>2, <2>2, LookedPlaces, FailingPlaces
    <2> QED BY <2>1, <2>2
<1>5. d = IF "database" \in Candidates THEN 1 ELSE 0
    <2>1. CASE database = Absent
        BY <2>1, LookedPlaces
    <2>2. CASE database # Absent
        <3>1. "database" \in Candidates /\ DatabaseLoads(database)
            BY <1>2, <2>2, LookedPlaces, FailingPlaces
        <3>2. database.logins \in Seq(Credentials(Granted))
            BY <2>2, SourceConstants DEF SourceTypeOK
        <3>3. DOMAIN database.logins = {1} /\ Valid(database.logins[1])
            BY <3>1, <3>2 DEF DatabaseLoads
        <3>4. valid = {1}
            BY <3>3
        <3>5. Cardinality(valid) = 1
            BY <3>4, FS_Singleton
        <3> QED BY <2>2, <3>1, <3>5
    <2> QED BY <2>1, <2>2
<1>6. e + f + d = 1
    BY <1>1, <1>3, <1>4, <1>5 DEF Looked
<1>7. Logins = e + f + d
    BY DEF Logins
<1> QED BY <1>6, <1>7

\* auto never chooses between logins, and what it refuses out of the blue is the second
\* credential that the gateway wrote itself.
THEOREM RefusalsAreCaused == SourceSpec => RefusalsHaveACause
<1>1. SourceInv => RefusedByItsOwnFile
    BY DEF SourceInv, SettledInv, RefusedByItsOwnFile, SecondCredential
<1> DEFINE Chosen == (/\ config.source = "auto"
                      /\ \/ gateway = "down" /\ gateway' = "starting"
                         \/ credential' # credential /\ newest' = newest)
                     => Logins = 1
<1>2. SourceInv /\ [SourceNext]_sourceVars => [Chosen]_sourceVars
    <2> SUFFICES ASSUME SourceInv, SourceNext PROVE Chosen
        BY Zenon
    <2>1. CASE Start
        <3>1. newest' = newest /\ (gateway' = "starting" \/ credential' # credential => Discovers)
            BY <2>1 DEF Start
        <3> QED BY <3>1, OnlyLogin DEF SourceInv
    <2>2. CASE Reload
        BY <2>2, OnlyLogin DEF Reload, SourceInv
    <2>3. CASE Refresh
        <3>1. newest' # newest /\ gateway # "down"
            BY <2>3 DEF Refresh, SourceInv, SourceTypeOK
        <3> QED BY <3>1
    <2>4. CASE Ready \/ StartFails \/ Stop \/ BecomesDue \/ ChangeFile \/ ChangeDatabase
        <3>1. credential' = credential /\ (gateway = "down" => gateway' = "down")
            BY <2>4 DEF Ready, StartFails, Stop, BecomesDue, ChangeFile, ChangeDatabase
        <3> QED BY <3>1
    <2> QED BY <2>1, <2>2, <2>3, <2>4 DEF SourceNext
<1> QED BY <1>1, <1>2, SourceInvariant, PTL
        DEF SourceSpec, RefusalsHaveACause, NothingIsChosen
=============================================================================
