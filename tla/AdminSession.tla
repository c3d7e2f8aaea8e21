---------------------------- MODULE AdminSession ----------------------------
(***************************************************************************)
(* The sessions of the administrators: SessionStore, the admin_session     *)
(* middleware in front of the protected routes, and the handlers of login, *)
(* logout, session and of the changes. A request is checked by the         *)
(* middleware and then runs its handler; others run between the two.       *)
(*                                                                         *)
(* The cookie and the CSRF token of a session are random; both are named   *)
(* by the number of the session, 0 is none. A client can still hold those  *)
(* of a session that is gone, or of another of its sessions. Time is a     *)
(* clock of ticks; reading it and the short section under a lock that      *)
(* follows are one step. A request from an origin that is not allowed is   *)
(* answered 403 before any of this and changes nothing: left out.          *)
(***************************************************************************)
EXTENDS Naturals, FiniteSets

CONSTANTS Requests,      \* the requests in flight
          Keys,          \* the keys of login_rate_limit_key: "global", or each forwarded address
          Limit,         \* login_rate_limit_per_minute, positive by the validation of the configuration
          Window,        \* the ticks of sixty seconds
          Ttl,           \* the ticks of session_ttl_secs
          MaxTime,       \* bound on the clock
          MaxSessions,   \* bound on the sessions ever created
          MaxRestarts    \* bound on the restarts of the process

ASSUME AdminAssumption ==
    /\ Limit \in Nat \ {0}
    /\ Window \in Nat \ {0}
    /\ {Ttl, MaxTime, MaxSessions, MaxRestarts} \subseteq Nat

VARIABLES now,       \* the clock
          expires,   \* SessionStore::sessions: when the session of each token in it expires
          attempts,  \* SessionStore::attempts: the window of each key in it
          issued,    \* the sessions created so far
          request,   \* the requests in the protected routes
          restarts,
          admitted,  \* history: when each login attempt of a key was let through, as <<time, nth>>
          refused,   \* history: the keys refused by the limit in the last step
          over       \* history: the sessions that were logged out, with those of an earlier process

adminVars == <<now, expires, attempts, issued, request, restarts, admitted, refused, over>>

\* A session that is put in a handler's hands is the one of the request's cookie.
Idle == [at |-> "idle", route |-> "none", token |-> 0, csrf |-> 0]

Routes == {"session", "logout", "read", "change"}

AdminInit ==
    /\ now = 0
    /\ expires = <<>>
    /\ attempts = <<>>
    /\ issued = 0
    /\ request = [r \in Requests |-> Idle]
    /\ restarts = 0
    /\ admitted = [k \in Keys |-> {}]
    /\ refused = {}
    /\ over = {}

-----------------------------------------------------------------------------
\* Mutated form: nothing is dropped.
RetainAll(sessions) == sessions

\* cleanup_expired, and the first half of get.
Retain(sessions) ==
    [s \in {u \in DOMAIN sessions : sessions[u] > now} |-> sessions[s]]

\* SessionStore::get after its clean-up.
Found(token) == token \in DOMAIN Retain(expires)

\* Mutated form: a window that has passed is not dropped.
OpenWindowsForever == attempts

\* Mutated form: the clean-up drops the windows of every key with the first that passes.
OpenWindowsTogether ==
    IF \E k \in DOMAIN attempts : now - attempts[k].started >= Window THEN <<>> ELSE attempts

\* The windows that the retain of allow_login keeps.
OpenWindows ==
    [k \in {j \in DOMAIN attempts : now - attempts[j].started < Window} |-> attempts[k]]

WindowOf(key) ==
    IF key \in DOMAIN OpenWindows THEN OpenWindows[key] ELSE [started |-> now, count |-> 0]

WithWindow(key, window) ==
    [k \in DOMAIN OpenWindows \union {key} |-> IF k = key THEN window ELSE OpenWindows[k]]

WithinLimit(window) == window.count < Limit

-----------------------------------------------------------------------------
\* allow_login refuses: 429.
LoginRefused(key) ==
    LET window == WindowOf(key)
    IN  /\ ~WithinLimit(window)
        /\ expires' = Retain(expires)
        /\ attempts' = WithWindow(key, window)
        /\ refused' = {key}
        /\ UNCHANGED <<now, issued, request, restarts, admitted, over>>

\* Mutated form: the attempt is counted in a window that starts again with it.
CountedAfresh(window) == [started |-> now, count |-> window.count + 1]

Counted(window) == [window EXCEPT !.count = @ + 1]

\* allow_login lets the attempt through: it counts, whatever the API key.
LoginAdmitted(key) ==
    LET window == WindowOf(key)
    IN  /\ WithinLimit(window)
        /\ attempts' = WithWindow(key, Counted(window))
        /\ admitted' = [admitted EXCEPT ![key] =
                           @ \union {<<now, Cardinality({a \in @ : a[1] = now}) + 1>>}]
        /\ refused' = {}
        /\ UNCHANGED <<now, request, restarts, over>>

\* The API key is wrong: 401.
LoginFails(key) ==
    /\ LoginAdmitted(key)
    /\ expires' = Retain(expires)
    /\ UNCHANGED issued

\* The API key is right: create.
LoginSucceeds(key) ==
    /\ issued < MaxSessions
    /\ LoginAdmitted(key)
    /\ issued' = issued + 1
    /\ expires' = [s \in DOMAIN Retain(expires) \union {issued + 1} |->
                     IF s = issued + 1 THEN now + Ttl ELSE expires[s]]

-----------------------------------------------------------------------------
\* Mutated form: logout is taken for a method that changes nothing.
IsSafeOrLogout(route) == route # "change"

\* is_safe_method of the route's method.
IsSafe(route) == route \in {"session", "read"}

\* Mutated form: any CSRF token that was issued will do.
CsrfWasIssued(csrf, token) == csrf # 0

\* The header is compared with the token of the cookie's session; no header is an empty string.
CsrfMatches(csrf, token) == csrf = token

\* The table after SessionStore::get.
AfterGet(token) == Retain(expires)

\* admin_session: no cookie, or none of a live session: 401.
CheckUnauthorized(token) ==
    /\ ~Found(token)
    /\ expires' = IF token = 0 THEN expires ELSE AfterGet(token)

\* admin_session: a change without the CSRF token of its session: 403.
CheckForbidden(route, token, csrf) ==
    /\ Found(token)
    /\ ~IsSafe(route)
    /\ ~CsrfMatches(csrf, token)
    /\ expires' = AfterGet(token)

CheckRejects(route, token, csrf) ==
    /\ CheckUnauthorized(token) \/ CheckForbidden(route, token, csrf)
    /\ refused' = {}
    /\ UNCHANGED <<now, attempts, issued, request, restarts, admitted, over>>

\* admin_session passes the request on and keeps a clone of the session.
CheckPasses(r, route, token, csrf) ==
    /\ request[r].at = "idle"
    /\ Found(token)
    /\ IsSafe(route) \/ CsrfMatches(csrf, token)
    /\ expires' = AfterGet(token)
    /\ request' = [request EXCEPT ![r] = [at |-> "handler", route |-> route, token |-> token,
                                          csrf |-> csrf]]
    /\ refused' = {}
    /\ UNCHANGED <<now, attempts, issued, restarts, admitted, over>>

-----------------------------------------------------------------------------
Answered(r) == request' = [request EXCEPT ![r] = Idle]

\* Mutated form: logging out only clears the cookie of the client.
RemoveNothing(token) == expires

\* SessionStore::remove.
Remove(token) == [s \in DOMAIN expires \ {token} |-> expires[s]]

\* logout removes the session of the cookie, expired or not.
Logout(r) ==
    /\ request[r].route = "logout"
    /\ expires' = Remove(request[r].token)
    /\ over' = over \union {request[r].token}
    /\ UNCHANGED <<now, attempts, issued, restarts, admitted>>

\* session reads the table again: 200 with the CSRF token, or 401 if the session has gone since.
Session(r) ==
    /\ request[r].route = "session"
    /\ expires' = AfterGet(request[r].token)
    /\ UNCHANGED <<now, attempts, issued, restarts, admitted, over>>

\* The other handlers do not look at the session.
OtherHandler(r) ==
    /\ request[r].route \in {"read", "change"}
    /\ UNCHANGED <<now, expires, attempts, issued, restarts, admitted, over>>

\* The handler ends, and the middleware adds the CSRF token of its clone to the answer.
Handle(r) ==
    /\ request[r].at = "handler"
    /\ Logout(r) \/ Session(r) \/ OtherHandler(r)
    /\ Answered(r)
    /\ refused' = {}

-----------------------------------------------------------------------------
Tick ==
    /\ now < MaxTime
    /\ now' = now + 1
    /\ refused' = {}
    /\ UNCHANGED <<expires, attempts, issued, request, restarts, admitted, over>>

\* The sessions and the windows are only in memory.
Restart ==
    /\ restarts < MaxRestarts
    /\ restarts' = restarts + 1
    /\ expires' = <<>>
    /\ attempts' = <<>>
    /\ request' = [r \in Requests |-> Idle]
    /\ admitted' = [k \in Keys |-> {}]
    /\ refused' = {}
    /\ over' = 1..issued
    /\ UNCHANGED <<now, issued>>

\* A request of a client that holds some cookie and some CSRF token of its sessions; it sends
\* the CSRF token with the methods that need it.
Arrive ==
    \E route \in Routes, token \in 0..issued, csrf \in 0..issued :
        /\ IsSafe(route) => csrf = 0
        /\ \/ CheckRejects(route, token, csrf)
           \/ \E r \in Requests : CheckPasses(r, route, token, csrf)

AdminNext ==
    \/ \E key \in Keys : LoginRefused(key) \/ LoginFails(key) \/ LoginSucceeds(key)
    \/ Arrive
    \/ \E r \in Requests : Handle(r)
    \/ Tick
    \/ Restart

AdminSpec == AdminInit /\ [][AdminNext]_adminVars

-----------------------------------------------------------------------------
\* The shape of the two tables and of the requests.
AdminTypeOK ==
    /\ now \in 0..MaxTime
    /\ issued \in 0..MaxSessions
    /\ DOMAIN expires \subseteq 1..issued
    /\ \A s \in DOMAIN expires : expires[s] \in 0..(MaxTime + Ttl)
    /\ DOMAIN attempts \subseteq Keys
    /\ \A k \in DOMAIN attempts : attempts[k] \in [started : 0..now, count : 1..Limit]
    /\ \A r \in Requests : request[r] = Idle \/ request[r] \in
           [at : {"handler"}, route : Routes, token : 1..issued, csrf : 0..issued]

\* The attempts of a key that were let through from tick a on, for one window.
AdmittedFrom(key, a) == {x \in admitted[key] : a <= x[1] /\ x[1] < a + Window}

\* In no span of sixty seconds, wherever it starts, are more attempts of a key let through than
\* the rest of one window of allow_login and all of the next: 2 * Limit - 1.
LoginsAreLimited ==
    \A key \in Keys, a \in 0..now : Cardinality(AdmittedFrom(key, a)) < 2 * Limit

\* allow_login refuses a key only if the sixty seconds before have used the whole limit of that
\* key: neither the attempts of other keys nor its own refused ones hold it out any longer.
RefusedForCause ==
    \A key \in refused :
        Cardinality({x \in admitted[key] : x[1] + Window > now}) >= Limit

\* No request starts its handler for a session that was logged out, that ended with an earlier
\* process or that has run longer than its time since the login; and no change starts unless its
\* CSRF token is the one of that session.
RequestsAreAuthorised ==
    [][\A r \in Requests :
          (request[r].at = "idle" /\ request'[r].at = "handler") =>
              LET started == request'[r]
              IN  /\ started.token \in DOMAIN expires \ over
                  /\ expires[started.token] > now
                  /\ started.route \in {"logout", "change"} => started.csrf = started.token]_adminVars

\* A session that is alive leaves the table only by its own logout or with the process, and its
\* end never moves: no clean-up by the request of someone else takes it, and no use extends it.
LiveSessionsStay ==
    [][\A s \in DOMAIN expires :
          (expires[s] > now /\ s \notin over') =>
              s \in DOMAIN expires' /\ expires'[s] = expires[s]]_adminVars
=============================================================================
