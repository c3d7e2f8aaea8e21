-------------------------- MODULE CredentialSource --------------------------
(***************************************************************************)
(* Where the one credential comes from (auth/source.rs with its loaders),  *)
(* over the life of a deployment: starts, refreshes that write             *)
(* credential.json_path, reloads and restarts, and an operator who logs in *)
(* and out elsewhere. What TokenManager does in many steps, a refresh and  *)
(* a reload, is one step here.                                             *)
(*                                                                         *)
(* Tokens are numbered as they are issued, 0 is none; numbers are shared   *)
(* by access tokens, refresh tokens and API keys. Regions, endpoint, ids   *)
(* of the client and the machine and the profile are one value, details;   *)
(* blank ones, which are not kept, are left out.                           *)
(***************************************************************************)
EXTENDS Naturals, Sequences, FiniteSets

CONSTANTS
    Configs,    \* the configurations: [source, jsonPath, access, refresh, key]
    Files,      \* what an operator may have put at json_path
    Databases,  \* what the Kiro CLI may have in its database
    Granted,    \* the number of the last token of the logins in these
    MaxIssued   \* bound: the number of the last token

VARIABLES
    config,     \* AppConfig, as far as it is about the credential
    file,       \* the file at credential.json_path
    database,   \* the database at credential.path, or at its default place
    gateway,    \* "down", "starting" before main's ensure_fresh, "running", "refused" by
                \* discover, "failed" because the credential could not be refreshed
    credential, \* the credential in memory
    due,        \* the access tokens that are about to expire
    newest,     \* the number of the last token
    revoked,    \* the refresh tokens that the endpoint has rotated away
    saved,      \* history: the credential whose refresh wrote the file, of which the file is
                \* still what was written; <<>> if there is none
    settled     \* history: discover has succeeded, and no operator came since

sourceVars == <<config, file, database, gateway, credential, due, newest, revoked, saved, settled>>

Sources == {"auto", "env", "json", "sqlite", "api_key"}

Methods == {"social", "oidc", "refresh_token", "api_key"}
Details == {"configured", "file", "cli"}

Credential(method, access, refresh, expires, details) ==
    [method |-> method, access |-> access, refresh |-> refresh, expires |-> expires,
     details |-> details]

\* The credentials, and the files in order, of tokens up to the number n.
Credentials(n) ==
    [method : Methods, access : 0..n, refresh : 0..n, expires : BOOLEAN, details : Details]
Contents(n) ==
    [is : {"file"}, method : Methods \cup {"none"}, access : 0..n, refresh : 0..n, key : 0..n,
     expires : BOOLEAN, details : Details]

Absent == [is |-> "absent"]
Broken == [is |-> "broken"]

\* AppConfig::validate refuses an API key beside tokens, so no process gets further.
ASSUME SourceAssumption ==
    /\ \A c \in Configs :
          /\ c \in [source : Sources, jsonPath : {"none", "read_only", "writable"},
                   access : 0..Granted, refresh : 0..Granted, key : 0..Granted]
          /\ c.key = 0 \/ (c.access = 0 /\ c.refresh = 0)
    /\ \A f \in Files : f \in {Absent, Broken} \/ f \in Contents(Granted)
    /\ \A d \in Databases :
          d = Absent \/ d \in [is : {"database"}, logins : Seq(Credentials(Granted))]
    /\ Granted \in Nat /\ MaxIssued \in Nat

\* needs_refresh; a credential without expires_at is due only if it has no access token.
NeedsRefresh(c) == c.method # "api_key" /\ (c.access = 0 \/ (c.expires /\ c.access \in due))

\* validate_external
Valid(c) == /\ c.access # 0 \/ c.refresh # 0
            /\ c.method = "api_key" => c.access # 0

-----------------------------------------------------------------------------
(* The loaders. Each finds one credential, none, or fails.                  *)

\* env::load
EnvironmentHasOne(c) == c.access # 0 \/ c.refresh # 0 \/ c.key # 0
EnvironmentCredential(c) ==
    Credential(IF c.key # 0 THEN "api_key" ELSE "refresh_token",
               IF c.access # 0 THEN c.access ELSE c.key, c.refresh, FALSE, "configured")

\* json::parse: the method follows from the tokens unless it is given.
FileMethod(f) == IF f.method # "none" THEN f.method
                 ELSE IF f.key # 0 THEN "api_key" ELSE "refresh_token"
FileCredential(f) ==
    Credential(FileMethod(f), IF f.key # 0 THEN f.key ELSE f.access, f.refresh, f.expires, f.details)
FileLoads(f) ==
    /\ f.is = "file"
    /\ f.access = 0 \/ f.key = 0
    /\ f.key # 0 => FileMethod(f) = "api_key"
    /\ FileMethod(f) = "api_key" => f.refresh = 0
    /\ Valid(FileCredential(f))

\* Mutated form: the first of several logins is taken.
DatabaseLoadsFirst(d) == d.logins # <<>> /\ Valid(d.logins[1])

\* sqlite::load: no login, or more than one, is an error.
DatabaseLoads(d) == Len(d.logins) = 1 /\ Valid(d.logins[1])

\* Mutated form: a null for the refresh token.
WrittenWithoutRefresh(c) ==
    [is |-> "file", method |-> c.method, access |-> c.access, refresh |-> 0, key |-> 0,
     expires |-> c.expires, details |-> c.details]

\* Mutated form: a token under the name of an API key.
WrittenAsKey(c) ==
    [is |-> "file", method |-> c.method, access |-> 0, refresh |-> c.refresh, key |-> c.access,
     expires |-> c.expires, details |-> c.details]

\* write_json
Written(c) ==
    [is |-> "file", method |-> c.method,
     access |-> IF c.method = "api_key" THEN 0 ELSE c.access,
     refresh |-> c.refresh,
     key |-> IF c.method = "api_key" THEN c.access ELSE 0,
     expires |-> c.expires, details |-> c.details]

-----------------------------------------------------------------------------
(* discover                                                                 *)

\* The places that the configured source makes it look at.
LooksAt(place) ==
    CASE place = "config"   -> config.source \in {"auto", "env", "api_key"}
      [] place = "file"     -> config.source = "json" \/ (config.source = "auto" /\ file # Absent)
      [] place = "database" -> config.source = "sqlite" \/ (config.source = "auto" /\ database # Absent)

Fails(place) ==
    CASE place = "config"   -> config.source = "api_key" /\ config.key = 0
      [] place = "file"     -> ~FileLoads(file)
      [] place = "database" -> database = Absent \/ ~DatabaseLoads(database)

CredentialIn(place) ==
    CASE place = "config"   -> EnvironmentCredential(config)
      [] place = "file"     -> FileCredential(file)
      [] place = "database" -> database.logins[1]

Looked == {place \in {"config", "file", "database"} : LooksAt(place)}
Candidates == {place \in Looked : place = "config" => EnvironmentHasOne(config)}

\* One place that fails is enough for discover to fail.
Discovers == /\ \A place \in Looked : ~Fails(place)
             /\ Cardinality(Candidates) = 1
Discovered == CredentialIn(CHOOSE place \in Candidates : TRUE)

-----------------------------------------------------------------------------
SourceInit ==
    /\ config \in Configs
    /\ file \in IF config.jsonPath = "none" THEN {Absent} ELSE Files
    /\ database \in Databases
    /\ gateway = "down"
    /\ credential = EnvironmentCredential(config)
    /\ due = {}
    /\ newest = Granted
    /\ revoked = {}
    /\ saved = <<>>
    /\ settled = FALSE

\* main: discover.
Start ==
    /\ gateway = "down"
    /\ gateway' = IF Discovers THEN "starting" ELSE "refused"
    /\ credential' = IF Discovers THEN Discovered ELSE credential
    /\ settled' = (settled \/ Discovers)
    /\ UNCHANGED <<config, file, database, due, newest, revoked, saved>>

\* main: ensure_fresh had nothing to do, or is done.
Ready ==
    /\ gateway = "starting"
    /\ ~NeedsRefresh(credential)
    /\ gateway' = "running"
    /\ UNCHANGED <<config, file, database, credential, due, newest, revoked, saved, settled>>

\* Mutated form: what ensure_fresh obtains before the gateway runs is not written.
PersistsWhenRunning == gateway = "running" /\ config.jsonPath = "writable"

\* A file that cannot be written makes refresh fail, but not the new credential.
Persists == config.jsonPath = "writable"

\* TokenManager::refresh with the answer of the endpoint, which may rotate the refresh token and
\* may say when the access token expires.
Refresh ==
    /\ gateway \in {"starting", "running"}
    /\ NeedsRefresh(credential)
    /\ credential.refresh \notin revoked \cup {0}
    /\ newest < MaxIssued
    /\ newest' = newest + 1
    /\ \E rotates, expires \in BOOLEAN :
        /\ revoked' = IF rotates THEN revoked \cup {credential.refresh} ELSE revoked
        /\ credential' = [credential EXCEPT !.access = newest', !.expires = expires,
                                            !.refresh = IF rotates THEN newest' ELSE @]
    /\ file' = IF Persists THEN Written(credential') ELSE file
    /\ saved' = IF Persists THEN <<credential'>> ELSE saved
    /\ gateway' = IF gateway = "starting" /\ config.jsonPath = "read_only" THEN "failed" ELSE gateway
    /\ UNCHANGED <<config, database, due, settled>>

\* main: ensure_fresh fails, for whatever reason.
StartFails ==
    /\ gateway = "starting"
    /\ NeedsRefresh(credential)
    /\ gateway' = "failed"
    /\ UNCHANGED <<config, file, database, credential, due, newest, revoked, saved, settled>>

\* reload_credential; if discover fails the credential stays.
Reload ==
    /\ gateway = "running"
    /\ Discovers
    /\ credential' = Discovered
    /\ UNCHANGED <<config, file, database, gateway, due, newest, revoked, saved, settled>>

\* The process ends, or the supervisor starts it again after it failed.
Stop ==
    /\ gateway \in {"starting", "running", "refused", "failed"}
    /\ gateway' = "down"
    /\ UNCHANGED <<config, file, database, credential, due, newest, revoked, saved, settled>>

BecomesDue ==
    /\ credential.expires /\ credential.access \notin due
    /\ due' = due \cup {credential.access}
    /\ UNCHANGED <<config, file, database, gateway, credential, newest, revoked, saved, settled>>

LoginOf(content) == IF content.is = "file" THEN {content.refresh} ELSE {}

\* An operator puts another file in place, or none, but no token that has been rotated away.
ChangeFile ==
    /\ config.jsonPath # "none"
    /\ file' \in Files \ {file}
    /\ LoginOf(file') \cap revoked = {}
    /\ saved' = <<>>
    /\ settled' = FALSE
    /\ UNCHANGED <<config, database, gateway, credential, due, newest, revoked>>

\* The Kiro CLI logs in or out.
ChangeDatabase ==
    /\ database' \in Databases \ {database}
    /\ settled' = FALSE
    /\ UNCHANGED <<config, file, gateway, credential, due, newest, revoked, saved>>

SourceNext ==
    \/ Start \/ Ready \/ Refresh \/ StartFails \/ Reload \/ Stop
    \/ BecomesDue \/ ChangeFile \/ ChangeDatabase

SourceSpec == SourceInit /\ [][SourceNext]_sourceVars

-----------------------------------------------------------------------------
\* What a refresh wrote is a file that loads, as the very credential that is in memory after the
\* refresh, wherever that came from (persistence.rs:37-63, json.rs:49-104).
FileIsReadBack ==
    \A i \in DOMAIN saved : FileLoads(file) /\ FileCredential(file) = saved[i]

\* A gateway whose source is a file it can write never holds a refresh token that was rotated away,
\* across restarts and reloads (token_manager.rs:179-187). With the other sources it may: they are
\* read again and hold the token of the first login.
RotatedTokenIsGone ==
    /\ gateway \in {"starting", "running"}
    /\ config.source = "json" /\ config.jsonPath = "writable"
    => credential.refresh \notin revoked

\* A gateway that found its credential once is refused although nobody changed anything only if its source
\* is auto and its own file is now a second credential (source.rs:65-110).
RefusedByItsOwnFile ==
    gateway = "refused" /\ settled =>
        /\ config.source = "auto" /\ saved # <<>>
        /\ Candidates \ {"file"} # {}

\* The logins that are there to be found, counted without the code.
Logins ==
    (IF config.access + config.refresh + config.key = 0 THEN 0 ELSE 1)
    + (IF FileLoads(file) THEN 1 ELSE 0)
    + (IF database = Absent THEN 0
       ELSE Cardinality({i \in DOMAIN database.logins : Valid(database.logins[i])}))

\* auto never chooses between logins, at a start or a reload (source.rs:114-118, sqlite.rs:75-79).
NothingIsChosen ==
    [][/\ config.source = "auto"
       /\ \/ gateway = "down" /\ gateway' = "starting"
          \/ credential' # credential /\ newest' = newest
       => Logins = 1]_sourceVars

\* What a refresh wrote loads again as the very credential that is in memory, so that with a
\* file of its own a gateway never goes back to a token that was rotated away, whatever
\* restarts and reloads come between (persistence.rs:37-63, token_manager.rs:179-187).
FileKeepsTheCredential == FileIsReadBack /\ RotatedTokenIsGone

\* auto takes none of several logins, and a gateway that started once is refused out of the
\* blue only by the file it wrote itself (source.rs:65-118).
RefusalsHaveACause == []RefusedByItsOwnFile /\ NothingIsChosen
=============================================================================
