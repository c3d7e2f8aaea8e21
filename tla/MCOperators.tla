----------------------------- MODULE MCOperators -----------------------------
(***************************************************************************)
(* The two parts an operator deals with, side by side: AdminSession and    *)
(* CredentialSource. They share nothing, so a behaviour is of one of them. *)
(*                                                                         *)
(* AdminSession: two requests in flight, two sessions of two ticks, two    *)
(* keys with two attempts in a window of two ticks, five ticks, one        *)
(* restart. The tables do not read one another: where there is a session   *)
(* no more than FewLogins attempts are let through in all.                 *)
(*                                                                         *)
(* CredentialSource: one login in each place, 1 in the configuration, 2 in *)
(* the file, 3 in the database.                                            *)
(***************************************************************************)
EXTENDS AdminSession, CredentialSource, TLC

CONSTANTS r1, r2, k1, k2, FewLogins

MCRequests == {r1, r2}
MCKeys == {k1, k2}
Symmetric == Permutations(MCRequests) \cup Permutations(MCKeys)

Config(source, jsonPath, access, refresh, key) ==
    [source |-> source, jsonPath |-> jsonPath, access |-> access, refresh |-> refresh, key |-> key]

MCConfigs ==
    {Config(s, p, a, r, k) : s \in Sources, p \in {"none", "read_only", "writable"},
                             a, r, k \in {0, 1}}
    \ {c \in [source : Sources, jsonPath : {"none", "read_only", "writable"},
              access : {0, 1}, refresh : {0, 1}, key : {0, 1}] :
        c.key = 1 /\ c.access + c.refresh > 0}

File(method, access, refresh, key, dated) ==
    [is |-> "file", method |-> method, access |-> access, refresh |-> refresh, key |-> key,
     expires |-> dated, details |-> "file"]

MCFiles ==
    {Absent, Broken,
     File("none", 0, 2, 0, FALSE), File("social", 2, 2, 0, TRUE), File("oidc", 2, 0, 0, TRUE),
     File("none", 0, 0, 2, FALSE), File("oidc", 0, 0, 2, FALSE), File("none", 2, 0, 2, FALSE),
     File("api_key", 0, 2, 2, FALSE)}

Database(logins) == [is |-> "database", logins |-> logins]
Login(method, access, refresh) == Credential(method, access, refresh, TRUE, "cli")

MCDatabases ==
    {Absent, Database(<<>>), Database(<<Login("oidc", 3, 3)>>), Database(<<Login("oidc", 0, 0)>>),
     Database(<<Login("social", 3, 3), Login("oidc", 0, 0)>>),
     Database(<<Login("social", 0, 3), Login("oidc", 3, 3)>>)}

-----------------------------------------------------------------------------
VARIABLE part   \* "admin" or "source"

OperatorInit ==
    /\ part \in {"admin", "source"}
    /\ AdminInit
    /\ SourceInit
    /\ part = "admin" => config = Config("auto", "none", 0, 0, 0) /\ database = Absent

NoSessionOrFewLogins ==
    \/ issued = 0
    \/ Cardinality(admitted[k1]) + Cardinality(admitted[k2]) <= FewLogins

OperatorNext ==
    \/ part = "admin" /\ AdminNext /\ NoSessionOrFewLogins' /\ UNCHANGED <<part, sourceVars>>
    \/ part = "source" /\ SourceNext /\ UNCHANGED <<part, adminVars>>

OperatorSpec == OperatorInit /\ [][OperatorNext]_<<part, adminVars, sourceVars>>
=============================================================================
