------------------------------ MODULE Sessions -------------------------------
(***************************************************************************)
(* Accounts, device sessions and refresh tokens: signup, login, refresh,   *)
(* password change and role change (backend/auth, backend/user), and the   *)
(* claims the access tokens carry into the role checks.                    *)
(*                                                                         *)
(* A request is one database transaction under READ COMMITTED.  Login and  *)
(* refresh lock the row of the device session before they revoke its live  *)
(* tokens and insert a new one; what they read before that may be stale by *)
(* then.  A password change locks the credential, not the device session.  *)
(* The second read of the token in a refresh returns the object the        *)
(* session already holds, so it sees what the first one saw.               *)
(***************************************************************************)
EXTENDS Integers, FiniteSets

CONSTANTS Users, Devices, Tokens,
          Requests,      \* each used once
          None,
          Roles,
          DEFAULT_ROLE,  \* config_settings.DEFAULT_ROLE
          Admin          \* the role with the permission user:manage

ASSUME SessionsAssumption ==
    /\ {DEFAULT_ROLE, Admin} \subseteq Roles
    /\ None \notin Users \cup Devices \cup Tokens \cup Requests

VARIABLES
    password, \* Credential of a user: which of its passwords; 0: no account
    roles,    \* UserRole of a user
    version,  \* Users.role_version
    visited,  \* the device sessions that exist
    owner,    \* DeviceSession.user_id
    token,    \* DeviceAuthToken
    expired,  \* the device sessions and tokens past their expiry
    access,   \* the access tokens handed out: their claims
    pc, req,  \* of a request: where it is, and what it has read
    locked    \* the request holding a row: a device session, a credential

accounts == <<password, roles, version>>
devices == <<visited, owner, expired>>
vars == <<accounts, devices, token, access, pc, req, locked>>

\* state: no row, not revoked, or the value of revoked_by.
Token == [ds : Devices \cup {None}, user : Users \cup {None},
          state : {"none", "live", "new_login", "rotation", "password_change"}]
NoToken == [ds |-> None, user |-> None, state |-> "none"]

Claims == [user : Users, roles : SUBSET Roles, version : Nat]

\* tok: the token presented; version: role_version as a login read it; revoke: the tokens an UPDATE
\* found live; drop, grant: the roles a role change deletes and inserts.
Request == [kind : {"none", "login", "refresh", "password", "roles"},
            user : Users \cup {None}, ds : Devices \cup {None},
            tok : Tokens \cup {None}, version : Nat,
            revoke : SUBSET Tokens, drop : SUBSET Roles, grant : SUBSET Roles]
NoRequest == [kind |-> "none", user |-> None, ds |-> None, tok |-> None, version |-> 0,
              revoke |-> {}, drop |-> {}, grant |-> {}]

TypeOK ==
    /\ password \in [Users -> Nat]
    /\ roles \in [Users -> SUBSET Roles]
    /\ version \in [Users -> Nat]
    /\ visited \subseteq Devices
    /\ owner \in [Devices -> Users \cup {None}]
    /\ expired \subseteq Devices \cup Tokens
    /\ token \in [Tokens -> Token]
    /\ access \subseteq Claims
    /\ pc \in [Requests -> {"idle", "lock", "commit", "claims", "done"}]
    /\ req \in [Requests -> Request]
    /\ locked \in [Users \cup Devices -> Requests \cup {None}]

Init ==
    /\ password = [u \in Users |-> 0]
    /\ roles = [u \in Users |-> {}]
    /\ version = [u \in Users |-> 0]
    /\ visited = {}
    /\ owner = [d \in Devices |-> None]
    /\ expired = {}
    /\ token = [t \in Tokens |-> NoToken]
    /\ access = {}
    /\ pc = [r \in Requests |-> "idle"]
    /\ req = [r \in Requests |-> NoRequest]
    /\ locked = [x \in Users \cup Devices |-> None]

-----------------------------------------------------------------------------
Live(t) == token[t].state = "live"
LiveOf(d, u) == {t \in Tokens : Live(t) /\ token[t].ds = d /\ token[t].user = u}

\* A request arrives with what its first, unlocked reads return.
Begin(r, next, q) ==
    /\ pc[r] = "idle"
    /\ pc' = [pc EXCEPT ![r] = next]
    /\ req' = [req EXCEPT ![r] = q]
    /\ UNCHANGED <<accounts, devices, token, access, locked>>

\* Its transaction ends, and its row locks with it.
End(r, next) ==
    /\ pc' = [pc EXCEPT ![r] = next]
    /\ req' = [req EXCEPT ![r] = IF next = "done" THEN NoRequest
                                 ELSE [NoRequest EXCEPT !.kind = req[r].kind, !.user = req[r].user,
                                                        !.version = req[r].version]]
    /\ locked' = [x \in DOMAIN locked |-> IF locked[x] = r THEN None ELSE locked[x]]

\* A failed test, a database error, a cancelled request: get_session closes
\* the session without a commit.
Fail(r) ==
    /\ pc[r] \in {"lock", "commit", "claims"}
    /\ End(r, "done")
    /\ UNCHANGED <<accounts, devices, token, access>>

\* A first visit: a device session without a user.
SaveDeviceState(d) ==
    /\ d \notin visited
    /\ visited' = visited \cup {d}

SessionInit(d) ==
    /\ SaveDeviceState(d)
    /\ UNCHANGED <<accounts, owner, expired, token, access, pc, req, locked>>

\* create_n_get_user: the unique email lets one of two signups through.
NewUser(u) == password[u] = 0

CreateCredential(u) == password' = [password EXCEPT ![u] = 1]

LinkUserRole(u, role) == roles' = [roles EXCEPT ![u] = @ \cup {role}]

\* create_signup, one transaction.  The first administrator is seeded.
Signup(u, role) ==
    /\ role = DEFAULT_ROLE \/ \A v \in Users : Admin \notin roles[v]
    /\ NewUser(u)
    /\ CreateCredential(u)
    /\ LinkUserRole(u, role)
    /\ UNCHANGED <<version, devices, token, access, pc, req, locked>>

\* The clock passes session_expires_at of a device session, or a minute
\* before expires_at of a refresh token.
Expire(x) ==
    /\ x \in visited \/ (x \in Tokens /\ Live(x))
    /\ x \notin expired
    /\ expired' = expired \cup {x}
    /\ UNCHANGED <<accounts, visited, owner, token, access, pc, req, locked>>

-----------------------------------------------------------------------------
(* login_user and refresh_auth.                                            *)

\* The password is right at this moment.
IdentifyUser(u) == password[u] # 0

Login(r, u, d) ==
    /\ IdentifyUser(u)
    /\ Begin(r, "lock", [NoRequest EXCEPT !.kind = "login", !.user = u, !.ds = d,
                                          !.version = version[u]])

\* The unlocked read of the token and the tests on it.  The clock is read
\* here as well, so a session expired by now fails the request.
DeviceAuthValid(t) == Live(t) /\ {t, token[t].ds} \cap expired = {}

Refresh(r, t) ==
    /\ DeviceAuthValid(t)
    /\ Begin(r, "lock", [NoRequest EXCEPT !.kind = "refresh", !.tok = t,
                                          !.ds = token[t].ds, !.user = token[t].user])

\* What login and refresh ask of the device session.
IdentifyDeviceSession(d) == d \in visited \ expired
DeviceSessionOf(d, u) == owner[d] = u

SessionValid(q) ==
    \/ q.kind = "login" /\ IdentifyDeviceSession(q.ds)
    \/ q.kind = "refresh" /\ DeviceSessionOf(q.ds, q.user)

\* Mutant: the device session is read without FOR UPDATE.
ReadSession(r) ==
    /\ pc[r] = "lock"
    /\ req[r].kind \in {"login", "refresh"}
    /\ SessionValid(req[r])
    /\ req' = [req EXCEPT ![r].revoke = LiveOf(req[r].ds, req[r].user)]
    /\ pc' = [pc EXCEPT ![r] = "commit"]
    /\ UNCHANGED <<accounts, devices, token, access, locked>>

\* identify_device_session or get_device_session_fields locks the row, and
\* the UPDATE of save_refresh_token finds the tokens that are live now.
LockSession(r) ==
    /\ pc[r] = "lock"
    /\ req[r].kind \in {"login", "refresh"}
    /\ locked[req[r].ds] = None
    /\ SessionValid(req[r])
    /\ locked' = [locked EXCEPT ![req[r].ds] = r]
    /\ req' = [req EXCEPT ![r].revoke = LiveOf(req[r].ds, req[r].user)]
    /\ pc' = [pc EXCEPT ![r] = "commit"]
    /\ UNCHANGED <<accounts, devices, token, access>>

RevokedBy(q) ==
    CASE q.kind = "login" -> "new_login"
      [] q.kind = "refresh" -> "rotation"
      [] OTHER -> "password_change"

\* The UPDATE skips a row that a transaction it waited for has revoked.
Revoked(q) ==
    [t \in Tokens |-> IF t \in q.revoke /\ Live(t) THEN [token[t] EXCEPT !.state = RevokedBy(q)]
                                        ELSE token[t]]

\* Mutant: a login takes the device session over from its first user.
Relink(q) == IF q.kind = "login" THEN [owner EXCEPT ![q.ds] = q.user] ELSE owner

\* Mutant: the session is linked to its own id.
LinkedToItself(q) ==
    IF q.kind = "login" /\ owner[q.ds] = None
    THEN [owner EXCEPT ![q.ds] = q.ds] ELSE owner

\* link_user_device, for a device session without a user.
Linked(q) ==
    IF q.kind = "login" /\ owner[q.ds] = None
    THEN [owner EXCEPT ![q.ds] = q.user] ELSE owner

\* save_refresh_token, in the transaction that held the device session.
SaveToken(r, t) ==
    LET q == req[r]
    IN /\ pc[r] = "commit"
       /\ q.kind \in {"login", "refresh"}
       /\ token[t].state = "none"
       /\ token' = [Revoked(q) EXCEPT ![t] = [ds |-> q.ds, user |-> q.user, state |-> "live"]]
       /\ owner' = Linked(q)
       /\ End(r, "claims")
       /\ UNCHANGED <<accounts, visited, expired, access>>

\* After the commit: get_user_role_ids reads the roles of a login, whose
\* role_version is the one read first; fetch_user_claims reads both at once.
NewClaims(q) ==
    [user |-> q.user, roles |-> roles[q.user],
     version |-> IF q.kind = "login" THEN q.version ELSE version[q.user]]

IssueAccess(r) ==
    /\ pc[r] = "claims"
    /\ access' = access \cup {NewClaims(req[r])}
    /\ End(r, "done")
    /\ UNCHANGED <<accounts, devices, token>>

-----------------------------------------------------------------------------
(* change_password.                                                        *)

IdentifyUserByPid(u) == password[u] # 0

\* The authentication middleware: the bearer of an access token has an
\* account.
Authenticated(c) == IdentifyUserByPid(c.user)

\* get_password_credential, unlocked.
ChangePassword(r, c) ==
    /\ Authenticated(c)
    /\ Begin(r, "lock", [NoRequest EXCEPT !.kind = "password", !.user = c.user])

\* update_password locks the credential; revoke_all_tokens_per_user finds
\* the tokens that are live and committed.
SetPassword(r) ==
    LET u == req[r].user
    IN /\ pc[r] = "lock"
       /\ req[r].kind = "password"
       /\ locked[u] = None
       /\ locked' = [locked EXCEPT ![u] = r]
       /\ req' = [req EXCEPT ![r].revoke = {t \in Tokens : Live(t) /\ token[t].user = u}]
       /\ pc' = [pc EXCEPT ![r] = "commit"]
       /\ UNCHANGED <<accounts, devices, token, access>>

CommitPassword(r) ==
    /\ pc[r] = "commit"
    /\ req[r].kind = "password"
    /\ password' = [password EXCEPT ![req[r].user] = @ + 1]
    /\ token' = Revoked(req[r])
    /\ End(r, "done")
    /\ UNCHANGED <<roles, version, devices, access>>

-----------------------------------------------------------------------------
(* change_user_role.                                                       *)

\* The other role changes of the same user that have not committed.
Rivals(r, u) ==
    {q \in Requests \ {r} : pc[q] = "commit" /\ req[q].kind = "roles" /\ req[q].user = u}

\* require_permissions("user:manage") looks at the roles in the access token.
MayManageUsers(c) == Authenticated(c) /\ Admin \in c.roles

\* get_role_ids_by_names: at least one role, and all of them exist.
RolesExist(grant) == grant # {} /\ grant \subseteq Roles

\* The DELETE of change_user_roles removes the target's roles that the actor
\* has, and waits for the rows a rival deletes.
ChangeRoles(r, c, u, grant) ==
    /\ MayManageUsers(c)
    /\ password[u] # 0
    /\ RolesExist(grant)
    /\ ~(c.user = u /\ Admin \notin grant)
    /\ \A q \in Rivals(r, u) : req[q].drop \cap c.roles = {}
    /\ Begin(r, "commit", [NoRequest EXCEPT !.kind = "roles", !.user = u, !.grant = grant,
                                            !.drop = roles[u] \cap c.roles])

\* A role the user still has makes the flush fail, and the rollback takes the
\* deletions and the insertions before it back: what is inserted after the
\* last such role stays.
RolesAfter(q) ==
    LET left == roles[q.user] \ q.drop
    IN IF left \cap q.grant = {}
       THEN {left \cup q.grant}
       ELSE {roles[q.user] \cup kept : kept \in SUBSET (q.grant \ roles[q.user])}

\* Mutant: role_version moves only when the roles were replaced as asked.
BumpIfReplaced(r) ==
    LET q == req[r]
    IN /\ pc[r] = "commit"
       /\ q.kind = "roles"
       /\ \E rs \in RolesAfter(q) :
             /\ roles' = [roles EXCEPT ![q.user] = rs]
             /\ version' = [version EXCEPT ![q.user] = IF rs = q.grant THEN @ + 1 ELSE @]
       /\ End(r, "done")
       /\ UNCHANGED <<password, devices, token, access>>

\* An insertion waits for a rival that deletes the same role.
CommitRoles(r) ==
    LET q == req[r]
    IN /\ pc[r] = "commit"
       /\ q.kind = "roles"
       /\ \A v \in Rivals(r, q.user) : req[v].drop \cap q.grant = {}
       /\ \E rs \in RolesAfter(q) : roles' = [roles EXCEPT ![q.user] = rs]
       /\ version' = [version EXCEPT ![q.user] = @ + 1]
       /\ End(r, "done")
       /\ UNCHANGED <<password, devices, token, access>>

Next ==
    \/ \E d \in Devices : SessionInit(d)
    \/ \E u \in Users, role \in {DEFAULT_ROLE, Admin} : Signup(u, role)
    \/ \E x \in Devices \cup Tokens : Expire(x)
    \/ \E r \in Requests :
          \/ \E u \in Users, d \in Devices : Login(r, u, d)
          \/ \E t \in Tokens : Refresh(r, t) \/ SaveToken(r, t)
          \/ \E c \in access : ChangePassword(r, c)
          \/ \E c \in access, u \in Users, g \in SUBSET Roles : ChangeRoles(r, c, u, g)
          \/ LockSession(r) \/ IssueAccess(r) \/ SetPassword(r) \/ CommitPassword(r)
          \/ CommitRoles(r) \/ Fail(r)

Spec == Init /\ [][Next]_vars

-----------------------------------------------------------------------------
(* Properties.                                                             *)

\* However many logins and refreshes of one user on one device run at once,
\* and whatever each of them read before it got the lock, at most one refresh
\* token of theirs is live.
OneLiveToken ==
    \A d \in Devices, u \in Users : Cardinality(LiveOf(d, u)) <= 1

\* check_user_roles_version of the authorization middleware.
VersionCurrent(c) == c.version = version[c.user]

\* The test of role_version alone shows the roles of an access token to be the
\* user's roles now: a login reads its version before the roles, so a role
\* change between the two leaves a token the test refuses.
CurrentVersionMeansCurrentRoles ==
    \A c \in access : VersionCurrent(c) => c.roles = roles[c.user]

\* A device session with a live token has a user, and keeps its first user
\* although several may log in on it at the same time.
LinkedForGood ==
    [][\A d \in Devices :
          /\ owner[d] # None => owner'[d] = owner[d]
          /\ \A u \in Users : LiveOf(d, u)' # {} => owner'[d] # None]_vars
==============================================================================
