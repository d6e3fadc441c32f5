--------------------------- MODULE SessionsProofs ----------------------------
(***************************************************************************)
(* Proofs about Sessions: at most one refresh token of a user is live on a *)
(* device, the role version shows the roles of an access token to be       *)
(* current, and a device session keeps its first user, for any number of   *)
(* users, devices, tokens, roles and requests.                             *)
(*                                                                         *)
(* The argument: a login or refresh that is about to save a token holds    *)
(* the row of the device session, and every token that is live there for   *)
(* its user is one its UPDATE has found, because only the holder of the    *)
(* row makes a token live.  The role version only grows, with every change *)
(* of the roles, and nothing holds a version from before the account.      *)
(***************************************************************************)
EXTENDS Sessions, FiniteSetTheorems, TLAPS

\* A login or refresh between its lock and its commit.
Saving(r) == pc[r] = "commit" /\ req[r].kind \in {"login", "refresh"}

\* What a request in flight has read: a user with an account, a role_version
\* that is not ahead of the row, and the device session to lock.
RequestsKnown ==
    \A r \in Requests : pc[r] \in {"lock", "commit", "claims"} =>
        /\ req[r].user \in Users
        /\ password[req[r].user] # 0
        /\ req[r].version <= version[req[r].user]
        /\ req[r].kind \in {"login", "refresh"} /\ pc[r] # "claims" => req[r].ds \in Devices
        /\ pc[r] = "claims" => req[r].kind \in {"login", "refresh"}

\* A live token belongs to an account, on a device session that has a user.
LiveTokensLinked ==
    \A t \in Tokens : Live(t) =>
        /\ token[t].ds \in Devices
        /\ token[t].user \in Users
        /\ password[token[t].user] # 0
        /\ owner[token[t].ds] # None

\* A request that is about to save a token holds the device session.
SaverHoldsSession ==
    \A r \in Requests : Saving(r) => locked[req[r].ds] = r

\* Its UPDATE found every token that is live for its user on that session.
SaverRevokesAll ==
    \A r \in Requests, t \in Tokens :
        /\ Saving(r)
        /\ Live(t)
        /\ token[t].ds = req[r].ds
        /\ token[t].user = req[r].user
        => t \in req[r].revoke

\* A refresh saves on a session that is linked to its user.
RefreshIsOwner ==
    \A r \in Requests :
        Saving(r) /\ req[r].kind = "refresh" => owner[req[r].ds] = req[r].user

\* Two live tokens of one user on one device are the same token.
LiveTokensEqual ==
    \A s, t \in Tokens :
        /\ Live(s) /\ Live(t)
        /\ token[s].ds = token[t].ds
        /\ token[s].user = token[t].user
        => s = t

\* No access token is ahead of the role_version of its user, who has an
\* account.
VersionsBehind ==
    \A c \in access : password[c.user] # 0 /\ c.version <= version[c.user]

\* The inductive invariant of logins, refreshes, passwords and roles.
SessionsInv ==
    /\ TypeOK
    /\ RequestsKnown
    /\ LiveTokensLinked
    /\ SaverHoldsSession
    /\ SaverRevokesAll
    /\ RefreshIsOwner
    /\ LiveTokensEqual
    /\ VersionsBehind
    /\ CurrentVersionMeansCurrentRoles

-----------------------------------------------------------------------------
(* The steps, seen from the invariant.                                     *)

\* A request begins with what Login, Refresh, ChangePassword or ChangeRoles
\* has read: no token is saved before a lock.
Arrives(r) ==
    \E q \in Request, next \in {"lock", "commit"} :
        /\ Begin(r, next, q)
        /\ q.user \in Users
        /\ password[q.user] # 0
        /\ q.version <= version[q.user]
        /\ q.kind \in {"login", "refresh"} => next = "lock" /\ q.ds \in Devices

Steps ==
    \/ \E d \in Devices : SessionInit(d)
    \/ \E u \in Users, role \in {DEFAULT_ROLE, Admin} : Signup(u, role)
    \/ \E x \in Devices \cup Tokens : Expire(x)
    \/ \E r \in Requests, t \in Tokens : SaveToken(r, t)
    \/ \E r \in Requests :
          \/ Arrives(r) \/ LockSession(r) \/ IssueAccess(r) \/ SetPassword(r)
          \/ CommitPassword(r) \/ CommitRoles(r) \/ Fail(r)

\* Every step is one of these.
LEMMA NextCases ==
    ASSUME SessionsInv, Next
    PROVE  Steps
<1> USE DEF SessionsInv
<1>1. ASSUME NEW r \in Requests, NEW u \in Users, NEW d \in Devices, Login(r, u, d)
      PROVE  Arrives(r)
  <2> DEFINE q == [NoRequest EXCEPT !.kind = "login", !.user = u, !.ds = d,
                                    !.version = version[u]]
  <2>1. q \in Request
    BY DEF Request, NoRequest, TypeOK
  <2>2. q.user = u /\ q.ds = d /\ q.kind = "login" /\ q.version = version[u]
    BY DEF NoRequest
  <2>3. version[u] \in Nat
    BY DEF TypeOK
  <2>4. Begin(r, "lock", q) /\ password[u] # 0
    BY <1>1 DEF Login, IdentifyUser
  <2> HIDE DEF q
  <2> QED
    BY <2>1, <2>2, <2>3, <2>4 DEF Arrives
<1>2. ASSUME NEW r \in Requests, NEW t \in Tokens, Refresh(r, t)
      PROVE  Arrives(r)
  <2> DEFINE q == [NoRequest EXCEPT !.kind = "refresh", !.tok = t,
                                    !.ds = token[t].ds, !.user = token[t].user]
  <2>0. /\ token[t].ds \in Devices
        /\ token[t].user \in Users
        /\ password[token[t].user] # 0
    BY <1>2 DEF Refresh, DeviceAuthValid, LiveTokensLinked
  <2>1. q \in Request
    BY <2>0 DEF Request, NoRequest
  <2>2. q.user = token[t].user /\ q.ds = token[t].ds /\ q.kind = "refresh" /\ q.version = 0
    BY DEF NoRequest
  <2>3. version[token[t].user] \in Nat
    BY <2>0 DEF TypeOK
  <2>4. Begin(r, "lock", q)
    BY <1>2 DEF Refresh
  <2> HIDE DEF q
  <2> QED
    BY <2>0, <2>1, <2>2, <2>3, <2>4 DEF Arrives
<1>3. ASSUME NEW r \in Requests, NEW c \in access, ChangePassword(r, c)
      PROVE  Arrives(r)
  <2> DEFINE q == [NoRequest EXCEPT !.kind = "password", !.user = c.user]
  <2>0. c.user \in Users
    BY DEF TypeOK, Claims
  <2>1. q \in Request
    BY <2>0 DEF Request, NoRequest
  <2>2. q.user = c.user /\ q.kind = "password" /\ q.version = 0
    BY DEF NoRequest
  <2>3. version[c.user] \in Nat
    BY <2>0 DEF TypeOK
  <2>4. Begin(r, "lock", q) /\ password[c.user] # 0
    BY <1>3 DEF ChangePassword, Authenticated, IdentifyUserByPid
  <2> HIDE DEF q
  <2> QED
    BY <2>0, <2>1, <2>2, <2>3, <2>4 DEF Arrives
<1>4. ASSUME NEW r \in Requests, NEW c \in access, NEW u \in Users, NEW g \in SUBSET Roles,
             ChangeRoles(r, c, u, g)
      PROVE  Arrives(r)
  <2> DEFINE q == [NoRequest EXCEPT !.kind = "roles", !.user = u, !.grant = g,
                                    !.drop = roles[u] \cap c.roles]
  <2>1. q \in Request
    BY DEF Request, NoRequest, TypeOK
  <2>2. q.user = u /\ q.kind = "roles" /\ q.version = 0
    BY DEF NoRequest
  <2>3. version[u] \in Nat
    BY DEF TypeOK
  <2>4. Begin(r, "commit", q) /\ password[u] # 0
    BY <1>4 DEF ChangeRoles
  <2> HIDE DEF q
  <2> QED
    BY <2>1, <2>2, <2>3, <2>4 DEF Arrives
<1> QED
  BY <1>1, <1>2, <1>3, <1>4 DEF Next, Steps

\* What the end of a transaction does to the requests and the rows they
\* hold.
LEMMA EndEffect ==
    ASSUME TypeOK, NEW r \in Requests, NEW next \in {"claims", "done"}, End(r, next)
    PROVE  /\ pc' \in [Requests -> {"idle", "lock", "commit", "claims", "done"}]
           /\ req' \in [Requests -> Request]
           /\ locked' \in [Users \cup Devices -> Requests \cup {None}]
           /\ pc'[r] = next
           /\ next = "claims" => /\ req'[r].kind = req[r].kind
                                 /\ req'[r].user = req[r].user
                                 /\ req'[r].version = req[r].version
           /\ \A s \in Requests \ {r} : pc'[s] = pc[s] /\ req'[s] = req[s]
           /\ \A x \in Users \cup Devices, s \in Requests \ {r} :
                 locked[x] = s => locked'[x] = s
<1> USE DEF End, TypeOK
<1>1. NoRequest \in Request
  BY DEF NoRequest, Request
<1>2. req[r] \in Request
  OBVIOUS
<1> DEFINE q == [NoRequest EXCEPT !.kind = req[r].kind, !.user = req[r].user,
                                  !.version = req[r].version]
<1>3. /\ q \in Request
      /\ q.kind = req[r].kind /\ q.user = req[r].user /\ q.version = req[r].version
  BY <1>2 DEF NoRequest, Request
<1>4. req' = [req EXCEPT ![r] = IF next = "done" THEN NoRequest ELSE q]
  OBVIOUS
<1> HIDE DEF q
<1>5. req' \in [Requests -> Request]
  BY <1>1, <1>3, <1>4
<1>6. next = "claims" => req'[r] = q
  BY <1>4
<1>7. \A s \in Requests \ {r} : pc'[s] = pc[s] /\ req'[s] = req[s]
  BY <1>4
<1>8. locked' \in [Users \cup Devices -> Requests \cup {None}]
  OBVIOUS
<1> QED
  BY <1>3, <1>5, <1>6, <1>7, <1>8

\* The arrival of a request changes that request alone.
LEMMA ArrivesEffect ==
    ASSUME TypeOK, NEW r \in Requests, Arrives(r)
    PROVE  /\ pc' \in [Requests -> {"idle", "lock", "commit", "claims", "done"}]
           /\ req' \in [Requests -> Request]
           /\ UNCHANGED <<accounts, devices, token, access, locked>>
           /\ pc'[r] \in {"lock", "commit"}
           /\ req'[r].user \in Users
           /\ password[req'[r].user] # 0
           /\ req'[r].version <= version[req'[r].user]
           /\ req'[r].kind \in {"login", "refresh"} => pc'[r] = "lock" /\ req'[r].ds \in Devices
           /\ \A s \in Requests \ {r} : pc'[s] = pc[s] /\ req'[s] = req[s]
<1>1. PICK q \in Request, next \in {"lock", "commit"} :
        /\ Begin(r, next, q)
        /\ q.user \in Users
        /\ password[q.user] # 0
        /\ q.version <= version[q.user]
        /\ q.kind \in {"login", "refresh"} => next = "lock" /\ q.ds \in Devices
  BY DEF Arrives
<1>2. pc' \in [Requests -> {"idle", "lock", "commit", "claims", "done"}] /\ req' \in [Requests -> Request]
  BY <1>1 DEF Begin, TypeOK
<1>3. pc'[r] = next /\ req'[r] = q
  BY <1>1 DEF Begin, TypeOK
<1>4. \A s \in Requests \ {r} : pc'[s] = pc[s] /\ req'[s] = req[s]
  BY <1>1 DEF Begin, TypeOK
<1>5. UNCHANGED <<accounts, devices, token, access, locked>>
  BY <1>1 DEF Begin
<1> QED
  BY <1>1, <1>2, <1>3, <1>4, <1>5

\* LockSession and SetPassword take a free row and note the live tokens.
LEMMA LockEffect ==
    ASSUME SessionsInv, NEW r \in Requests, LockSession(r) \/ SetPassword(r)
    PROVE  /\ pc' \in [Requests -> {"idle", "lock", "commit", "claims", "done"}]
           /\ req' \in [Requests -> Request]
           /\ locked' \in [Users \cup Devices -> Requests \cup {None}]
           /\ UNCHANGED <<accounts, devices, token, access>>
           /\ pc[r] = "lock" /\ pc'[r] = "commit"
           /\ req'[r].kind = req[r].kind /\ req'[r].user = req[r].user
           /\ req'[r].version = req[r].version /\ req'[r].ds = req[r].ds
           /\ \A s \in Requests \ {r} : pc'[s] = pc[s] /\ req'[s] = req[s]
           /\ \A x \in Users \cup Devices, s \in Requests : locked[x] = s => locked'[x] = s
           /\ req[r].kind \in {"login", "refresh"} =>
                 /\ locked'[req[r].ds] = r
                 /\ req'[r].revoke = LiveOf(req[r].ds, req[r].user)
                 /\ SessionValid(req[r])
<1>0. TypeOK /\ RequestsKnown
  BY DEF SessionsInv
<1>1. pc[r] = "lock" /\ pc' = [pc EXCEPT ![r] = "commit"]
  BY DEF LockSession, SetPassword
<1>2. UNCHANGED <<accounts, devices, token, access>>
  BY DEF LockSession, SetPassword
<1>3. PICK R \in SUBSET Tokens, x \in Users \cup Devices :
        /\ req' = [req EXCEPT ![r].revoke = R]
        /\ locked[x] = None
        /\ locked' = [locked EXCEPT ![x] = r]
        /\ req[r].kind \in {"login", "refresh"} =>
              x = req[r].ds /\ R = LiveOf(req[r].ds, req[r].user) /\ SessionValid(req[r])
  <2>1. CASE LockSession(r)
    BY <2>1, <1>0, <1>1 DEF LockSession, RequestsKnown, LiveOf
  <2>2. CASE SetPassword(r)
    <3>1. req[r].user \in Users
      BY <1>0, <1>1 DEF RequestsKnown
    <3>2. req[r].kind = "password"
      BY <2>2 DEF SetPassword
    <3>3. {t \in Tokens : Live(t) /\ token[t].user = req[r].user} \in SUBSET Tokens
      OBVIOUS
    <3> QED
      BY <2>2, <3>1, <3>2, <3>3 DEF SetPassword
  <2> QED
    BY <2>1, <2>2
<1>4. req[r] \in Request
  BY <1>0 DEF TypeOK
<1>5. [req[r] EXCEPT !.revoke = R] \in Request
  BY <1>4 DEF Request
<1>6. req' \in [Requests -> Request] /\ req'[r] = [req[r] EXCEPT !.revoke = R]
  BY <1>0, <1>3, <1>5 DEF TypeOK
<1>7. /\ req'[r].kind = req[r].kind /\ req'[r].user = req[r].user
      /\ req'[r].version = req[r].version /\ req'[r].ds = req[r].ds
      /\ req'[r].revoke = R
  BY <1>4, <1>6 DEF Request
<1>8. \A s \in Requests \ {r} : pc'[s] = pc[s] /\ req'[s] = req[s]
  BY <1>0, <1>1, <1>3 DEF TypeOK
<1>9. pc' \in [Requests -> {"idle", "lock", "commit", "claims", "done"}] /\ pc'[r] = "commit"
  BY <1>0, <1>1 DEF TypeOK
<1>10. /\ locked' \in [Users \cup Devices -> Requests \cup {None}]
       /\ locked'[x] = r
       /\ \A y \in Users \cup Devices, s \in Requests : locked[y] = s => locked'[y] = s
  BY <1>0, <1>3, SessionsAssumption DEF TypeOK
<1> QED
  BY <1>1, <1>2, <1>3, <1>6, <1>7, <1>8, <1>9, <1>10

\* The UPDATE revokes the live tokens it has found and changes no other.
LEMMA RevokedEffect ==
    ASSUME TypeOK, NEW q \in Request
    PROVE  /\ Revoked(q) \in [Tokens -> Token]
           /\ \A t \in Tokens : /\ Revoked(q)[t].ds = token[t].ds
                                /\ Revoked(q)[t].user = token[t].user
                                /\ Revoked(q)[t].state = "live" => Live(t) /\ t \notin q.revoke
                                /\ token[t].state = "none" => Revoked(q)[t].state = "none"
<1>1. RevokedBy(q) \in {"new_login", "rotation", "password_change"}
  BY DEF RevokedBy
<1>2. ASSUME NEW t \in Tokens
      PROVE  /\ Revoked(q)[t] \in Token
             /\ Revoked(q)[t].ds = token[t].ds
             /\ Revoked(q)[t].user = token[t].user
             /\ Revoked(q)[t].state = "live" => Live(t) /\ t \notin q.revoke
             /\ token[t].state = "none" => Revoked(q)[t].state = "none"
  <2>1. token[t] \in Token
    BY DEF TypeOK
  <2>2. CASE t \in q.revoke /\ Live(t)
    <3>1. Revoked(q)[t] = [token[t] EXCEPT !.state = RevokedBy(q)]
      BY <2>2 DEF Revoked
    <3> QED
      BY <1>1, <2>1, <2>2, <3>1 DEF Token, Live
  <2>3. CASE ~(t \in q.revoke /\ Live(t))
    <3>1. Revoked(q)[t] = token[t]
      BY <2>3 DEF Revoked
    <3> QED
      BY <2>1, <2>3, <3>1 DEF Live
  <2> QED
    BY <2>2, <2>3
<1>3. Revoked(q) = [t \in Tokens |-> Revoked(q)[t]]
  BY DEF Revoked
<1> QED
  BY <1>2, <1>3

\* SaveToken inserts one live token, keeps live only what its UPDATE has not
\* found, and leaves the session with a user, the first one it had.
LEMMA SaveEffect ==
    ASSUME SessionsInv, NEW r \in Requests, NEW t \in Tokens, SaveToken(r, t)
    PROVE  /\ Saving(r)
           /\ End(r, "claims")
           /\ UNCHANGED <<accounts, visited, expired, access>>
           /\ req[r].ds \in Devices /\ req[r].user \in Users
           /\ token' \in [Tokens -> Token]
           /\ token[t].state = "none" /\ token'[t].state = "live"
           /\ token'[t].ds = req[r].ds /\ token'[t].user = req[r].user
           /\ \A s \in Tokens \ {t} : /\ token'[s].ds = token[s].ds
                                      /\ token'[s].user = token[s].user
                                      /\ Live(s)' => Live(s) /\ s \notin req[r].revoke
           /\ owner' \in [Devices -> Users \cup {None}]
           /\ owner'[req[r].ds] # None
           /\ \A d \in Devices : owner[d] # None => owner'[d] = owner[d]
<1>0. TypeOK /\ RequestsKnown /\ RefreshIsOwner
  BY DEF SessionsInv
<1>1. Saving(r) /\ End(r, "claims") /\ UNCHANGED <<accounts, visited, expired, access>>
  BY DEF SaveToken, Saving
<1>2. req[r].ds \in Devices /\ req[r].user \in Users
  BY <1>0, <1>1 DEF RequestsKnown, Saving
<1>3. req[r] \in Request
  BY <1>0 DEF TypeOK
<1> DEFINE new == [ds |-> req[r].ds, user |-> req[r].user, state |-> "live"]
<1>4. new \in Token
  BY <1>2 DEF Token
<1>5. token' = [Revoked(req[r]) EXCEPT ![t] = new]
  BY DEF SaveToken
<1> HIDE DEF new
<1>6. token' \in [Tokens -> Token] /\ token'[t] = new /\ token[t].state = "none"
  BY <1>0, <1>3, <1>4, <1>5, RevokedEffect DEF SaveToken
<1>7. \A s \in Tokens \ {t} : /\ token'[s].ds = token[s].ds
                              /\ token'[s].user = token[s].user
                              /\ Live(s)' => Live(s) /\ s \notin req[r].revoke
  <2> SUFFICES ASSUME NEW s \in Tokens \ {t}
               PROVE  /\ token'[s].ds = token[s].ds
                      /\ token'[s].user = token[s].user
                      /\ token'[s].state = "live" => Live(s) /\ s \notin req[r].revoke
    BY DEF Live
  <2>1. token'[s] = Revoked(req[r])[s]
    BY <1>0, <1>3, <1>5, RevokedEffect
  <2> QED
    BY <1>0, <1>3, <2>1, RevokedEffect
<1>8. owner' = Linked(req[r])
  BY DEF SaveToken
<1>9. None \notin Users
  BY SessionsAssumption
<1>10. owner' \in [Devices -> Users \cup {None}]
  BY <1>0, <1>2, <1>8 DEF TypeOK, Linked
<1>11. \A d \in Devices : owner[d] # None => owner'[d] = owner[d]
  BY <1>0, <1>2, <1>8 DEF TypeOK, Linked
<1>12. owner'[req[r].ds] # None
  <2>1. CASE req[r].kind = "login" /\ owner[req[r].ds] = None
    BY <1>0, <1>2, <1>8, <1>9, <2>1 DEF TypeOK, Linked
  <2>2. CASE req[r].kind = "login" /\ owner[req[r].ds] # None
    BY <1>2, <1>11, <2>2
  <2>3. CASE req[r].kind = "refresh"
    <3>1. owner[req[r].ds] = req[r].user
      BY <1>0, <1>1, <2>3 DEF RefreshIsOwner
    <3> QED
      BY <1>2, <1>9, <1>11, <3>1
  <2> QED
    BY <1>1, <2>1, <2>2, <2>3 DEF Saving
<1> QED
  BY <1>1, <1>2, <1>6, <1>7, <1>10, <1>11, <1>12 DEF new

-----------------------------------------------------------------------------
(* What no step undoes.                                                    *)

\* An account stays, role_version does not fall, and it rises whenever the
\* roles of an account change.
LEMMA AccountStep ==
    ASSUME SessionsInv, Steps
    PROVE  /\ password' \in [Users -> Nat]
           /\ roles' \in [Users -> SUBSET Roles]
           /\ version' \in [Users -> Nat]
           /\ \A u \in Users :
                 /\ password[u] # 0 => password'[u] # 0
                 /\ version[u] <= version'[u]
                 /\ password[u] # 0 /\ roles'[u] # roles[u] => version[u] < version'[u]
<1>0. TypeOK /\ RequestsKnown
  BY DEF SessionsInv
<1>1. /\ password \in [Users -> Nat]
      /\ roles \in [Users -> SUBSET Roles]
      /\ version \in [Users -> Nat]
  BY <1>0 DEF TypeOK
<1>2. CASE UNCHANGED accounts
  BY <1>1, <1>2 DEF accounts
<1>3. ASSUME NEW u \in Users, NEW role \in {DEFAULT_ROLE, Admin}, Signup(u, role)
      PROVE  /\ password' \in [Users -> Nat]
             /\ roles' \in [Users -> SUBSET Roles]
             /\ version' = version
             /\ \A v \in Users : /\ password[v] # 0 => password'[v] # 0
                                 /\ password[v] # 0 => roles'[v] = roles[v]
  BY <1>1, <1>3, SessionsAssumption DEF Signup, NewUser, CreateCredential, LinkUserRole
<1>4. ASSUME NEW r \in Requests, CommitPassword(r)
      PROVE  /\ password' \in [Users -> Nat]
             /\ roles' = roles
             /\ version' = version
             /\ \A v \in Users : password[v] # 0 => password'[v] # 0
  <2>1. req[r].user \in Users
    BY <1>0, <1>4 DEF RequestsKnown, CommitPassword
  <2> QED
    BY <1>1, <1>4, <2>1 DEF CommitPassword
<1>5. ASSUME NEW r \in Requests, CommitRoles(r)
      PROVE  /\ password' = password
             /\ roles' \in [Users -> SUBSET Roles]
             /\ version' \in [Users -> Nat]
             /\ \A v \in Users : /\ version[v] <= version'[v]
                                 /\ roles'[v] # roles[v] => version[v] < version'[v]
  <2>1. req[r].user \in Users
    BY <1>0, <1>5 DEF RequestsKnown, CommitRoles
  <2>2. req[r] \in Request
    BY <1>0 DEF TypeOK
  <2>3. PICK rs \in RolesAfter(req[r]) : roles' = [roles EXCEPT ![req[r].user] = rs]
    BY <1>5 DEF CommitRoles
  <2>4. roles[req[r].user] \subseteq Roles /\ req[r].grant \subseteq Roles
    BY <1>1, <2>1, <2>2 DEF Request
  <2>5. rs \subseteq Roles
    BY <2>3, <2>4 DEF RolesAfter
  <2>6. version' = [version EXCEPT ![req[r].user] = @ + 1] /\ password' = password
    BY <1>5 DEF CommitRoles
  <2> QED
    BY <1>1, <2>1, <2>3, <2>5, <2>6
<1>6. ASSUME NEW r \in Requests, NEW t \in Tokens, SaveToken(r, t)
      PROVE  UNCHANGED accounts
  BY <1>6, SaveEffect DEF accounts
<1>7. ASSUME NEW r \in Requests,
             Arrives(r) \/ LockSession(r) \/ IssueAccess(r) \/ SetPassword(r) \/ Fail(r)
      PROVE  UNCHANGED accounts
  BY <1>0, <1>7, ArrivesEffect DEF LockSession, IssueAccess, SetPassword, Fail, accounts
<1>8. ASSUME NEW x, SessionInit(x) \/ Expire(x)
      PROVE  UNCHANGED accounts
  BY <1>8 DEF SessionInit, Expire, accounts
<1>9. CASE \E u \in Users, role \in {DEFAULT_ROLE, Admin} : Signup(u, role)
  BY <1>1, <1>3, <1>9
<1>10. CASE \E r \in Requests : CommitPassword(r)
  BY <1>1, <1>4, <1>10
<1>11. CASE \E r \in Requests : CommitRoles(r)
  BY <1>1, <1>5, <1>11
<1> QED
  BY <1>2, <1>6, <1>7, <1>8, <1>9, <1>10, <1>11 DEF Steps

Saves == \E r \in Requests, t \in Tokens : SaveToken(r, t)

\* Only SaveToken makes a token live or links a device session.
LEMMA TokenStep ==
    ASSUME SessionsInv, Steps, ~Saves
    PROVE  /\ token' \in [Tokens -> Token]
           /\ \A t \in Tokens : /\ token'[t].ds = token[t].ds
                                /\ token'[t].user = token[t].user
                                /\ Live(t)' => Live(t)
           /\ owner' = owner
<1>0. TypeOK
  BY DEF SessionsInv
<1>1. token \in [Tokens -> Token]
  BY <1>0 DEF TypeOK
<1>2. CASE UNCHANGED <<token, owner>>
  BY <1>1, <1>2 DEF Live
<1>3. ASSUME NEW r \in Requests, CommitPassword(r)
      PROVE  /\ token' \in [Tokens -> Token]
             /\ \A t \in Tokens : /\ token'[t].ds = token[t].ds
                                  /\ token'[t].user = token[t].user
                                  /\ Live(t)' => Live(t)
             /\ owner' = owner
  <2>1. req[r] \in Request
    BY <1>0 DEF TypeOK
  <2>2. token' = Revoked(req[r]) /\ owner' = owner
    BY <1>3 DEF CommitPassword, devices
  <2>3. \A t \in Tokens : token'[t].state = "live" => Live(t)
    BY <1>0, <2>1, <2>2, RevokedEffect
  <2>4. \A t \in Tokens : Live(t)' => Live(t)
    BY <2>3 DEF Live
  <2> QED
    BY <1>0, <2>1, <2>2, <2>4, RevokedEffect
<1>4. ASSUME NEW r \in Requests,
             Arrives(r) \/ LockSession(r) \/ IssueAccess(r) \/ SetPassword(r) \/ Fail(r)
             \/ CommitRoles(r)
      PROVE  UNCHANGED <<token, owner>>
  BY <1>0, <1>4, ArrivesEffect
     DEF LockSession, IssueAccess, SetPassword, Fail, CommitRoles, devices
<1>5. ASSUME NEW x, SessionInit(x) \/ Expire(x)
      PROVE  UNCHANGED <<token, owner>>
  BY <1>5 DEF SessionInit, Expire
<1>6. ASSUME NEW u, NEW role, Signup(u, role)
      PROVE  UNCHANGED <<token, owner>>
  BY <1>6 DEF Signup, devices
<1> QED
  BY <1>2, <1>3, <1>4, <1>5, <1>6 DEF Steps, Saves

\* A session with a user keeps it.
LEMMA OwnerStep ==
    ASSUME SessionsInv, Steps
    PROVE  \A d \in Devices : owner[d] # None => owner'[d] = owner[d]
BY TokenStep, SaveEffect DEF Saves

\* A request between its lock and its commit keeps what it has read, and the
\* rows it holds, until its own commit; a request that appears there has
\* taken its lock in this step.
LEMMA SaverStep ==
    ASSUME SessionsInv, Steps, NEW s \in Requests, Saving(s)'
    PROVE  \/ Saving(s) /\ req'[s] = req[s] /\ (\A x \in Users \cup Devices :
                                                   locked[x] = s => locked'[x] = s)
           \/ /\ pc[s] = "lock"
              /\ LockSession(s)
              /\ ~Saves
<1>0. TypeOK
  BY DEF SessionsInv
<1>1. CASE UNCHANGED <<pc, req, locked>>
  BY <1>1 DEF Saving
<1>2. ASSUME NEW r \in Requests,
             IssueAccess(r) \/ CommitPassword(r) \/ CommitRoles(r) \/ Fail(r)
      PROVE  Saving(s) /\ req'[s] = req[s] /\ (\A x \in Users \cup Devices :
                                                  locked[x] = s => locked'[x] = s)
  <2>1. End(r, "done")
    BY <1>2 DEF IssueAccess, CommitPassword, CommitRoles, Fail
  <2>2. r # s
    BY <1>0, <2>1, EndEffect DEF Saving
  <2> QED
    BY <1>0, <2>1, <2>2, EndEffect DEF Saving
<1>3. ASSUME NEW r \in Requests, NEW t \in Tokens, SaveToken(r, t)
      PROVE  Saving(s) /\ req'[s] = req[s] /\ (\A x \in Users \cup Devices :
                                                  locked[x] = s => locked'[x] = s)
  <2>1. End(r, "claims")
    BY <1>3 DEF SaveToken
  <2>2. r # s
    BY <1>0, <2>1, EndEffect DEF Saving
  <2> QED
    BY <1>0, <2>1, <2>2, EndEffect DEF Saving
<1>4. ASSUME NEW r \in Requests, Arrives(r)
      PROVE  Saving(s) /\ req'[s] = req[s] /\ locked' = locked
  <2>1. r # s
    BY <1>0, <1>4, ArrivesEffect DEF Saving
  <2> QED
    BY <1>0, <1>4, <2>1, ArrivesEffect DEF Saving
<1>5. ASSUME NEW r \in Requests, LockSession(r) \/ SetPassword(r)
      PROVE  \/ Saving(s) /\ req'[s] = req[s] /\ (\A x \in Users \cup Devices :
                                                     locked[x] = s => locked'[x] = s)
             \/ pc[s] = "lock" /\ LockSession(s) /\ ~Saves
  <2>1. CASE r # s
    BY <1>5, <2>1, LockEffect DEF Saving
  <2>2. CASE r = s
    <3>1. req[s].kind \in {"login", "refresh"}
      BY <1>5, <2>2, LockEffect DEF Saving
    <3>2. LockSession(s)
      BY <1>5, <2>2, <3>1 DEF SetPassword
    <3>3. pc[s] = "lock" /\ UNCHANGED token
      BY <3>2 DEF LockSession
    <3>4. ~Saves
      <4> SUFFICES ASSUME NEW v \in Requests, NEW t \in Tokens, SaveToken(v, t)
                   PROVE  FALSE
        BY DEF Saves
      <4>1. token[t].state = "none" /\ token'[t].state = "live"
        BY SaveEffect
      <4> QED
        BY <3>3, <4>1
    <3> QED
      BY <3>2, <3>3, <3>4
  <2> QED
    BY <2>1, <2>2
<1>6. ASSUME NEW x, SessionInit(x) \/ Expire(x)
      PROVE  UNCHANGED <<pc, req, locked>>
  BY <1>6 DEF SessionInit, Expire
<1>7. ASSUME NEW u, NEW role, Signup(u, role)
      PROVE  UNCHANGED <<pc, req, locked>>
  BY <1>7 DEF Signup
<1> QED
  BY <1>1, <1>2, <1>3, <1>4, <1>5, <1>6, <1>7 DEF Steps

-----------------------------------------------------------------------------
(* One lemma per part of the invariant.                                    *)

\* The rows, tokens, claims and requests keep their types.
LEMMA TypeStep ==
    ASSUME SessionsInv, Steps
    PROVE  TypeOK'
<1>0. TypeOK /\ RequestsKnown
  BY DEF SessionsInv
<1>1. token' \in [Tokens -> Token] /\ owner' \in [Devices -> Users \cup {None}]
  BY <1>0, TokenStep, SaveEffect DEF Saves, TypeOK
<1> DEFINE Rest == /\ visited' \subseteq Devices
                   /\ expired' \subseteq Devices \cup Tokens
                   /\ access' \subseteq Claims
                   /\ pc' \in [Requests -> {"idle", "lock", "commit", "claims", "done"}]
                   /\ req' \in [Requests -> Request]
                   /\ locked' \in [Users \cup Devices -> Requests \cup {None}]
<1>2. ASSUME NEW d \in Devices, SessionInit(d)
      PROVE  Rest
  BY <1>0, <1>2 DEF SessionInit, SaveDeviceState, TypeOK
<1>3. ASSUME NEW u, NEW role, Signup(u, role)
      PROVE  Rest
  BY <1>0, <1>3 DEF Signup, devices, TypeOK
<1>4. ASSUME NEW x \in Devices \cup Tokens, Expire(x)
      PROVE  Rest
  BY <1>0, <1>4 DEF Expire, TypeOK
<1>5. ASSUME NEW r \in Requests, NEW t \in Tokens, SaveToken(r, t)
      PROVE  Rest
  <2>1. End(r, "claims") /\ UNCHANGED <<visited, expired, access>>
    BY <1>5 DEF SaveToken
  <2> QED
    BY <1>0, <2>1, EndEffect DEF TypeOK
<1>6. ASSUME NEW r \in Requests, Arrives(r)
      PROVE  Rest
  BY <1>0, <1>6, ArrivesEffect DEF TypeOK, devices
<1>7. ASSUME NEW r \in Requests, LockSession(r) \/ SetPassword(r)
      PROVE  Rest
  BY <1>0, <1>7, LockEffect DEF TypeOK, devices
<1>8. ASSUME NEW r \in Requests, CommitPassword(r) \/ CommitRoles(r) \/ Fail(r)
      PROVE  Rest
  <2>1. End(r, "done") /\ UNCHANGED <<visited, expired, access>>
    BY <1>8 DEF CommitPassword, CommitRoles, Fail, devices
  <2> QED
    BY <1>0, <2>1, EndEffect DEF TypeOK
<1>9. ASSUME NEW r \in Requests, IssueAccess(r)
      PROVE  Rest
  <2>1. End(r, "done") /\ UNCHANGED <<visited, expired>>
    BY <1>9 DEF IssueAccess, devices
  <2>2. req[r].user \in Users
    BY <1>0, <1>9 DEF RequestsKnown, IssueAccess
  <2>3. req[r].version \in Nat
    BY <1>0 DEF TypeOK, Request
  <2>4. NewClaims(req[r]) \in Claims
    BY <1>0, <2>2, <2>3 DEF NewClaims, Claims, TypeOK
  <2>5. access' \subseteq Claims
    BY <1>0, <1>9, <2>4 DEF IssueAccess, TypeOK
  <2> QED
    BY <1>0, <2>1, <2>5, EndEffect DEF TypeOK
<1>10. Rest
  BY <1>2, <1>3, <1>4, <1>5, <1>6, <1>7, <1>8, <1>9 DEF Steps
<1> QED
  BY <1>1, <1>10, AccountStep DEF TypeOK

\* A request reads its user when it arrives; the account and the version it
\* has read stay, and SaveToken hands them on to IssueAccess.
LEMMA RequestsKnownStep ==
    ASSUME SessionsInv, Steps
    PROVE  RequestsKnown'
<1>0. TypeOK /\ RequestsKnown
  BY DEF SessionsInv
<1> SUFFICES ASSUME NEW s \in Requests, pc'[s] \in {"lock", "commit", "claims"}
             PROVE  /\ req'[s].user \in Users
                    /\ password'[req'[s].user] # 0
                    /\ req'[s].version <= version'[req'[s].user]
                    /\ req'[s].kind \in {"login", "refresh"} /\ pc'[s] # "claims"
                          => req'[s].ds \in Devices
                    /\ pc'[s] = "claims" => req'[s].kind \in {"login", "refresh"}
  BY DEF RequestsKnown
\* What is left to show once the accounts only grow.
<1> DEFINE Known == /\ req'[s].user \in Users
                    /\ password[req'[s].user] # 0
                    /\ req'[s].version <= version[req'[s].user]
                    /\ req'[s].kind \in {"login", "refresh"} /\ pc'[s] # "claims"
                          => req'[s].ds \in Devices
                    /\ pc'[s] = "claims" => req'[s].kind \in {"login", "refresh"}
<1>1. ASSUME pc'[s] = pc[s], req'[s] = req[s]
      PROVE  Known
  BY <1>0, <1>1 DEF RequestsKnown
<1>2. ASSUME NEW r \in Requests,
             IssueAccess(r) \/ CommitPassword(r) \/ CommitRoles(r) \/ Fail(r)
      PROVE  Known
  <2>1. End(r, "done")
    BY <1>2 DEF IssueAccess, CommitPassword, CommitRoles, Fail
  <2>2. r # s
    BY <1>0, <2>1, EndEffect
  <2> QED
    BY <1>0, <1>1, <2>1, <2>2, EndEffect
<1>3. ASSUME NEW r \in Requests, NEW t \in Tokens, SaveToken(r, t)
      PROVE  Known
  <2>1. End(r, "claims") /\ Saving(r)
    BY <1>3, SaveEffect
  <2>2. CASE r # s
    BY <1>0, <1>1, <2>1, <2>2, EndEffect
  <2>3. CASE r = s
    <3>1. /\ req[s].user \in Users
          /\ password[req[s].user] # 0
          /\ req[s].version <= version[req[s].user]
      BY <1>0, <2>1, <2>3 DEF RequestsKnown, Saving
    <3> QED
      BY <1>0, <2>1, <2>3, <3>1, EndEffect DEF Saving
  <2> QED
    BY <2>2, <2>3
<1>4. ASSUME NEW r \in Requests, Arrives(r)
      PROVE  Known
  <2>1. CASE r # s
    BY <1>0, <1>1, <1>4, <2>1, ArrivesEffect
  <2>2. CASE r = s
    BY <1>0, <1>4, <2>2, ArrivesEffect
  <2> QED
    BY <2>1, <2>2
<1>5. ASSUME NEW r \in Requests, LockSession(r) \/ SetPassword(r)
      PROVE  Known
  <2>1. CASE r # s
    BY <1>1, <1>5, <2>1, LockEffect
  <2>2. CASE r = s
    BY <1>0, <1>5, <2>2, LockEffect DEF RequestsKnown
  <2> QED
    BY <2>1, <2>2
<1>6. ASSUME NEW x, SessionInit(x) \/ Expire(x)
      PROVE  Known
  BY <1>1, <1>6 DEF SessionInit, Expire
<1>7. ASSUME NEW u, NEW role, Signup(u, role)
      PROVE  Known
  BY <1>1, <1>7 DEF Signup
<1>8. Known
  BY <1>2, <1>3, <1>4, <1>5, <1>6, <1>7 DEF Steps
<1>9. req'[s].version \in Nat
  BY TypeStep DEF TypeOK, Request
<1>10. version[req'[s].user] \in Nat /\ version'[req'[s].user] \in Nat
  BY <1>0, <1>8, AccountStep DEF TypeOK
<1>11. req'[s].version <= version'[req'[s].user]
  BY <1>8, <1>9, <1>10, AccountStep
<1> QED
  BY <1>8, <1>11, AccountStep

\* SaveToken makes a token live in the transaction that links the session.
LEMMA LiveTokensLinkedStep ==
    ASSUME SessionsInv, Steps
    PROVE  LiveTokensLinked'
<1>0. TypeOK /\ LiveTokensLinked /\ RequestsKnown
  BY DEF SessionsInv
<1> SUFFICES ASSUME NEW s \in Tokens, Live(s)'
             PROVE  /\ token'[s].ds \in Devices
                    /\ token'[s].user \in Users
                    /\ password'[token'[s].user] # 0
                    /\ owner'[token'[s].ds] # None
  BY DEF LiveTokensLinked
<1>1. CASE Live(s) /\ token'[s].ds = token[s].ds /\ token'[s].user = token[s].user
  BY <1>0, <1>1, AccountStep, OwnerStep DEF LiveTokensLinked
<1>2. CASE ~Saves
  BY <1>1, <1>2, TokenStep
<1>3. ASSUME NEW r \in Requests, NEW t \in Tokens, SaveToken(r, t)
      PROVE  /\ token'[s].ds \in Devices
             /\ token'[s].user \in Users
             /\ password'[token'[s].user] # 0
             /\ owner'[token'[s].ds] # None
  <2>1. CASE s # t
    BY <1>1, <1>3, <2>1, SaveEffect
  <2>2. CASE s = t
    <3>1. token'[s].ds = req[r].ds /\ token'[s].user = req[r].user
      BY <1>3, <2>2, SaveEffect
    <3>2. password[req[r].user] # 0
      BY <1>0, <1>3, SaveEffect DEF RequestsKnown, Saving
    <3> QED
      BY <1>3, <3>1, <3>2, SaveEffect, AccountStep
  <2> QED
    BY <2>1, <2>2
<1> QED
  BY <1>2, <1>3 DEF Saves

\* The row is taken with LockSession and given back with the transaction.
LEMMA SaverHoldsSessionStep ==
    ASSUME SessionsInv, Steps
    PROVE  SaverHoldsSession'
<1>0. RequestsKnown /\ SaverHoldsSession
  BY DEF SessionsInv
<1> SUFFICES ASSUME NEW s \in Requests, Saving(s)'
             PROVE  locked'[req'[s].ds] = s
  BY DEF SaverHoldsSession
<1>1. CASE Saving(s) /\ req'[s] = req[s] /\ (\A x \in Users \cup Devices :
                                                locked[x] = s => locked'[x] = s)
  <2>1. req[s].ds \in Devices /\ locked[req[s].ds] = s
    BY <1>0, <1>1 DEF RequestsKnown, SaverHoldsSession, Saving
  <2> QED
    BY <1>1, <2>1
<1>2. CASE LockSession(s)
  <2>1. req[s].kind \in {"login", "refresh"}
    BY <1>2 DEF LockSession
  <2> QED
    BY <1>2, <2>1, LockEffect
<1> QED
  BY <1>1, <1>2, SaverStep

\* Two requests that save on one device session would both hold it.
LEMMA OneSaver ==
    ASSUME SessionsInv, NEW r \in Requests, NEW s \in Requests, Saving(r), Saving(s),
           req[r].ds = req[s].ds
    PROVE  r = s
BY DEF SessionsInv, SaverHoldsSession

\* LockSession notes every live token of its user, and no other request can
\* add one while the row is held.
LEMMA SaverRevokesAllStep ==
    ASSUME SessionsInv, Steps
    PROVE  SaverRevokesAll'
<1>0. SaverRevokesAll
  BY DEF SessionsInv
<1> SUFFICES ASSUME NEW s \in Requests, NEW u \in Tokens, Saving(s)', Live(u)',
                    token'[u].ds = req'[s].ds, token'[u].user = req'[s].user
             PROVE  u \in req'[s].revoke
  BY DEF SaverRevokesAll
<1>1. CASE Saving(s) /\ req'[s] = req[s]
  <2>1. CASE Live(u) /\ token'[u].ds = token[u].ds /\ token'[u].user = token[u].user
    BY <1>0, <1>1, <2>1 DEF SaverRevokesAll
  <2>2. CASE ~Saves
    BY <2>1, <2>2, TokenStep
  <2>3. ASSUME NEW r \in Requests, NEW t \in Tokens, SaveToken(r, t)
        PROVE  u \in req'[s].revoke
    <3>1. CASE u # t
      BY <2>1, <2>3, <3>1, SaveEffect
    <3>2. CASE u = t
      \* The request that inserts u holds the device session, so it is s;
      \* and s is still to commit.
      <4>1. req[r].ds = req[s].ds /\ Saving(r)
        BY <1>1, <2>3, <3>2, SaveEffect
      <4>2. r = s
        BY <1>1, <4>1, OneSaver
      <4>3. pc'[r] = "claims"
        BY <2>3, SaveEffect, EndEffect DEF SessionsInv
      <4> QED
        BY <4>2, <4>3 DEF Saving
    <3> QED
      BY <3>1, <3>2
  <2> QED
    BY <2>2, <2>3 DEF Saves
<1>2. CASE LockSession(s) /\ ~Saves
  <2>1. req[s].kind \in {"login", "refresh"}
    BY <1>2 DEF LockSession
  <2>2. /\ req'[s].revoke = LiveOf(req[s].ds, req[s].user)
        /\ req'[s].ds = req[s].ds /\ req'[s].user = req[s].user
    BY <1>2, <2>1, LockEffect
  <2>3. Live(u) /\ token'[u].ds = token[u].ds /\ token'[u].user = token[u].user
    BY <1>2, TokenStep
  <2> QED
    BY <2>2, <2>3 DEF LiveOf
<1> QED
  BY <1>1, <1>2, SaverStep

\* LockSession of a refresh has seen its user on the row, and nobody relinks
\* it.
LEMMA RefreshIsOwnerStep ==
    ASSUME SessionsInv, Steps
    PROVE  RefreshIsOwner'
<1>0. RequestsKnown /\ RefreshIsOwner
  BY DEF SessionsInv
<1> SUFFICES ASSUME NEW s \in Requests, Saving(s)', req'[s].kind = "refresh"
             PROVE  owner'[req'[s].ds] = req'[s].user
  BY DEF RefreshIsOwner
<1>1. CASE Saving(s) /\ req'[s] = req[s]
  <2>1. req[s].ds \in Devices /\ req[s].user \in Users /\ owner[req[s].ds] = req[s].user
    BY <1>0, <1>1 DEF RequestsKnown, RefreshIsOwner, Saving
  <2> QED
    BY <1>1, <2>1, OwnerStep, SessionsAssumption
<1>2. CASE LockSession(s) /\ ~Saves
  <2>1. req[s].kind = "refresh" /\ req'[s].ds = req[s].ds /\ req'[s].user = req[s].user
    BY <1>2, LockEffect
  <2>2. owner[req[s].ds] = req[s].user
    BY <1>2, <2>1 DEF LockSession, SessionValid, DeviceSessionOf
  <2> QED
    BY <1>2, <2>1, <2>2, TokenStep
<1> QED
  BY <1>1, <1>2, SaverStep

\* The new token is the only one left live of its user on its session.
LEMMA LiveTokensEqualStep ==
    ASSUME SessionsInv, Steps
    PROVE  LiveTokensEqual'
<1>0. TypeOK /\ SaverRevokesAll /\ LiveTokensEqual
  BY DEF SessionsInv
<1> SUFFICES ASSUME NEW s \in Tokens, NEW t \in Tokens, Live(s)', Live(t)',
                    token'[s].ds = token'[t].ds, token'[s].user = token'[t].user
             PROVE  s = t
  BY DEF LiveTokensEqual
<1>1. CASE ~Saves
  BY <1>0, <1>1, TokenStep DEF LiveTokensEqual
<1>2. ASSUME NEW r \in Requests, NEW new \in Tokens, SaveToken(r, new)
      PROVE  s = t
  \* What is live beside the new token was not found by the UPDATE.
  <2>1. ASSUME NEW x \in Tokens \ {new}, Live(x)', token'[x].ds = req[r].ds
        PROVE  token'[x].user # req[r].user
    <3>1. /\ Live(x) /\ x \notin req[r].revoke /\ Saving(r)
          /\ token'[x].ds = token[x].ds /\ token'[x].user = token[x].user
      BY <1>2, <2>1, SaveEffect
    <3> QED
      BY <1>0, <2>1, <3>1 DEF SaverRevokesAll
  <2>2. token'[new].ds = req[r].ds /\ token'[new].user = req[r].user
    BY <1>2, SaveEffect
  <2>3. CASE s # new /\ t # new
    BY <1>0, <1>2, <2>3, SaveEffect DEF LiveTokensEqual
  <2> QED
    BY <2>1, <2>2, <2>3
<1> QED
  BY <1>1, <1>2 DEF Saves

\* Access tokens are kept, and a new one has the roles its user has now and
\* no version ahead of the row.
LEMMA AccessStep ==
    ASSUME SessionsInv, Steps, NEW c \in access'
    PROVE  \/ c \in access
           \/ /\ UNCHANGED accounts
              /\ c.user \in Users
              /\ password[c.user] # 0
              /\ c.version <= version[c.user]
              /\ c.roles = roles[c.user]
<1>0. TypeOK /\ RequestsKnown
  BY DEF SessionsInv
<1>1. ASSUME NEW r \in Requests, IssueAccess(r), c = NewClaims(req[r])
      PROVE  /\ UNCHANGED accounts
             /\ c.user \in Users
             /\ password[c.user] # 0
             /\ c.version <= version[c.user]
             /\ c.roles = roles[c.user]
  <2>1. /\ req[r].user \in Users
        /\ password[req[r].user] # 0
        /\ req[r].version <= version[req[r].user]
    BY <1>0, <1>1 DEF RequestsKnown, IssueAccess
  <2>2. version[req[r].user] \in Nat
    BY <1>0, <2>1 DEF TypeOK
  <2>3. c.user = req[r].user /\ c.roles = roles[req[r].user]
    BY <1>1 DEF NewClaims
  <2>4. c.version = req[r].version \/ c.version = version[req[r].user]
    BY <1>1 DEF NewClaims
  <2>5. c.version <= version[req[r].user]
    BY <2>1, <2>2, <2>4
  <2> QED
    BY <1>1, <2>1, <2>3, <2>5 DEF IssueAccess
<1>2. ASSUME NEW r \in Requests, IssueAccess(r)
      PROVE  c \in access \/ c = NewClaims(req[r])
  BY <1>2 DEF IssueAccess
<1>3. ASSUME NEW r \in Requests, NEW t \in Tokens, SaveToken(r, t)
      PROVE  access' = access
  BY <1>3 DEF SaveToken
<1>4. ASSUME NEW r \in Requests,
             Arrives(r) \/ LockSession(r) \/ SetPassword(r) \/ CommitPassword(r)
             \/ CommitRoles(r) \/ Fail(r)
      PROVE  access' = access
  BY <1>0, <1>4, ArrivesEffect DEF LockSession, SetPassword, CommitPassword, CommitRoles, Fail
<1>5. ASSUME NEW x, SessionInit(x) \/ Expire(x)
      PROVE  access' = access
  BY <1>5 DEF SessionInit, Expire
<1>6. ASSUME NEW u, NEW role, Signup(u, role)
      PROVE  access' = access
  BY <1>6 DEF Signup
<1> QED
  BY <1>1, <1>2, <1>3, <1>4, <1>5, <1>6 DEF Steps

\* A change of roles leaves every access token of the user with an older
\* version; a new one has the roles it has just read.
LEMMA VersionsStep ==
    ASSUME SessionsInv, Steps
    PROVE  VersionsBehind' /\ CurrentVersionMeansCurrentRoles'
<1>0. TypeOK /\ VersionsBehind /\ CurrentVersionMeansCurrentRoles
  BY DEF SessionsInv
<1> SUFFICES ASSUME NEW c \in access'
             PROVE  /\ password'[c.user] # 0
                    /\ c.version <= version'[c.user]
                    /\ c.version = version'[c.user] => c.roles = roles'[c.user]
  BY DEF VersionsBehind, CurrentVersionMeansCurrentRoles, VersionCurrent
<1>1. CASE c \in access
  <2>1. c.user \in Users /\ c.version \in Nat
    BY <1>0, <1>1 DEF TypeOK, Claims
  <2>2. /\ password[c.user] # 0
        /\ c.version <= version[c.user]
        /\ c.version = version[c.user] => c.roles = roles[c.user]
    BY <1>0, <1>1 DEF VersionsBehind, CurrentVersionMeansCurrentRoles, VersionCurrent
  <2>3. version[c.user] \in Nat /\ version'[c.user] \in Nat
    BY <1>0, <2>1, AccountStep DEF TypeOK
  <2>4. /\ password'[c.user] # 0
        /\ version[c.user] <= version'[c.user]
        /\ roles'[c.user] # roles[c.user] => version[c.user] < version'[c.user]
    BY <2>1, <2>2, AccountStep
  <2> QED
    BY <2>1, <2>2, <2>3, <2>4
<1>2. CASE c \notin access
  BY <1>2, AccessStep DEF accounts
<1> QED
  BY <1>1, <1>2

-----------------------------------------------------------------------------
(* The theorems.                                                           *)

\* No request, no token and no access token at the start.
LEMMA SessionsInit == Init => SessionsInv
<1> SUFFICES ASSUME Init
             PROVE  SessionsInv
  OBVIOUS
<1>1. NoRequest \in Request /\ NoToken \in Token
  BY DEF NoRequest, Request, NoToken, Token
<1>2. TypeOK
  BY <1>1 DEF Init, TypeOK
<1>3. \A t \in Tokens : ~Live(t)
  BY DEF Init, Live, NoToken
<1>4. \A r \in Requests : pc[r] = "idle"
  BY DEF Init
<1>5. access = {}
  BY DEF Init
<1> QED
  BY <1>2, <1>3, <1>4, <1>5
     DEF SessionsInv, RequestsKnown, LiveTokensLinked, SaverHoldsSession, SaverRevokesAll,
         RefreshIsOwner, LiveTokensEqual, VersionsBehind, CurrentVersionMeansCurrentRoles, Saving

\* Every step keeps the invariant.
LEMMA SessionsStep == SessionsInv /\ [Next]_vars => SessionsInv'
<1>1. ASSUME SessionsInv, Next
      PROVE  SessionsInv'
  <2>1. Steps
    BY <1>1, NextCases
  <2> QED
    BY <1>1, <2>1, TypeStep, RequestsKnownStep, LiveTokensLinkedStep, SaverHoldsSessionStep,
       SaverRevokesAllStep, RefreshIsOwnerStep, LiveTokensEqualStep, VersionsStep
       DEF SessionsInv
<1>2. ASSUME SessionsInv, UNCHANGED vars
      PROVE  SessionsInv'
  BY <1>2
     DEF SessionsInv, vars, accounts, devices, TypeOK, RequestsKnown, LiveTokensLinked,
         SaverHoldsSession, SaverRevokesAll, RefreshIsOwner, LiveTokensEqual, VersionsBehind,
         CurrentVersionMeansCurrentRoles, VersionCurrent, Saving, Live
<1> QED
  BY <1>1, <1>2

\* The invariant holds of every behaviour of the accounts and sessions.
THEOREM SessionsInvariant == Spec => []SessionsInv
<1>1. Init => SessionsInv
  BY SessionsInit
<1>2. SessionsInv /\ [Next]_vars => SessionsInv'
  BY SessionsStep
<1> QED
  BY <1>1, <1>2, PTL DEF Spec

\* Every row, token, claim and request has its type: no access token is
\* issued for a user that signup has not created.
THEOREM SessionsTypeCorrect == Spec => []TypeOK
<1>1. SessionsInv => TypeOK
  BY DEF SessionsInv
<1> QED
  BY <1>1, SessionsInvariant, PTL

\* However login_user and refresh_auth interleave, save_refresh_token leaves
\* at most one refresh token of a user live on a device session.
THEOREM OneTokenIsLive == Spec => []OneLiveToken
<1>1. ASSUME SessionsInv
      PROVE  OneLiveToken
  <2> SUFFICES ASSUME NEW d \in Devices, NEW u \in Users
               PROVE  Cardinality(LiveOf(d, u)) <= 1
    BY DEF OneLiveToken
  <2>1. \A s, t \in LiveOf(d, u) : s = t
    BY <1>1 DEF SessionsInv, LiveTokensEqual, LiveOf
  <2>2. CASE LiveOf(d, u) = {}
    <3>1. Cardinality(LiveOf(d, u)) = 0
      BY <2>2, FS_EmptySet
    <3> QED
      BY <3>1
  <2>3. CASE LiveOf(d, u) # {}
    <3>1. PICK t : t \in LiveOf(d, u)
      BY <2>3
    <3>2. LiveOf(d, u) = {t}
      BY <2>1, <3>1
    <3>3. Cardinality(LiveOf(d, u)) = 1
      BY <3>2, FS_Singleton
    <3> QED
      BY <3>3
  <2> QED
    BY <2>2, <2>3
<1> QED
  BY <1>1, SessionsInvariant, PTL

\* The test of role_version in check_user_roles_version is enough: an access
\* token it lets through carries the roles the user has now.
THEOREM CurrentVersionShowsRoles == Spec => []CurrentVersionMeansCurrentRoles
<1>1. SessionsInv => CurrentVersionMeansCurrentRoles
  BY DEF SessionsInv
<1> QED
  BY <1>1, SessionsInvariant, PTL

\* link_user_device links a device session once, and save_refresh_token
\* leaves no live token on a session without a user.
THEOREM SessionsLinkedForGood == Spec => LinkedForGood
<1> DEFINE Kept == \A d \in Devices :
                      /\ owner[d] # None => owner'[d] = owner[d]
                      /\ \A u \in Users : LiveOf(d, u)' # {} => owner'[d] # None
<1>1. ASSUME SessionsInv, SessionsInv', [Next]_vars
      PROVE  [Kept]_vars
  <2>1. CASE UNCHANGED vars
    BY <2>1
  <2>2. CASE Next
    <3>1. \A d \in Devices : owner[d] # None => owner'[d] = owner[d]
      BY <1>1, <2>2, NextCases, OwnerStep
    <3>2. ASSUME NEW d \in Devices, NEW u \in Users, LiveOf(d, u)' # {}
          PROVE  owner'[d] # None
      <4>1. PICK t \in Tokens : Live(t)' /\ token'[t].ds = d
        BY <3>2 DEF LiveOf
      <4>2. LiveTokensLinked'
        BY <1>1 DEF SessionsInv
      <4> QED
        BY <4>1, <4>2 DEF LiveTokensLinked
    <3> QED
      BY <3>1, <3>2
  <2> QED
    BY <1>1, <2>1, <2>2
<1> QED
  BY <1>1, SessionsInvariant, PTL DEF Spec, LinkedForGood
=============================================================================
