------------------------------ MODULE Sessions ------------------------------
(***************************************************************************)
(* Accounts, devices and refresh-token sessions: backend/app/modules/auth/ *)
(* and devices/, with the ban of admin/router.py.                          *)
(*                                                                         *)
(* As in Messages, a request is one READ COMMITTED transaction that get_db *)
(* commits at the end or rolls back on any exception, split at the         *)
(* statements other requests can be interleaved with.  An INSERT waits for *)
(* an uncommitted one of the same unique key, an UPDATE for an uncommitted *)
(* UPDATE of the same row.  A device stands for its identity key: one user *)
(* and one fingerprint, which the table holds at most one row for.         *)
(***************************************************************************)
EXTENDS Naturals, Sequences, FiniteSets

CONSTANTS Users, Devices,
          Owner,        \* Owner[d]: the user whose client holds the key of d
          Requests,     \* request slots of the server
          MaxRequests,  \* bound on requests
          MaxFailures   \* bound on failed logins

ASSUME OwnerAssumption == Owner \in [Devices -> Users]
ASSUME BoundsAssumption == MaxRequests \in Nat /\ MaxFailures \in Nat

VARIABLES
  account,   \* account[u]: the committed users row of that username
  device,    \* device[d]: the committed devices row of that user and fingerprint
  sessions,  \* committed sessions rows, oldest first; a row's index is its token
  access,    \* devices that hold an unexpired access token
  audit,     \* audit[t]: committed audit_logs rows of type t
  request,   \* request[r]: the transaction running in slot r
  contended, \* sessions that two requests worked on at once   (history)
  founded,   \* founded[u]: registrations answered 201          (history)
  failures,  \* logins answered 401                            (history)
  started    \* requests so far

vars == <<account, device, sessions, access, audit, request, contended, founded,
          failures, started>>

history == <<contended, founded, failures, started>>
store   == <<account, device, sessions, access, audit>>

AuditTypes == {"user.registered", "auth.login", "auth.login_failed",
               "device.registered", "device.revoked"}

NoParent == 0
Tokens == 1..Len(sessions)

Idle == [pc |-> "idle"]

\* pc names the statement that comes next.  "revoked" and "banned" remember
\* what was committed when the request began.
Transaction ==
  [pc : {"register", "register_commit", "find_device", "insert_device", "login_commit",
         "enrol", "enrol_commit", "revoke_token", "read_device", "refresh_commit",
         "logout", "logout_commit", "revoke_commit"},
   device : Devices, token : Nat, revoked : SUBSET Devices, banned : BOOLEAN]

Session == [device : Devices, parent : Nat, by : {"register", "login", "refresh"},
            state : {"live", "expired", "revoked"}]

\* The last two conjuncts are the foreign keys to devices.
TypeOK ==
  /\ account \in [Users -> {"none", "active", "banned"}]
  /\ device \in [Devices -> {"none", "active", "revoked"}]
  /\ sessions \in Seq(Session)
  /\ access \subseteq Devices
  /\ audit \in [AuditTypes -> Nat]
  /\ request \in [Requests -> {Idle} \cup Transaction]
  /\ contended \subseteq Nat
  /\ founded \in [Users -> Nat]
  /\ failures \in 0..MaxFailures
  /\ started \in 0..MaxRequests
  /\ \A t \in Tokens : device[sessions[t].device] # "none"
  /\ access \subseteq {d \in Devices : device[d] # "none"}

Init ==
  /\ account = [u \in Users |-> "none"]
  /\ device = [d \in Devices |-> "none"]
  /\ sessions = <<>>
  /\ access = {}
  /\ audit = [t \in AuditTypes |-> 0]
  /\ request = [r \in Requests |-> Idle]
  /\ contended = {}
  /\ founded = [u \in Users |-> 0]
  /\ failures = 0
  /\ started = 0

-----------------------------------------------------------------------------
(* What all requests share                                                 *)

Begin(r, pc, d, t) ==
  /\ request[r] = Idle
  /\ started < MaxRequests
  /\ started' = started + 1
  /\ request' = [request EXCEPT ![r] =
       [pc |-> pc, device |-> d, token |-> t,
        revoked |-> {e \in Devices : device[e] = "revoked"},
        banned |-> account[Owner[d]] = "banned"]]

Goto(r, pc) == request' = [request EXCEPT ![r].pc = pc]
End(r) == request' = [request EXCEPT ![r] = Idle]

At(r, pc) == request[r].pc = pc

Log(type) == audit' = [audit EXCEPT ![type] = @ + 1]

\* _create_session: the row and the two tokens of the answer.
Opened(rows, d, parent, by) ==
  Append(rows, [device |-> d, parent |-> parent, by |-> by, state |-> "live"])

-----------------------------------------------------------------------------
(* AuthService.register                                                    *)

\* get_by_username finds nobody.  (A taken name answers 409: no change.)
RegisterChecks(r, d) ==
  /\ account[Owner[d]] = "none"
  /\ Begin(r, "register", d, NoParent)
  /\ UNCHANGED <<store, contended, founded, failures>>

\* INSERT of the user: waits for an uncommitted one of that name and fails if
\* it is committed by now; the new user's device cannot conflict.
RegisterInserts(r) ==
  /\ At(r, "register")
  /\ \A q \in Requests : At(q, "register_commit")
                           => Owner[request[q].device] # Owner[request[r].device]
  /\ IF account[Owner[request[r].device]] = "none" THEN Goto(r, "register_commit") ELSE End(r)
  /\ UNCHANGED <<store, history>>

\* User, device, session and audit row become visible together.
RegisterCommits(r) ==
  LET d == request[r].device IN
  /\ At(r, "register_commit")
  /\ account' = [account EXCEPT ![Owner[d]] = "active"]
  /\ device' = [device EXCEPT ![d] = "active"]
  /\ sessions' = Opened(sessions, d, NoParent, "register")
  /\ access' = access \cup {d}
  /\ Log("user.registered")
  /\ founded' = [founded EXCEPT ![Owner[d]] = @ + 1]
  /\ End(r)
  /\ UNCHANGED <<contended, failures, started>>

-----------------------------------------------------------------------------
(* AuthService.login                                                       *)

\* The password is right and the account is not banned.  (A banned one is
\* refused without an audit row: no change.)
LoginChecks(r, d) ==
  /\ account[Owner[d]] = "active"
  /\ Begin(r, "find_device", d, NoParent)
  /\ UNCHANGED <<store, contended, founded, failures>>

\* No such user, or a wrong password: the audit row is added to the
\* transaction that the 401 then rolls back.
LoginFails(r) ==
  /\ request[r] = Idle
  /\ failures < MaxFailures
  /\ failures' = failures + 1
  /\ UNCHANGED <<store, request, contended, founded, started>>

\* get_by_fingerprint sees active devices only.
LoginFindsDevice(r) ==
  /\ At(r, "find_device")
  /\ Goto(r, IF device[request[r].device] = "active" THEN "login_commit" ELSE "insert_device")
  /\ UNCHANGED <<store, history>>

\* Another request has inserted, and not yet committed, the row of d.  (A
\* login that found its row is at "login_commit" too, but then the row is
\* committed and nobody can be waiting to insert it.)
RowPending(r, d) ==
  \E q \in Requests \ {r} :
    /\ request[q].pc \in {"login_commit", "enrol_commit"}
    /\ request[q].device = d
    /\ device[d] = "none"

\* The INSERT fails on UNIQUE(user_id, public_key_fingerprint) when the key
\* has a row, a revoked one included: the request ends with an error.
LoginInsertsDevice(r) ==
  /\ At(r, "insert_device")
  /\ ~RowPending(r, request[r].device)
  /\ IF device[request[r].device] = "none" THEN Goto(r, "login_commit") ELSE End(r)
  /\ UNCHANGED <<store, history>>

\* DEFECT (mutant): the audit row is written by a transaction of its own.
LoginCommitsAuditApart(r) ==
  LET d == request[r].device IN
  /\ At(r, "login_commit")
  /\ device' = [device EXCEPT ![d] = IF @ = "none" THEN "active" ELSE @]
  /\ sessions' = Opened(sessions, d, NoParent, "login")
  /\ access' = access \cup {d}
  /\ Log("auth.login") \/ UNCHANGED audit
  /\ End(r)
  /\ UNCHANGED <<account, history>>

\* A device found earlier is not written: it stays as revoked as it may have
\* become since.
LoginCommits(r) ==
  LET d == request[r].device IN
  /\ At(r, "login_commit")
  /\ device' = [device EXCEPT ![d] = IF @ = "none" THEN "active" ELSE @]
  /\ sessions' = Opened(sessions, d, NoParent, "login")
  /\ access' = access \cup {d}
  /\ Log("auth.login")
  /\ End(r)
  /\ UNCHANGED <<account, history>>

-----------------------------------------------------------------------------
(* AuthService.refresh and logout                                          *)

\* DEFECT (mutant): the lookup by hash without revoked_at IS NULL.
AnyToken(t) == sessions[t].state # "expired"

\* get_session_by_token_hash.
Usable(t) == sessions[t].state = "live"

UsesToken(q) == request[q].pc \in {"revoke_token", "read_device", "refresh_commit",
                                   "logout", "logout_commit"}

Contends(t) ==
  contended' = IF \E q \in Requests : UsesToken(q) /\ request[q].token = t
                 THEN contended \cup {t} ELSE contended

\* An unknown, expired or revoked token: 401 from refresh, 204 from logout,
\* nothing changes.
TokenRefused(r) == request[r] = Idle /\ UNCHANGED vars

RefreshReads(r, t) ==
  /\ Usable(t)
  /\ Begin(r, "revoke_token", sessions[t].device, t)
  /\ Contends(t)
  /\ UNCHANGED <<store, founded, failures>>

TokenLocked(r) ==
  \E q \in Requests \ {r} :
    /\ request[q].pc \in {"read_device", "refresh_commit", "logout_commit"}
    /\ request[q].token = request[r].token

\* revoke_session: UPDATE ... WHERE id = ..., which does not look at revoked_at.
RefreshRevokes(r) ==
  /\ At(r, "revoke_token")
  /\ ~TokenLocked(r)
  /\ Goto(r, "read_device")
  /\ UNCHANGED <<store, history>>

\* DEFECT (mutant): refresh without the check of its device.
RefreshIgnoresDevice(r) ==
  /\ At(r, "read_device")
  /\ Goto(r, "refresh_commit")
  /\ UNCHANGED <<store, history>>

\* DEFECT (mutant): the revocation of the token is committed before the
\* device is looked at.
RefreshBurnsToken(r) ==
  LET q == request[r] IN
  /\ At(r, "read_device")
  /\ sessions' = [sessions EXCEPT ![q.token].state = "revoked"]
  /\ IF device[q.device] = "active" THEN Goto(r, "refresh_commit") ELSE End(r)
  /\ UNCHANGED <<account, device, access, audit, history>>

\* A revoked device is refused, and the rollback gives the token back.
RefreshReadsDevice(r) ==
  /\ At(r, "read_device")
  /\ IF device[request[r].device] = "active" THEN Goto(r, "refresh_commit") ELSE End(r)
  /\ UNCHANGED <<store, history>>

RefreshCommits(r) ==
  LET q == request[r]
      rotated == [sessions EXCEPT ![q.token].state = "revoked"]
  IN
  /\ At(r, "refresh_commit")
  /\ sessions' = Opened(rotated, q.device, q.token, "refresh")
  /\ access' = access \cup {q.device}
  /\ End(r)
  /\ UNCHANGED <<account, device, audit, history>>

LogoutReads(r, t) ==
  /\ Usable(t)
  /\ Begin(r, "logout", sessions[t].device, t)
  /\ Contends(t)
  /\ UNCHANGED <<store, founded, failures>>

LogoutRevokes(r) ==
  /\ At(r, "logout")
  /\ ~TokenLocked(r)
  /\ Goto(r, "logout_commit")
  /\ UNCHANGED <<store, history>>

LogoutCommits(r) ==
  /\ At(r, "logout_commit")
  /\ sessions' = [sessions EXCEPT ![request[r].token].state = "revoked"]
  /\ End(r)
  /\ UNCHANGED <<account, device, access, audit, history>>

-----------------------------------------------------------------------------
(* DeviceService and the ban                                               *)

HasAccess(u) == \E d \in access : Owner[d] = u

\* DeviceService.register by a logged-in user, for the key of another client.
EnrolBegins(r, d) ==
  /\ HasAccess(Owner[d])
  /\ Begin(r, "enrol", d, NoParent)
  /\ UNCHANGED <<store, contended, founded, failures>>

\* DEFECT (mutant): the INSERT made an upsert that reactivates a revoked row.
EnrolUpserts(r) ==
  /\ At(r, "enrol")
  /\ ~RowPending(r, request[r].device)
  /\ Goto(r, "enrol_commit")
  /\ UNCHANGED <<store, history>>

\* As at login, the key of any row of the table fails the INSERT.
EnrolInserts(r) ==
  /\ At(r, "enrol")
  /\ ~RowPending(r, request[r].device)
  /\ IF device[request[r].device] = "none" THEN Goto(r, "enrol_commit") ELSE End(r)
  /\ UNCHANGED <<store, history>>

EnrolCommits(r) ==
  /\ At(r, "enrol_commit")
  /\ device' = [device EXCEPT ![request[r].device] = "active"]
  /\ Log("device.registered")
  /\ End(r)
  /\ UNCHANGED <<account, sessions, access, history>>

\* DeviceService.revoke reads the row; a device that is already revoked
\* passes its checks too.
RevokeReads(r, d) ==
  /\ HasAccess(Owner[d])
  /\ device[d] # "none"
  /\ Begin(r, "revoke_commit", d, NoParent)
  /\ UNCHANGED <<store, contended, founded, failures>>

\* The device's sessions and access tokens are left alone.
RevokeCommits(r) ==
  /\ At(r, "revoke_commit")
  /\ device' = [device EXCEPT ![request[r].device] = "revoked"]
  /\ Log("device.revoked")
  /\ End(r)
  /\ UNCHANGED <<account, sessions, access, history>>

\* admin ban_user.
Ban(u) ==
  /\ account[u] # "none"
  /\ account' = [account EXCEPT ![u] = "banned"]
  /\ UNCHANGED <<device, sessions, access, audit, request, history>>

-----------------------------------------------------------------------------
(* Time and failures                                                       *)

SessionExpires(t) ==
  /\ sessions[t].state = "live"
  /\ sessions' = [sessions EXCEPT ![t].state = "expired"]
  /\ UNCHANGED <<account, device, access, audit, request, history>>

\* The last access token of d reaches its exp.
AccessExpires(d) ==
  /\ d \in access
  /\ access' = access \ {d}
  /\ UNCHANGED <<account, device, sessions, audit, request, history>>

\* The process dies, the connection is lost or the commit fails.
RollsBack(r) ==
  /\ request[r] # Idle
  /\ End(r)
  /\ UNCHANGED <<store, history>>

Next ==
  \/ \E r \in Requests, d \in Devices :
       \/ RegisterChecks(r, d)
       \/ LoginChecks(r, d)
       \/ EnrolBegins(r, d)
       \/ RevokeReads(r, d)
  \/ \E r \in Requests, t \in Tokens : RefreshReads(r, t) \/ LogoutReads(r, t)
  \/ \E r \in Requests :
       \/ RegisterInserts(r)
       \/ RegisterCommits(r)
       \/ LoginFails(r)
       \/ LoginFindsDevice(r)
       \/ LoginInsertsDevice(r)
       \/ LoginCommits(r)
       \/ TokenRefused(r)
       \/ RefreshRevokes(r)
       \/ RefreshReadsDevice(r)
       \/ RefreshCommits(r)
       \/ LogoutRevokes(r)
       \/ LogoutCommits(r)
       \/ EnrolInserts(r)
       \/ EnrolCommits(r)
       \/ RevokeCommits(r)
       \/ RollsBack(r)
  \/ \E u \in Users : Ban(u)
  \/ \E t \in Tokens : SessionExpires(t)
  \/ \E d \in Devices : AccessExpires(d)

Spec == Init /\ [][Next]_vars

-----------------------------------------------------------------------------
(* Properties                                                              *)

Children(t) == {s \in Tokens : sessions[s].parent = t}

\* A revoked device stays revoked through every later or overlapping login,
\* registration and refresh with its key.
RevocationIsFinal == [][\A d \in Devices : device[d] = "revoked" => device'[d] = "revoked"]_vars

Opens(r) == Len(sessions') > Len(sessions) /\ request'[r] # request[r]

\* No request that begins after the revocation of a device was committed
\* opens a session for it, by login or by the refresh token it still holds;
\* and no login that begins after a ban succeeds.
LockedOutOpensNothing ==
  [][\A r \in Requests : Opens(r) =>
       /\ request[r].device \notin request[r].revoked
       /\ sessions'[Len(sessions')].by # "refresh" => ~request[r].banned]_vars

\* Rotation is atomic: every session opened by a refresh has its predecessor
\* revoked, and a predecessor is revoked only with a successor or by logout;
\* a refresh that fails half way costs the client nothing.
RotationAtomic ==
  [][\A t \in Tokens :
       /\ Children(t) # {} => sessions[t].state = "revoked"
       /\ sessions[t].state # "revoked" /\ sessions'[t].state = "revoked" =>
            \/ Len(sessions') > Len(sessions) /\ sessions'[Len(sessions')].parent = t
            \/ \E r \in Requests : At(r, "logout_commit") /\ request[r].token = t]_vars

\* A refresh token no two requests used at once opens at most one session.
UncontendedTokenUsedOnce ==
  \A t \in Tokens \ contended : Cardinality(Children(t)) <= 1

\* Of the registrations of one username, overlapping in any order, one is
\* answered 201; and the audit log has one row per registration and per
\* login, whatever was rolled back in between, and at least one per revoked
\* device.  (With the type invariant.)
AuditMatches ==
  /\ TypeOK
  /\ \A u \in Users : founded[u] <= 1
  /\ audit["user.registered"] = Cardinality({t \in Tokens : sessions[t].by = "register"})
  /\ audit["auth.login"] = Cardinality({t \in Tokens : sessions[t].by = "login"})
  /\ audit["device.revoked"] >= Cardinality({d \in Devices : device[d] = "revoked"})
=============================================================================
