--------------------------- MODULE SessionsProofs ---------------------------
(***************************************************************************)
(* Proofs about Sessions, for any users, devices, request slots and bounds.*)
(*                                                                         *)
(* Requests overlap, and what one has checked may be overtaken before it   *)
(* commits.  The invariant says what each program point may still rely on: *)
(* the unique keys give a new user or device row to one request alone      *)
(* (Accounts, DeviceRows), what was revoked or banned when a request began *)
(* still is (Remembered), and a refresh token that only one request uses   *)
(* has no successor yet (Rotation).                                        *)
(***************************************************************************)
EXTENDS Sessions, FiniteSetTheorems, SequenceTheorems, TLAPS

\* A name, and a first device, belong to one registration.
Accounts ==
  /\ \A d \in Devices : device[d] # "none" => account[Owner[d]] # "none"
  /\ \A u \in Users : founded[u] <= 1 /\ (account[u] = "none" => founded[u] = 0)
  /\ \A r \in Requests : At(r, "register_commit") => account[Owner[request[r].device]] = "none"
  /\ \A q, r \in Requests :
       /\ At(q, "register_commit") /\ At(r, "register_commit")
       /\ Owner[request[q].device] = Owner[request[r].device]
       => q = r
  /\ \A r \in Requests :
       request[r].pc \in {"find_device", "insert_device", "login_commit", "enrol", "enrol_commit"}
         => account[Owner[request[r].device]] # "none"

\* A new device row belongs to one login or enrolment.
DeviceRows ==
  /\ \A r \in Requests : At(r, "enrol_commit") => device[request[r].device] = "none"
  /\ \A r \in Requests : At(r, "revoke_commit") => device[request[r].device] # "none"
  /\ \A q, r \in Requests :
       /\ request[q].pc \in {"login_commit", "enrol_commit"}
       /\ request[r].pc \in {"login_commit", "enrol_commit"}
       /\ request[q].device = request[r].device /\ device[request[r].device] = "none"
       => q = r

\* What a request remembers of its beginning still holds, and what it has
\* passed since excludes it.
Remembered ==
  \A r \in Requests : request[r].pc # "idle" =>
    /\ \A d \in request[r].revoked : device[d] = "revoked"
    /\ request[r].pc \in {"register", "register_commit", "find_device", "insert_device", "login_commit"}
         => ~request[r].banned
    /\ request[r].pc \in {"register", "register_commit", "login_commit", "refresh_commit"}
         => request[r].device \notin request[r].revoked

\* Every session has a parent that is older and revoked, or none.
Parents ==
  \A s \in Tokens : sessions[s].parent # NoParent =>
    sessions[s].parent \in Tokens /\ sessions[sessions[s].parent].state = "revoked"

\* A request works on a session of its device; and if it alone does, the
\* session has no successor yet, nor later more than one.
Rotation ==
  /\ \A r \in Requests : UsesToken(r) =>
       request[r].token \in Tokens /\ sessions[request[r].token].device = request[r].device
  /\ \A t \in Tokens \ contended :
       /\ \A q, r \in Requests :
            UsesToken(q) /\ UsesToken(r) /\ request[q].token = t /\ request[r].token = t => q = r
       /\ \A r \in Requests : UsesToken(r) /\ request[r].token = t =>
            \A s \in Tokens : sessions[s].parent # t
       /\ \A s1, s2 \in Tokens : sessions[s1].parent = t /\ sessions[s2].parent = t => s1 = s2

By(kind) == {t \in Tokens : sessions[t].by = kind}
Revoked == {d \in Devices : device[d] = "revoked"}

\* The audit log counts what was committed.
Audited ==
  /\ audit["user.registered"] = Cardinality(By("register"))
  /\ audit["auth.login"] = Cardinality(By("login"))
  /\ IsFiniteSet(Revoked) /\ audit["device.revoked"] >= Cardinality(Revoked)

IInv == TypeOK /\ Accounts /\ DeviceRows /\ Remembered /\ Parents /\ Rotation /\ Audited

-----------------------------------------------------------------------------
(* Data                                                                    *)

\* A request that moves leaves the others where they are.
LEMMA Moves ==
  ASSUME TypeOK, NEW r \in Requests, NEW q \in {Idle} \cup Transaction,
         request' = [request EXCEPT ![r] = q]
  PROVE  /\ request' \in [Requests -> {Idle} \cup Transaction]
         /\ request'[r] = q
         /\ \A p \in Requests : p # r => request'[p] = request[p]
BY DEF TypeOK

LEMMA Working ==
  ASSUME TypeOK, NEW r \in Requests
  PROVE  /\ request[r].pc # "idle" => request[r] \in Transaction
         /\ request[r] = Idle <=> request[r].pc = "idle"
BY DEF TypeOK, Idle, Transaction

LEMMA LengthIsNat == TypeOK => Len(sessions) \in Nat
BY LenProperties DEF TypeOK

WithState(t, state) == [sessions EXCEPT ![t].state = state]

\* A session that changes its state keeps its device, its parent and its kind.
LEMMA StateChange ==
  ASSUME TypeOK, NEW t \in Tokens, NEW state \in {"live", "expired", "revoked"},
         NEW rows, rows = WithState(t, state)
  PROVE  /\ rows \in Seq(Session) /\ Len(rows) = Len(sessions)
         /\ \A s \in Tokens : /\ rows[s].device = sessions[s].device
                              /\ rows[s].parent = sessions[s].parent
                              /\ rows[s].by = sessions[s].by
                              /\ rows[s].state = IF s = t THEN state ELSE sessions[s].state
<1> DEFINE row == [sessions[t] EXCEPT !.state = state]
<1>1. sessions \in Seq(Session) /\ sessions[t] \in Session
  BY ElementOfSeq DEF TypeOK, Tokens
<1>2. /\ row \in Session /\ row.device = sessions[t].device /\ row.parent = sessions[t].parent
      /\ row.by = sessions[t].by /\ row.state = state
  BY <1>1 DEF Session
<1>3. rows = [sessions EXCEPT ![t] = row]
  BY <1>1 DEF WithState
<1> HIDE DEF row
<1>4. /\ rows \in Seq(Session) /\ Len(rows) = Len(sessions)
      /\ \A s \in 1..Len(sessions) : rows[s] = IF s = t THEN row ELSE sessions[s]
  BY <1>1, <1>2, <1>3, ExceptSeq DEF Tokens
<1> QED BY <1>2, <1>4 DEF Tokens

\* A session that is opened comes after the others.
LEMMA SessionOpened ==
  ASSUME NEW rows \in Seq(Session), NEW d \in Devices, NEW parent \in Nat,
         NEW by \in {"register", "login", "refresh"}
  PROVE  /\ Opened(rows, d, parent, by) \in Seq(Session)
         /\ Len(Opened(rows, d, parent, by)) = Len(rows) + 1
         /\ \A s \in 1..Len(rows) : Opened(rows, d, parent, by)[s] = rows[s]
         /\ Opened(rows, d, parent, by)[Len(rows) + 1] =
              [device |-> d, parent |-> parent, by |-> by, state |-> "live"]
<1>1. [device |-> d, parent |-> parent, by |-> by, state |-> "live"] \in Session
  BY DEF Session
<1>2. PICK row \in Session : row = [device |-> d, parent |-> parent, by |-> by, state |-> "live"]
  BY <1>1
<1>3. Opened(rows, d, parent, by) = Append(rows, row)
  BY <1>2 DEF Opened
<1> QED BY <1>2, <1>3

-----------------------------------------------------------------------------
(* The initial state                                                       *)

LEMMA InitIInv == Init => IInv
<1> SUFFICES ASSUME Init PROVE IInv
  OBVIOUS
<1>1. Tokens = {}
  BY DEF Init, Tokens
<1>2. \A r \in Requests : request[r].pc = "idle"
  BY DEF Init, Idle
<1>3. TypeOK
  BY <1>1, BoundsAssumption DEF Init, TypeOK, AuditTypes
<1>4. Accounts /\ DeviceRows /\ Remembered
  BY <1>2 DEF Init, Accounts, DeviceRows, Remembered, At
<1>5. Parents /\ Rotation
  BY <1>1, <1>2 DEF Parents, Rotation, UsesToken
<1>6. By("register") = {} /\ By("login") = {} /\ Revoked = {}
  BY <1>1 DEF Init, By, Revoked
<1>7. Audited
  <2>1. Cardinality({}) = 0 /\ IsFiniteSet({})
    BY FS_EmptySet
  <2>2. \A t \in AuditTypes : audit[t] = 0
    BY DEF Init
  <2> QED BY <1>6, <2>1, <2>2 DEF Audited, AuditTypes
<1> QED BY <1>3, <1>4, <1>5, <1>7 DEF IInv

-----------------------------------------------------------------------------
(* Requests that move on                                                   *)

\* What has to be known at the program point that a request reaches.
Fits(r, q) ==
  /\ q.pc = "register_commit" =>
       /\ account[Owner[q.device]] = "none"
       /\ \A p \in Requests \ {r} : At(p, "register_commit") => Owner[request[p].device] # Owner[q.device]
  /\ q.pc \in {"find_device", "insert_device", "login_commit", "enrol", "enrol_commit"}
       => account[Owner[q.device]] # "none"
  /\ q.pc = "enrol_commit" => device[q.device] = "none"
  /\ q.pc = "revoke_commit" => device[q.device] # "none"
  /\ q.pc \in {"login_commit", "enrol_commit"} /\ device[q.device] = "none" =>
       \A p \in Requests \ {r} : request[p].pc \in {"login_commit", "enrol_commit"} => request[p].device # q.device
  /\ q.pc # "idle" =>
       /\ \A d \in q.revoked : device[d] = "revoked"
       /\ q.pc \in {"register", "register_commit", "find_device", "insert_device", "login_commit"} => ~q.banned
       /\ q.pc \in {"register", "register_commit", "login_commit", "refresh_commit"} => q.device \notin q.revoked
  /\ q.pc \in {"revoke_token", "read_device", "refresh_commit", "logout", "logout_commit"} =>
       /\ q.token \in Tokens /\ sessions[q.token].device = q.device
       /\ q.token \notin contended' =>
            /\ \A p \in Requests \ {r} : UsesToken(p) => request[p].token # q.token
            /\ \A s \in Tokens : sessions[s].parent # q.token

LEMMA MoveKeeps ==
  ASSUME IInv, NEW r \in Requests, NEW q \in {Idle} \cup Transaction,
         request' = [request EXCEPT ![r] = q], Fits(r, q),
         UNCHANGED <<store, founded>>,
         contended \subseteq contended', contended' \subseteq Nat,
         failures' \in 0..MaxFailures, started' \in 0..MaxRequests
  PROVE  IInv'
<1>1. /\ request' \in [Requests -> {Idle} \cup Transaction]
      /\ request'[r] = q
      /\ \A p \in Requests : p # r => request'[p] = request[p]
  BY Moves DEF IInv
<1>2. TypeOK'
  BY <1>1 DEF IInv, TypeOK, store, Tokens
<1>3. Accounts'
  BY <1>1 DEF IInv, Accounts, Fits, At, store
<1>4. DeviceRows'
  BY <1>1 DEF IInv, DeviceRows, Fits, At, store
<1>5. Remembered'
  BY <1>1 DEF IInv, Remembered, Fits, store
<1>6. Parents' /\ Audited'
  BY DEF IInv, Parents, Audited, By, Revoked, Tokens, store
<1>7. Rotation'
  <2>1. UNCHANGED sessions /\ Tokens' = Tokens
    BY DEF store, Tokens
  <2>2. ASSUME NEW p \in Requests, UsesToken(p)'
        PROVE  request'[p].token \in Tokens /\ sessions[request'[p].token].device = request'[p].device
    BY <1>1, <2>2 DEF IInv, Rotation, Fits, UsesToken
  <2>3. ASSUME NEW t \in Tokens \ contended'
        PROVE  /\ \A o, p \in Requests :
                    UsesToken(o)' /\ UsesToken(p)' /\ request'[o].token = t /\ request'[p].token = t => o = p
               /\ \A p \in Requests : UsesToken(p)' /\ request'[p].token = t =>
                    \A s \in Tokens : sessions[s].parent # t
               /\ \A s1, s2 \in Tokens : sessions[s1].parent = t /\ sessions[s2].parent = t => s1 = s2
    <3>1. t \in Tokens \ contended
      BY <2>3
    <3>2. \A p \in Requests : p # r /\ UsesToken(p)' => UsesToken(p) /\ request'[p] = request[p]
      BY <1>1 DEF UsesToken
    <3>3. UsesToken(r)' /\ request'[r].token = t =>
            /\ \A p \in Requests \ {r} : UsesToken(p) => request[p].token # t
            /\ \A s \in Tokens : sessions[s].parent # t
      BY <1>1, <2>3 DEF Fits, UsesToken
    <3>4. ASSUME NEW o \in Requests, NEW p \in Requests, UsesToken(o)', UsesToken(p)',
                 request'[o].token = t, request'[p].token = t
          PROVE  o = p
      BY <3>1, <3>2, <3>3, <3>4 DEF IInv, Rotation
    <3>5. ASSUME NEW p \in Requests, UsesToken(p)', request'[p].token = t
          PROVE  \A s \in Tokens : sessions[s].parent # t
      BY <3>1, <3>2, <3>3, <3>5 DEF IInv, Rotation
    <3>6. \A s1, s2 \in Tokens : sessions[s1].parent = t /\ sessions[s2].parent = t => s1 = s2
      BY <3>1 DEF IInv, Rotation
    <3> QED BY <3>4, <3>5, <3>6
  <2> QED BY <2>1, <2>2, <2>3 DEF Rotation, UsesToken
<1> QED BY <1>2, <1>3, <1>4, <1>5, <1>6, <1>7 DEF IInv

\* A request that ends without a commit leaves nothing behind.
LEMMA EndKeeps ==
  ASSUME IInv, NEW r \in Requests, End(r), UNCHANGED <<store, history>>
  PROVE  IInv'
<1>1. Fits(r, Idle)
  BY DEF Fits, Idle
<1> QED BY <1>1, MoveKeeps DEF End, history, IInv, TypeOK

\* A request that goes on is what it was, at another program point.
LEMMA GotoKeeps ==
  ASSUME IInv, NEW r \in Requests, request[r].pc # "idle",
         NEW pc \in {"register_commit", "login_commit", "insert_device", "read_device", "refresh_commit",
                     "logout_commit", "enrol_commit"},
         Goto(r, pc), UNCHANGED <<store, history>>,
         \A q \in Transaction :
           /\ q.pc = pc /\ q.device = request[r].device /\ q.token = request[r].token
           /\ q.revoked = request[r].revoked /\ q.banned = request[r].banned
           => Fits(r, q)
  PROVE  IInv'
<1> DEFINE q == [request[r] EXCEPT !.pc = pc]
<1>1. request[r] \in Transaction
  BY Working DEF IInv
<1>2. /\ q \in Transaction /\ q.pc = pc /\ q.device = request[r].device /\ q.token = request[r].token
      /\ q.revoked = request[r].revoked /\ q.banned = request[r].banned
  BY <1>1 DEF Transaction
<1>3. request' = [request EXCEPT ![r] = q]
  BY DEF Goto, IInv, TypeOK
<1> HIDE DEF q
<1> QED BY <1>2, <1>3, MoveKeeps DEF history, IInv, TypeOK

\* A request for device d, and for token t, can begin at pc.
CanBegin(r, pc, d, t) ==
  \A q \in Transaction :
    /\ q.pc = pc /\ q.device = d /\ q.token = t
    /\ q.revoked = Revoked /\ (account[Owner[d]] # "banned" => ~q.banned)
    => Fits(r, q)

LEMMA BeginKeeps ==
  ASSUME IInv, NEW r \in Requests, NEW d \in Devices, NEW t \in Nat,
         NEW pc \in {"register", "find_device", "revoke_token", "logout", "enrol", "revoke_commit"},
         Begin(r, pc, d, t), UNCHANGED <<store, founded, failures>>,
         contended \subseteq contended', contended' \subseteq Nat,
         CanBegin(r, pc, d, t)
  PROVE  IInv'
<1> DEFINE q == [pc |-> pc, device |-> d, token |-> t, revoked |-> Revoked,
                 banned |-> account[Owner[d]] = "banned"]
<1>1. /\ q \in Transaction /\ q.pc = pc /\ q.device = d /\ q.token = t
      /\ q.revoked = Revoked /\ (account[Owner[d]] # "banned" => ~q.banned)
  BY DEF Transaction, Revoked
<1>2. request' = [request EXCEPT ![r] = q]
  BY DEF Begin, Revoked
<1>3. started' \in 0..MaxRequests
  BY BoundsAssumption DEF Begin, IInv, TypeOK
<1>4. failures' \in 0..MaxFailures
  BY DEF IInv, TypeOK
<1> HIDE DEF q
<1> QED BY <1>1, <1>2, <1>3, <1>4, MoveKeeps DEF CanBegin

-----------------------------------------------------------------------------
(* Steps that do not commit                                                *)

\* The requests without a refresh token.
LEMMA ChecksKeep ==
  ASSUME IInv, NEW r \in Requests, NEW d \in Devices,
         NEW pc \in {"register", "find_device", "enrol", "revoke_commit"},
         Begin(r, pc, d, NoParent), UNCHANGED <<store, contended, founded, failures>>,
         CanBegin(r, pc, d, NoParent)
  PROVE  IInv'
<1>1. contended \subseteq contended' /\ contended' \subseteq Nat /\ NoParent \in Nat
  BY DEF IInv, TypeOK, NoParent
<1> QED BY <1>1, BeginKeeps

LEMMA RegisterKeeps ==
  ASSUME IInv, NEW r \in Requests, NEW d \in Devices, RegisterChecks(r, d) \/ RegisterInserts(r)
  PROVE  IInv'
<1>1. CASE RegisterChecks(r, d)
  <2>1. account[Owner[d]] = "none" /\ device[d] = "none"
    BY <1>1 DEF RegisterChecks, IInv, Accounts
  <2>2. CanBegin(r, "register", d, NoParent)
    BY <2>1 DEF CanBegin, Fits, Revoked
  <2> QED BY <1>1, <2>2, ChecksKeep DEF RegisterChecks
<1>2. CASE RegisterInserts(r)
  <2>1. request[r].pc = "register" /\ UNCHANGED <<store, history>>
    BY <1>2 DEF RegisterInserts, At
  <2>2. CASE account[Owner[request[r].device]] = "none"
    <3>1. \A q \in Transaction :
            /\ q.pc = "register_commit" /\ q.device = request[r].device
            /\ q.revoked = request[r].revoked /\ q.banned = request[r].banned
            => Fits(r, q)
      BY <1>2, <2>1, <2>2 DEF Fits, RegisterInserts, IInv, Remembered
    <3>2. Goto(r, "register_commit")
      BY <1>2, <2>2 DEF RegisterInserts
    <3> QED BY <2>1, <3>1, <3>2, GotoKeeps
  <2>3. CASE account[Owner[request[r].device]] # "none"
    BY <1>2, <2>1, <2>3, EndKeeps DEF RegisterInserts
  <2> QED BY <2>2, <2>3
<1> QED BY <1>1, <1>2

LEMMA LoginKeeps ==
  ASSUME IInv, NEW r \in Requests, NEW d \in Devices,
         LoginChecks(r, d) \/ LoginFindsDevice(r) \/ LoginInsertsDevice(r)
  PROVE  IInv'
<1>1. CASE LoginChecks(r, d)
  <2>1. CanBegin(r, "find_device", d, NoParent)
    BY <1>1 DEF CanBegin, Fits, Revoked, LoginChecks
  <2> QED BY <1>1, <2>1, ChecksKeep DEF LoginChecks
<1>2. CASE LoginFindsDevice(r)
  <2>1. request[r].pc = "find_device" /\ UNCHANGED <<store, history>>
    BY <1>2 DEF LoginFindsDevice, At
  <2>2. account[Owner[request[r].device]] # "none"
    BY <2>1 DEF IInv, Accounts
  <2>3. CASE device[request[r].device] = "active"
    <3>1. \A q \in Transaction :
            /\ q.pc = "login_commit" /\ q.device = request[r].device
            /\ q.revoked = request[r].revoked /\ q.banned = request[r].banned
            => Fits(r, q)
      BY <2>1, <2>2, <2>3 DEF Fits, IInv, Remembered
    <3>2. Goto(r, "login_commit")
      BY <1>2, <2>3 DEF LoginFindsDevice
    <3> QED BY <2>1, <3>1, <3>2, GotoKeeps
  <2>4. CASE device[request[r].device] # "active"
    <3>1. \A q \in Transaction :
            /\ q.pc = "insert_device" /\ q.device = request[r].device
            /\ q.revoked = request[r].revoked /\ q.banned = request[r].banned
            => Fits(r, q)
      BY <2>1, <2>2 DEF Fits, IInv, Remembered
    <3>2. Goto(r, "insert_device")
      BY <1>2, <2>4 DEF LoginFindsDevice
    <3> QED BY <2>1, <3>1, <3>2, GotoKeeps
  <2> QED BY <2>3, <2>4
<1>3. CASE LoginInsertsDevice(r)
  <2>1. request[r].pc = "insert_device" /\ UNCHANGED <<store, history>>
    BY <1>3 DEF LoginInsertsDevice, At
  <2>2. CASE device[request[r].device] = "none"
    <3>1. \A q \in Transaction :
            /\ q.pc = "login_commit" /\ q.device = request[r].device
            /\ q.revoked = request[r].revoked /\ q.banned = request[r].banned
            => Fits(r, q)
      BY <1>3, <2>1, <2>2 DEF Fits, LoginInsertsDevice, RowPending, IInv, Accounts, Remembered
    <3>2. Goto(r, "login_commit")
      BY <1>3, <2>2 DEF LoginInsertsDevice
    <3> QED BY <2>1, <3>1, <3>2, GotoKeeps
  <2>3. CASE device[request[r].device] # "none"
    BY <1>3, <2>1, <2>3, EndKeeps DEF LoginInsertsDevice
  <2> QED BY <2>2, <2>3
<1> QED BY <1>1, <1>2, <1>3

LEMMA EnrolKeeps ==
  ASSUME IInv, NEW r \in Requests, NEW d \in Devices,
         EnrolBegins(r, d) \/ EnrolInserts(r) \/ RevokeReads(r, d)
  PROVE  IInv'
<1>1. ASSUME HasAccess(Owner[d]) PROVE account[Owner[d]] # "none"
  BY <1>1 DEF HasAccess, IInv, TypeOK, Accounts
<1>2. CASE EnrolBegins(r, d)
  <2>1. CanBegin(r, "enrol", d, NoParent)
    BY <1>1, <1>2 DEF CanBegin, Fits, Revoked, EnrolBegins
  <2> QED BY <1>2, <2>1, ChecksKeep DEF EnrolBegins
<1>3. CASE RevokeReads(r, d)
  <2>1. CanBegin(r, "revoke_commit", d, NoParent)
    BY <1>3 DEF CanBegin, Fits, Revoked, RevokeReads
  <2> QED BY <1>3, <2>1, ChecksKeep DEF RevokeReads
<1>4. CASE EnrolInserts(r)
  <2>1. request[r].pc = "enrol" /\ UNCHANGED <<store, history>>
    BY <1>4 DEF EnrolInserts, At
  <2>2. CASE device[request[r].device] = "none"
    <3>1. \A q \in Transaction :
            q.pc = "enrol_commit" /\ q.device = request[r].device /\ q.revoked = request[r].revoked
            => Fits(r, q)
      BY <1>4, <2>1, <2>2 DEF Fits, EnrolInserts, RowPending, IInv, Accounts, Remembered
    <3>2. Goto(r, "enrol_commit")
      BY <1>4, <2>2 DEF EnrolInserts
    <3> QED BY <2>1, <3>1, <3>2, GotoKeeps
  <2>3. CASE device[request[r].device] # "none"
    BY <1>4, <2>1, <2>3, EndKeeps DEF EnrolInserts
  <2> QED BY <2>2, <2>3
<1> QED BY <1>2, <1>3, <1>4

\* A token that can be used has no successor.
LEMMA TokenReadsKeep ==
  ASSUME IInv, NEW r \in Requests, NEW t \in Tokens, RefreshReads(r, t) \/ LogoutReads(r, t)
  PROVE  IInv'
<1>1. t \in Nat /\ t # NoParent /\ sessions[t].device \in Devices
  <2>1. Len(sessions) \in Nat
    BY LengthIsNat DEF IInv
  <2>2. sessions \in Seq(Session) /\ t \in 1..Len(sessions)
    BY DEF IInv, TypeOK, Tokens
  <2>3. sessions[t] \in Session
    BY <2>2, ElementOfSeq
  <2> QED BY <2>1, <2>2, <2>3 DEF Session, NoParent
<1>2. \A s \in Tokens : sessions[s].parent # t
  BY <1>1 DEF RefreshReads, LogoutReads, Usable, IInv, Parents
<1>3. contended \subseteq contended' /\ contended' \subseteq Nat
  BY <1>1 DEF RefreshReads, LogoutReads, Contends, IInv, TypeOK
<1>4. t \notin contended' => \A p \in Requests : UsesToken(p) => request[p].token # t
  BY DEF RefreshReads, LogoutReads, Contends
<1>5. ASSUME NEW pc \in {"revoke_token", "logout"}
      PROVE  CanBegin(r, pc, sessions[t].device, t)
  BY <1>2, <1>4 DEF CanBegin, Fits, Revoked
<1>6. PICK d \in Devices : d = sessions[t].device
  BY <1>1
<1>7. CASE RefreshReads(r, t)
  BY <1>1, <1>3, <1>5, <1>6, <1>7, BeginKeeps DEF RefreshReads
<1>8. CASE LogoutReads(r, t)
  BY <1>1, <1>3, <1>5, <1>6, <1>8, BeginKeeps DEF LogoutReads
<1> QED BY <1>7, <1>8

LEMMA TokenStepsKeep ==
  ASSUME IInv, NEW r \in Requests, RefreshRevokes(r) \/ RefreshReadsDevice(r) \/ LogoutRevokes(r)
  PROVE  IInv'
<1>1. UsesToken(r) /\ request[r].pc # "idle" /\ contended' = contended /\ UNCHANGED <<store, history>>
  BY DEF RefreshRevokes, RefreshReadsDevice, LogoutRevokes, At, UsesToken, history
<1>2. /\ request[r].token \in Tokens /\ sessions[request[r].token].device = request[r].device
      /\ request[r].token \notin contended =>
           /\ \A p \in Requests \ {r} : UsesToken(p) => request[p].token # request[r].token
           /\ \A s \in Tokens : sessions[s].parent # request[r].token
  BY <1>1 DEF IInv, Rotation
<1>3. \A d \in request[r].revoked : device[d] = "revoked"
  BY <1>1 DEF IInv, Remembered
<1>4. \A q \in Transaction :
        /\ q.pc \in {"read_device", "logout_commit"} /\ q.device = request[r].device
        /\ q.token = request[r].token /\ q.revoked = request[r].revoked
        => Fits(r, q)
  BY <1>1, <1>2, <1>3 DEF Fits
<1>5. CASE RefreshRevokes(r)
  BY <1>1, <1>4, <1>5, GotoKeeps DEF RefreshRevokes
<1>6. CASE LogoutRevokes(r)
  BY <1>1, <1>4, <1>6, GotoKeeps DEF LogoutRevokes
<1>7. CASE RefreshReadsDevice(r)
  <2>1. CASE device[request[r].device] = "active"
    <3>1. \A q \in Transaction :
            /\ q.pc = "refresh_commit" /\ q.device = request[r].device
            /\ q.token = request[r].token /\ q.revoked = request[r].revoked
            => Fits(r, q)
      BY <1>1, <1>2, <1>3, <2>1 DEF Fits
    <3> QED BY <1>1, <1>7, <2>1, <3>1, GotoKeeps DEF RefreshReadsDevice
  <2>2. CASE device[request[r].device] # "active"
    BY <1>1, <1>7, <2>2, EndKeeps DEF RefreshReadsDevice
  <2> QED BY <2>1, <2>2
<1> QED BY <1>5, <1>6, <1>7

-----------------------------------------------------------------------------
(* Commits                                                                 *)

\* Requests stay as they are, or end.
OnlyEnds == \A p \in Requests : request'[p] \in {request[p], Idle}

\* Accounts and devices change for good, and new ones are nobody else's.
LEMMA DirectoryKeeps ==
  ASSUME IInv, TypeOK', OnlyEnds,
         \A u \in Users : account[u] # "none" => account'[u] # "none",
         \A d \in Devices : /\ device[d] = "revoked" => device'[d] = "revoked"
                            /\ device[d] # "none" => device'[d] # "none"
                            /\ device'[d] # "none" => account'[Owner[d]] # "none",
         \A u \in Users : founded'[u] <= 1 /\ (account'[u] = "none" => founded'[u] = 0),
         \A p \in Requests : request'[p].pc = "register_commit" => account'[Owner[request[p].device]] = "none",
         \A p \in Requests : request'[p].pc = "enrol_commit" => device'[request[p].device] = "none"
  PROVE  Accounts' /\ DeviceRows' /\ Remembered'
<1>1. \A p \in Requests : request'[p].pc # "idle" => request'[p] = request[p] /\ request[p].pc # "idle"
  BY DEF OnlyEnds, Idle
<1>2. \A p \in Requests : request[p].pc # "idle" =>
        request[p].device \in Devices /\ Owner[request[p].device] \in Users /\ request[p].revoked \subseteq Devices
  BY Working, OwnerAssumption DEF IInv, Transaction
<1>3. Accounts'
  BY <1>1, <1>2 DEF IInv, Accounts, At
<1>4. DeviceRows'
  BY <1>1, <1>2 DEF IInv, DeviceRows, At
<1>5. Remembered'
  BY <1>1, <1>2 DEF IInv, Remembered
<1> QED BY <1>3, <1>4, <1>5

\* Sessions that change their state only.
SameSessions(rows) ==
  /\ rows \in Seq(Session) /\ Len(rows) = Len(sessions)
  /\ \A s \in Tokens : /\ rows[s].device = sessions[s].device
                       /\ rows[s].parent = sessions[s].parent
                       /\ rows[s].by = sessions[s].by
                       /\ sessions[s].state = "revoked" => rows[s].state = "revoked"

LEMMA SessionsKeep ==
  ASSUME IInv, OnlyEnds, contended' = contended, SameSessions(sessions')
  PROVE  /\ Parents' /\ Rotation' /\ Tokens' = Tokens
         /\ By("register")' = By("register") /\ By("login")' = By("login")
<1>1. \A p \in Requests : UsesToken(p)' => request'[p] = request[p] /\ UsesToken(p)
  BY DEF OnlyEnds, Idle, UsesToken
<1>2. Tokens' = Tokens
  BY DEF SameSessions, Tokens
<1>3. Parents'
  BY <1>2 DEF IInv, Parents, SameSessions
<1>4. Rotation'
  <2>1. ASSUME NEW p \in Requests, UsesToken(p)'
        PROVE  request'[p].token \in Tokens /\ sessions'[request'[p].token].device = request'[p].device
    BY <1>1, <2>1 DEF IInv, Rotation, SameSessions
  <2>2. ASSUME NEW t \in Tokens \ contended
        PROVE  /\ \A o, p \in Requests :
                    UsesToken(o)' /\ UsesToken(p)' /\ request'[o].token = t /\ request'[p].token = t => o = p
               /\ \A p \in Requests : UsesToken(p)' /\ request'[p].token = t =>
                    \A s \in Tokens : sessions'[s].parent # t
               /\ \A s1, s2 \in Tokens : sessions'[s1].parent = t /\ sessions'[s2].parent = t => s1 = s2
    <3>1. /\ \A o, p \in Requests :
               UsesToken(o) /\ UsesToken(p) /\ request[o].token = t /\ request[p].token = t => o = p
          /\ \A p \in Requests : UsesToken(p) /\ request[p].token = t =>
               \A s \in Tokens : sessions[s].parent # t
          /\ \A s1, s2 \in Tokens : sessions[s1].parent = t /\ sessions[s2].parent = t => s1 = s2
      BY DEF IInv, Rotation
    <3>2. \A s \in Tokens : sessions'[s].parent = sessions[s].parent
      BY DEF SameSessions
    <3> QED BY <1>1, <3>1, <3>2
  <2> QED BY <1>2, <2>1, <2>2 DEF Rotation, UsesToken
<1>5. By("register")' = By("register") /\ By("login")' = By("login")
  BY <1>2 DEF By, SameSessions
<1> QED BY <1>2, <1>3, <1>4, <1>5

\* The session a request opens is the successor of the token it used, or of none.
Succeeds(r, parent, rows) ==
  parent # NoParent => UsesToken(r) /\ request[r].token = parent /\ rows[parent].state = "revoked"

LEMMA OpenedKeeps ==
  ASSUME IInv, OnlyEnds, contended' = contended,
         NEW rows, SameSessions(rows), NEW d \in Devices, NEW parent \in Nat,
         NEW by \in {"register", "login", "refresh"}, sessions' = Opened(rows, d, parent, by),
         NEW r \in Requests, request'[r] = Idle, Succeeds(r, parent, rows)
  PROVE  /\ Parents' /\ Rotation'
         /\ sessions' \in Seq(Session) /\ Len(sessions') = Len(sessions) + 1
         /\ \A s \in Tokens : sessions'[s].device = sessions[s].device
         /\ sessions'[Len(sessions')].device = d /\ sessions'[Len(sessions')].parent = parent
         /\ sessions'[Len(sessions')].by = by
         /\ By(by)' = By(by) \cup {Len(sessions) + 1}
         /\ \A kind \in {"register", "login"} \ {by} : By(kind)' = By(kind)
         /\ Len(sessions) + 1 \notin By(by)
<1> DEFINE new == Len(sessions) + 1
<1>1. Len(sessions) \in Nat
  BY LengthIsNat DEF IInv
<1>2. /\ sessions' \in Seq(Session) /\ Len(sessions') = new
      /\ \A s \in Tokens : sessions'[s] = rows[s]
      /\ sessions'[new].device = d /\ sessions'[new].parent = parent
      /\ sessions'[new].by = by /\ sessions'[new].state = "live"
  <2>1. rows \in Seq(Session) /\ Len(rows) = Len(sessions)
    BY DEF SameSessions
  <2>2. PICK row : row = [device |-> d, parent |-> parent, by |-> by, state |-> "live"]
    OBVIOUS
  <2>3. /\ sessions' \in Seq(Session) /\ Len(sessions') = new
        /\ \A s \in 1..Len(rows) : sessions'[s] = rows[s]
        /\ sessions'[new] = row
    <3>1. /\ Opened(rows, d, parent, by) \in Seq(Session)
          /\ Len(Opened(rows, d, parent, by)) = Len(rows) + 1
          /\ \A s \in 1..Len(rows) : Opened(rows, d, parent, by)[s] = rows[s]
          /\ Opened(rows, d, parent, by)[Len(rows) + 1] = row
      BY <2>1, <2>2, SessionOpened
    <3> QED BY <2>1, <3>1
  <2>4. row.device = d /\ row.parent = parent /\ row.by = by /\ row.state = "live"
    BY <2>2
  <2> QED BY <2>1, <2>2, <2>3, <2>4 DEF Tokens
<1>3. Tokens' = Tokens \cup {new} /\ new \notin Tokens
  BY <1>1, <1>2 DEF Tokens
<1>4. /\ \A s \in Tokens : /\ sessions'[s].device = sessions[s].device
                           /\ sessions'[s].parent = sessions[s].parent
                           /\ sessions'[s].by = sessions[s].by
                           /\ sessions[s].state = "revoked" => sessions'[s].state = "revoked"
  BY <1>2 DEF SameSessions
<1>5. \A p \in Requests : UsesToken(p)' => request'[p] = request[p] /\ UsesToken(p) /\ p # r
  BY DEF OnlyEnds, Idle, UsesToken
<1>6. parent # NoParent => parent \in Tokens /\ sessions'[parent].state = "revoked"
  BY <1>2 DEF IInv, Rotation, Succeeds
<1>7. \A s \in Tokens : sessions[s].parent # NoParent =>
        sessions[s].parent \in Tokens /\ sessions[sessions[s].parent].state = "revoked"
  BY DEF IInv, Parents
<1>8. new # NoParent
  BY <1>1 DEF NoParent
<1> HIDE DEF new
<1>9. Parents'
  <2>1. ASSUME NEW s \in Tokens \cup {new}, sessions'[s].parent # NoParent
        PROVE  sessions'[s].parent \in Tokens /\ sessions'[sessions'[s].parent].state = "revoked"
    <3>1. CASE s = new
      BY <1>2, <1>6, <2>1, <3>1
    <3>2. CASE s \in Tokens
      BY <1>4, <1>7, <2>1, <3>2
    <3> QED BY <3>1, <3>2
  <2> QED BY <1>3, <2>1 DEF Parents, NoParent
<1>10. Rotation'
  <2>1. ASSUME NEW p \in Requests, UsesToken(p)'
        PROVE  request'[p].token \in Tokens /\ sessions'[request'[p].token].device = request'[p].device
    BY <1>4, <1>5, <2>1 DEF IInv, Rotation
  <2>2. ASSUME NEW t \in Tokens \ contended
        PROVE  /\ \A o, p \in Requests :
                    UsesToken(o) /\ UsesToken(p) /\ request[o].token = t /\ request[p].token = t => o = p
               /\ \A p \in Requests : UsesToken(p) /\ request[p].token = t =>
                    \A s \in Tokens : sessions[s].parent # t
               /\ \A s1, s2 \in Tokens : sessions[s1].parent = t /\ sessions[s2].parent = t => s1 = s2
    BY DEF IInv, Rotation
  <2>3. ASSUME NEW t \in Tokens \cup {new}, t \notin contended
        PROVE  /\ \A o, p \in Requests :
                    UsesToken(o)' /\ UsesToken(p)' /\ request'[o].token = t /\ request'[p].token = t => o = p
               /\ \A p \in Requests : UsesToken(p)' /\ request'[p].token = t =>
                    \A s \in Tokens \cup {new} : sessions'[s].parent # t
               /\ \A s1, s2 \in Tokens \cup {new} : sessions'[s1].parent = t /\ sessions'[s2].parent = t => s1 = s2
    <3>1. CASE t = new
      <4>1. \A p \in Requests : UsesToken(p)' => request'[p].token # t
        BY <1>3, <2>1, <3>1
      <4>2. \A s \in Tokens \cup {new} : sessions'[s].parent # t
        BY <1>2, <1>3, <1>4, <1>6, <1>7, <1>8, <3>1
      <4> QED BY <4>1, <4>2
    <3>2. CASE t \in Tokens
      <4>1. \A o, p \in Requests :
               UsesToken(o)' /\ UsesToken(p)' /\ request'[o].token = t /\ request'[p].token = t => o = p
        BY <1>5, <2>2, <2>3, <3>2
      <4>2. ASSUME parent = t
            PROVE  UsesToken(r) /\ request[r].token = t /\ \A s \in Tokens : sessions[s].parent # t
        <5>1. t # NoParent
          BY <1>1, <3>2 DEF Tokens, NoParent
        <5> QED BY <2>2, <2>3, <3>2, <4>2, <5>1 DEF Succeeds
      <4>3. ASSUME NEW p \in Requests, UsesToken(p)', request'[p].token = t
            PROVE  \A s \in Tokens \cup {new} : sessions'[s].parent # t
        <5>1. p # r /\ UsesToken(p) /\ request[p].token = t
          BY <1>5, <4>3
        <5>2. \A s \in Tokens : sessions'[s].parent # t
          BY <1>4, <2>2, <2>3, <3>2, <5>1
        <5>3. parent # t
          BY <2>2, <2>3, <3>2, <4>2, <5>1
        <5> QED BY <1>2, <5>2, <5>3
      <4>4. ASSUME NEW s1 \in Tokens \cup {new}, NEW s2 \in Tokens \cup {new},
                   sessions'[s1].parent = t, sessions'[s2].parent = t
            PROVE  s1 = s2
        BY <1>2, <1>4, <2>2, <2>3, <3>2, <4>2, <4>4
      <4> QED BY <4>1, <4>3, <4>4
    <3> QED BY <3>1, <3>2
  <2> QED BY <1>3, <2>1, <2>3 DEF Rotation, UsesToken
<1>11. By(by)' = By(by) \cup {new} /\ \A kind \in {"register", "login"} \ {by} : By(kind)' = By(kind)
  BY <1>2, <1>3, <1>4 DEF By
<1>12. new \notin By(by)
  BY <1>3 DEF By
<1> QED BY <1>2, <1>4, <1>9, <1>10, <1>11, <1>12 DEF new

LEMMA ByIsFinite ==
  ASSUME IInv, NEW kind
  PROVE  IsFiniteSet(By(kind)) /\ Cardinality(By(kind)) \in Nat
<1>1. Len(sessions) \in Nat /\ 1 \in Int
  BY LengthIsNat DEF IInv
<1>2. IsFiniteSet(1..Len(sessions))
  BY <1>1, FS_Interval
<1>3. By(kind) \in SUBSET (1..Len(sessions))
  BY DEF By, Tokens
<1> QED BY <1>2, <1>3, FS_Subset, FS_CardinalityType

\* A commit ends its request.
LEMMA Ends ==
  ASSUME TypeOK, NEW r \in Requests, End(r)
  PROVE  /\ request' \in [Requests -> {Idle} \cup Transaction]
         /\ request'[r] = Idle /\ OnlyEnds
         /\ \A p \in Requests : request'[p].pc # "idle" => p # r /\ request'[p] = request[p]
<1>1. /\ request' \in [Requests -> {Idle} \cup Transaction]
      /\ request'[r] = Idle
      /\ \A p \in Requests : p # r => request'[p] = request[p]
  BY Moves DEF End
<1> QED BY <1>1 DEF OnlyEnds, Idle

\* Every session and every access token is one of a device in the table.
LEMMA HeldByDevices ==
  ASSUME IInv
  PROVE  /\ sessions \in Seq(Session) /\ access \subseteq Devices
         /\ \A d \in access : device[d] # "none"
         /\ \A t \in Tokens : sessions[t].device \in Devices /\ device[sessions[t].device] # "none"
<1>1. sessions \in Seq(Session) /\ \A t \in Tokens : device[sessions[t].device] # "none"
  BY DEF IInv, TypeOK
<1>2. \A t \in Tokens : sessions[t] \in Session
  BY <1>1, ElementOfSeq DEF Tokens
<1> QED BY <1>1, <1>2 DEF Session, IInv, TypeOK

LEMMA RegisterCommitsKeeps ==
  ASSUME IInv, NEW r \in Requests, RegisterCommits(r)
  PROVE  IInv'
<1>1. PICK d \in Devices : d = request[r].device /\ account[Owner[d]] = "none" /\ Owner[d] \in Users
  BY Working, OwnerAssumption DEF RegisterCommits, At, IInv, Transaction, Accounts
<1>2. /\ account' = [account EXCEPT ![Owner[d]] = "active"]
      /\ device' = [device EXCEPT ![d] = "active"]
      /\ sessions' = Opened(sessions, d, NoParent, "register")
      /\ access' = access \cup {d}
      /\ audit' = [audit EXCEPT !["user.registered"] = @ + 1]
      /\ founded' = [founded EXCEPT ![Owner[d]] = @ + 1]
      /\ End(r) /\ UNCHANGED <<contended, failures, started>>
  BY <1>1 DEF RegisterCommits, Log
<1>3. /\ request' \in [Requests -> {Idle} \cup Transaction]
      /\ request'[r] = Idle /\ OnlyEnds
      /\ \A p \in Requests : request'[p].pc # "idle" => p # r /\ request'[p] = request[p]
  BY <1>2, Ends DEF IInv
<1>4. /\ account \in [Users -> {"none", "active", "banned"}] /\ founded \in [Users -> Nat]
      /\ device \in [Devices -> {"none", "active", "revoked"}] /\ audit \in [AuditTypes -> Nat]
  BY DEF IInv, TypeOK
<1>5. SameSessions(sessions) /\ NoParent \in Nat /\ Succeeds(r, NoParent, sessions)
  BY HeldByDevices DEF SameSessions, NoParent, Succeeds
<1>6. /\ Parents' /\ Rotation'
      /\ sessions' \in Seq(Session) /\ Len(sessions') = Len(sessions) + 1
      /\ \A s \in Tokens : sessions'[s].device = sessions[s].device
      /\ sessions'[Len(sessions')].device = d
      /\ By("register")' = By("register") \cup {Len(sessions) + 1} /\ By("login")' = By("login")
      /\ Len(sessions) + 1 \notin By("register")
  BY <1>2, <1>3, <1>5, OpenedKeeps
<1>7. /\ \A e \in Devices : device'[e] = IF e = d THEN "active" ELSE device[e]
      /\ \A u \in Users : account'[u] = IF u = Owner[d] THEN "active" ELSE account[u]
      /\ \A u \in Users : founded'[u] = IF u = Owner[d] THEN founded[u] + 1 ELSE founded[u]
  BY <1>2, <1>4
<1>8. \A e \in Devices : Owner[e] = Owner[d] => device[e] = "none"
  BY <1>1 DEF IInv, Accounts
<1>9. \A t \in Tokens' : device'[sessions'[t].device] # "none"
  <2>1. Tokens' = Tokens \cup {Len(sessions')} /\ Len(sessions') = Len(sessions) + 1
    BY <1>6, LengthIsNat DEF IInv, Tokens
  <2> QED BY <1>6, <1>7, <2>1, HeldByDevices
<1>10. TypeOK'
  <2>1. /\ account' \in [Users -> {"none", "active", "banned"}]
        /\ device' \in [Devices -> {"none", "active", "revoked"}]
    BY <1>2, <1>4
  <2>2. audit' \in [AuditTypes -> Nat]
    BY <1>2, <1>4 DEF AuditTypes
  <2>4. founded' \in [Users -> Nat]
    <3>1. founded \in [Users -> Nat] /\ Owner[d] \in Users /\ founded[Owner[d]] + 1 \in Nat
      BY <1>1, <1>4
    <3>2. founded' = [founded EXCEPT ![Owner[d]] = founded[Owner[d]] + 1]
      BY <1>2
    <3> QED BY <3>1, <3>2
  <2>3. access' \subseteq {e \in Devices : device'[e] # "none"}
    BY <1>1, <1>2, <1>7, HeldByDevices
  <2> QED BY <1>2, <1>3, <1>6, <1>9, <2>1, <2>2, <2>3, <2>4 DEF IInv, TypeOK
<1>11. Accounts' /\ DeviceRows' /\ Remembered'
  <2>1. founded[Owner[d]] = 0 /\ \A u \in Users : founded[u] <= 1 /\ (account[u] = "none" => founded[u] = 0)
    BY <1>1 DEF IInv, Accounts
  <2>2. \A u \in Users : founded'[u] <= 1 /\ (account'[u] = "none" => founded'[u] = 0)
    BY <1>7, <2>1
  <2>3. \A e \in Devices : /\ device[e] = "revoked" => device'[e] = "revoked"
                           /\ device[e] # "none" => device'[e] # "none"
                           /\ device'[e] # "none" => account'[Owner[e]] # "none"
    BY <1>7, <1>8, OwnerAssumption DEF IInv, Accounts
  <2>4. ASSUME NEW p \in Requests, request'[p].pc = "register_commit"
        PROVE  account'[Owner[request[p].device]] = "none"
    <3>1. p # r /\ request[p].pc = "register_commit" /\ Owner[request[p].device] \in Users
      BY <1>3, <2>4, Working, OwnerAssumption DEF IInv, Transaction
    <3>2. Owner[request[p].device] # Owner[d] /\ account[Owner[request[p].device]] = "none"
      BY <1>1, <3>1 DEF IInv, Accounts, At, RegisterCommits
    <3> QED BY <1>7, <3>1, <3>2
  <2>5. ASSUME NEW p \in Requests, request'[p].pc = "enrol_commit"
        PROVE  device'[request[p].device] = "none"
    <3>1. request[p].pc = "enrol_commit" /\ request[p].device \in Devices
      BY <1>3, <2>5, Working DEF IInv, Transaction
    <3>2. account[Owner[request[p].device]] # "none" /\ device[request[p].device] = "none"
      BY <3>1 DEF IInv, Accounts, DeviceRows, At
    <3> QED BY <1>1, <1>7, <3>1, <3>2
  <2>6. \A u \in Users : account[u] # "none" => account'[u] # "none"
    BY <1>7
  <2> QED BY <1>3, <1>10, <2>2, <2>3, <2>4, <2>5, <2>6, DirectoryKeeps
<1>12. Audited'
  <2>1. Cardinality(By("register") \cup {Len(sessions) + 1}) = Cardinality(By("register")) + 1
    BY <1>6, ByIsFinite, FS_AddElement
  <2>2. Revoked' = Revoked
    BY <1>1, <1>7, <1>8 DEF Revoked
  <2>3. /\ audit'["user.registered"] = audit["user.registered"] + 1
        /\ audit'["auth.login"] = audit["auth.login"] /\ audit'["device.revoked"] = audit["device.revoked"]
    BY <1>2, <1>4 DEF AuditTypes
  <2> QED BY <1>6, <2>1, <2>2, <2>3 DEF IInv, Audited
<1> QED BY <1>6, <1>10, <1>11, <1>12 DEF IInv

LEMMA LoginCommitsKeeps ==
  ASSUME IInv, NEW r \in Requests, LoginCommits(r)
  PROVE  IInv'
<1>1. PICK d \in Devices : d = request[r].device /\ account[Owner[d]] # "none"
  BY Working DEF LoginCommits, At, IInv, Transaction, Accounts
<1>2. /\ device' = [device EXCEPT ![d] = IF device[d] = "none" THEN "active" ELSE device[d]]
      /\ sessions' = Opened(sessions, d, NoParent, "login")
      /\ access' = access \cup {d}
      /\ audit' = [audit EXCEPT !["auth.login"] = @ + 1]
      /\ End(r) /\ UNCHANGED <<account, contended, founded, failures, started>>
  BY <1>1 DEF LoginCommits, Log, history
<1>3. /\ request' \in [Requests -> {Idle} \cup Transaction]
      /\ request'[r] = Idle /\ OnlyEnds
      /\ \A p \in Requests : request'[p].pc # "idle" => p # r /\ request'[p] = request[p]
  BY <1>2, Ends DEF IInv
<1>4. device \in [Devices -> {"none", "active", "revoked"}] /\ audit \in [AuditTypes -> Nat]
  BY DEF IInv, TypeOK
<1>5. SameSessions(sessions) /\ NoParent \in Nat /\ Succeeds(r, NoParent, sessions)
  BY HeldByDevices DEF SameSessions, NoParent, Succeeds
<1>6. /\ Parents' /\ Rotation'
      /\ sessions' \in Seq(Session) /\ Len(sessions') = Len(sessions) + 1
      /\ \A s \in Tokens : sessions'[s].device = sessions[s].device
      /\ sessions'[Len(sessions')].device = d
      /\ By("login")' = By("login") \cup {Len(sessions) + 1} /\ By("register")' = By("register")
      /\ Len(sessions) + 1 \notin By("login")
  BY <1>2, <1>3, <1>5, OpenedKeeps
<1>7. /\ \A e \in Devices : e # d => device'[e] = device[e]
      /\ device'[d] = IF device[d] = "none" THEN "active" ELSE device[d]
      /\ device' \in [Devices -> {"none", "active", "revoked"}]
  BY <1>2, <1>4
<1>8. \A t \in Tokens' : device'[sessions'[t].device] # "none"
  <2>1. Tokens' = Tokens \cup {Len(sessions')} /\ Len(sessions') = Len(sessions) + 1
    BY <1>6, LengthIsNat DEF IInv, Tokens
  <2> QED BY <1>6, <1>7, <2>1, HeldByDevices
<1>9. TypeOK'
  <2>1. audit' \in [AuditTypes -> Nat]
    BY <1>2, <1>4 DEF AuditTypes
  <2>2. access' \subseteq {e \in Devices : device'[e] # "none"}
    BY <1>1, <1>2, <1>7, HeldByDevices
  <2> QED BY <1>2, <1>3, <1>6, <1>7, <1>8, <2>1, <2>2 DEF IInv, TypeOK
<1>10. Accounts' /\ DeviceRows' /\ Remembered'
  <2>1. \A e \in Devices : /\ device[e] = "revoked" => device'[e] = "revoked"
                           /\ device[e] # "none" => device'[e] # "none"
                           /\ device'[e] # "none" => account'[Owner[e]] # "none"
    BY <1>1, <1>2, <1>7 DEF IInv, Accounts
  <2>2. \A p \in Requests : request'[p].pc = "register_commit" => account'[Owner[request[p].device]] = "none"
    BY <1>2, <1>3 DEF IInv, Accounts, At
  <2>3. ASSUME NEW p \in Requests, request'[p].pc = "enrol_commit"
        PROVE  device'[request[p].device] = "none"
    <3>1. p # r /\ request[p].pc = "enrol_commit" /\ request[p].device \in Devices
      BY <1>3, <2>3, Working DEF IInv, Transaction
    <3>2. device[request[p].device] = "none"
      BY <3>1 DEF IInv, DeviceRows, At
    <3>3. request[p].device # d
      BY <1>1, <3>1, <3>2 DEF IInv, DeviceRows, LoginCommits, At
    <3> QED BY <1>7, <3>1, <3>2, <3>3
  <2>4. \A u \in Users : founded'[u] <= 1 /\ (account'[u] = "none" => founded'[u] = 0)
    BY <1>2 DEF IInv, Accounts
  <2> QED BY <1>2, <1>3, <1>9, <2>1, <2>2, <2>3, <2>4, DirectoryKeeps
<1>11. Audited'
  <2>1. Cardinality(By("login") \cup {Len(sessions) + 1}) = Cardinality(By("login")) + 1
    BY <1>6, ByIsFinite, FS_AddElement
  <2>2. Revoked' = Revoked
    BY <1>1, <1>7 DEF Revoked
  <2>3. /\ audit'["auth.login"] = audit["auth.login"] + 1
        /\ audit'["user.registered"] = audit["user.registered"]
        /\ audit'["device.revoked"] = audit["device.revoked"]
    BY <1>2, <1>4 DEF AuditTypes
  <2> QED BY <1>6, <2>1, <2>2, <2>3 DEF IInv, Audited
<1> QED BY <1>6, <1>9, <1>10, <1>11 DEF IInv

LEMMA RefreshCommitsKeeps ==
  ASSUME IInv, NEW r \in Requests, RefreshCommits(r)
  PROVE  IInv'
<1>1. UsesToken(r) /\ request[r].token \in Tokens /\ sessions[request[r].token].device = request[r].device
  BY DEF RefreshCommits, At, UsesToken, IInv, Rotation
<1>2. PICK t \in Tokens, d \in Devices : t = request[r].token /\ d = request[r].device /\ device[d] # "none"
  BY <1>1, HeldByDevices
<1>3. PICK rows : rows = WithState(t, "revoked")
  OBVIOUS
<1>4. /\ sessions' = Opened(rows, d, t, "refresh") /\ access' = access \cup {d}
      /\ End(r) /\ UNCHANGED <<account, device, audit, contended, founded, failures, started>>
  BY <1>2, <1>3 DEF RefreshCommits, WithState, history
<1>5. SameSessions(rows) /\ rows[t].state = "revoked"
  <2>1. /\ rows \in Seq(Session) /\ Len(rows) = Len(sessions)
        /\ \A s \in Tokens : /\ rows[s].device = sessions[s].device
                             /\ rows[s].parent = sessions[s].parent
                             /\ rows[s].by = sessions[s].by
                             /\ rows[s].state = IF s = t THEN "revoked" ELSE sessions[s].state
    BY <1>3, StateChange DEF IInv
  <2> QED BY <2>1 DEF SameSessions
<1>6. /\ request' \in [Requests -> {Idle} \cup Transaction]
      /\ request'[r] = Idle /\ OnlyEnds
      /\ \A p \in Requests : request'[p].pc # "idle" => p # r /\ request'[p] = request[p]
  BY <1>4, Ends DEF IInv
<1>7. t \in Nat /\ Succeeds(r, t, rows)
  BY <1>1, <1>2, <1>5, LengthIsNat DEF IInv, Tokens, Succeeds
<1>8. /\ Parents' /\ Rotation'
      /\ sessions' \in Seq(Session) /\ Len(sessions') = Len(sessions) + 1
      /\ \A s \in Tokens : sessions'[s].device = sessions[s].device
      /\ sessions'[Len(sessions')].device = d
      /\ By("login")' = By("login") /\ By("register")' = By("register")
  BY <1>4, <1>5, <1>6, <1>7, OpenedKeeps
<1>9. TypeOK'
  <2>1. Tokens' = Tokens \cup {Len(sessions')} /\ Len(sessions') = Len(sessions) + 1
    BY <1>8, LengthIsNat DEF IInv, Tokens
  <2>2. \A s \in Tokens' : device'[sessions'[s].device] # "none"
    BY <1>2, <1>4, <1>8, <2>1, HeldByDevices
  <2> QED BY <1>2, <1>4, <1>6, <1>8, <2>2 DEF IInv, TypeOK
<1>10. Accounts' /\ DeviceRows' /\ Remembered'
  BY <1>4, <1>6, <1>9, DirectoryKeeps DEF IInv, Accounts, DeviceRows, At
<1>11. Audited'
  BY <1>4, <1>8 DEF IInv, Audited, Revoked
<1> QED BY <1>8, <1>9, <1>10, <1>11 DEF IInv

\* A session that changes its state, by a logout or by the clock.
LEMMA StateChangeKeeps ==
  ASSUME IInv, NEW t \in Tokens, NEW state \in {"expired", "revoked"},
         sessions' = WithState(t, state),
         state = "expired" => sessions[t].state = "live",
         UNCHANGED <<account, device, access, audit, history>>,
         OnlyEnds, request' \in [Requests -> {Idle} \cup Transaction]
  PROVE  IInv'
<1>1. SameSessions(sessions')
  <2>1. /\ sessions' \in Seq(Session) /\ Len(sessions') = Len(sessions)
        /\ \A s \in Tokens : /\ sessions'[s].device = sessions[s].device
                             /\ sessions'[s].parent = sessions[s].parent
                             /\ sessions'[s].by = sessions[s].by
                             /\ sessions'[s].state = IF s = t THEN state ELSE sessions[s].state
    BY StateChange DEF IInv
  <2> QED BY <2>1 DEF SameSessions
<1>2. contended' = contended
  BY DEF history
<1>3. /\ Parents' /\ Rotation' /\ Tokens' = Tokens
      /\ By("register")' = By("register") /\ By("login")' = By("login")
  BY <1>1, <1>2, SessionsKeep
<1>4. TypeOK'
  BY <1>1, <1>3 DEF IInv, TypeOK, SameSessions, history
<1>5. \A p \in Requests : request'[p].pc # "idle" => request'[p] = request[p]
  BY DEF OnlyEnds, Idle
<1>6. Accounts' /\ DeviceRows' /\ Remembered'
  BY <1>4, <1>5, DirectoryKeeps DEF IInv, Accounts, DeviceRows, At, history
<1>7. Audited'
  BY <1>3 DEF IInv, Audited, Revoked
<1> QED BY <1>3, <1>4, <1>6, <1>7 DEF IInv

LEMMA LogoutCommitsKeeps ==
  ASSUME IInv, NEW r \in Requests, LogoutCommits(r)
  PROVE  IInv'
<1>1. request[r].token \in Tokens
  BY DEF LogoutCommits, At, UsesToken, IInv, Rotation
<1>2. OnlyEnds /\ request' \in [Requests -> {Idle} \cup Transaction]
  BY Ends DEF LogoutCommits, IInv
<1>3. sessions' = WithState(request[r].token, "revoked")
  BY DEF LogoutCommits, WithState
<1> QED BY <1>1, <1>2, <1>3, StateChangeKeeps DEF LogoutCommits

LEMMA SessionExpiresKeeps ==
  ASSUME IInv, NEW t \in Tokens, SessionExpires(t)
  PROVE  IInv'
<1>1. request' = request /\ UNCHANGED <<account, device, access, audit, history>>
  BY DEF SessionExpires
<1>2. OnlyEnds /\ request' \in [Requests -> {Idle} \cup Transaction]
  BY <1>1 DEF IInv, TypeOK, OnlyEnds
<1>3. sessions' = WithState(t, "expired") /\ sessions[t].state = "live"
  BY DEF SessionExpires, WithState
<1> QED BY <1>1, <1>2, <1>3, StateChangeKeeps

\* A step that leaves the sessions alone.
LEMMA SessionsStay ==
  ASSUME IInv, OnlyEnds, UNCHANGED <<sessions, contended>>
  PROVE  /\ Parents' /\ Rotation' /\ Tokens' = Tokens
         /\ By("register")' = By("register") /\ By("login")' = By("login")
<1>1. SameSessions(sessions')
  BY HeldByDevices DEF SameSessions
<1> QED BY <1>1, SessionsKeep

LEMMA EnrolCommitsKeeps ==
  ASSUME IInv, NEW r \in Requests, EnrolCommits(r)
  PROVE  IInv'
<1>1. PICK d \in Devices : d = request[r].device /\ account[Owner[d]] # "none" /\ device[d] = "none"
  BY Working DEF EnrolCommits, At, IInv, Transaction, Accounts, DeviceRows
<1>2. /\ device' = [device EXCEPT ![d] = "active"]
      /\ audit' = [audit EXCEPT !["device.registered"] = @ + 1]
      /\ End(r) /\ UNCHANGED <<account, sessions, access, contended, founded, failures, started>>
  BY <1>1 DEF EnrolCommits, Log, history
<1>3. /\ request' \in [Requests -> {Idle} \cup Transaction]
      /\ request'[r] = Idle /\ OnlyEnds
      /\ \A p \in Requests : request'[p].pc # "idle" => p # r /\ request'[p] = request[p]
  BY <1>2, Ends DEF IInv
<1>4. device \in [Devices -> {"none", "active", "revoked"}] /\ audit \in [AuditTypes -> Nat]
  BY DEF IInv, TypeOK
<1>5. /\ Parents' /\ Rotation' /\ Tokens' = Tokens
      /\ By("register")' = By("register") /\ By("login")' = By("login")
  BY <1>2, <1>3, SessionsStay
<1>6. /\ \A e \in Devices : e # d => device'[e] = device[e]
      /\ device'[d] = "active" /\ device' \in [Devices -> {"none", "active", "revoked"}]
  BY <1>2, <1>4
<1>7. TypeOK'
  <2>1. audit' \in [AuditTypes -> Nat]
    BY <1>2, <1>4 DEF AuditTypes
  <2>2. access' \subseteq {e \in Devices : device'[e] # "none"}
    BY <1>2, <1>6, HeldByDevices
  <2>3. \A t \in Tokens' : device'[sessions'[t].device] # "none"
    BY <1>2, <1>5, <1>6, HeldByDevices
  <2> QED BY <1>2, <1>3, <1>6, <2>1, <2>2, <2>3 DEF IInv, TypeOK
<1>8. Accounts' /\ DeviceRows' /\ Remembered'
  <2>1. \A e \in Devices : /\ device[e] = "revoked" => device'[e] = "revoked"
                           /\ device[e] # "none" => device'[e] # "none"
                           /\ device'[e] # "none" => account'[Owner[e]] # "none"
    BY <1>1, <1>2, <1>6 DEF IInv, Accounts
  <2>2. \A p \in Requests : request'[p].pc = "register_commit" => account'[Owner[request[p].device]] = "none"
    BY <1>2, <1>3 DEF IInv, Accounts, At
  <2>3. ASSUME NEW p \in Requests, request'[p].pc = "enrol_commit"
        PROVE  device'[request[p].device] = "none"
    <3>1. p # r /\ request[p].pc = "enrol_commit" /\ request[p].device \in Devices
      BY <1>3, <2>3, Working DEF IInv, Transaction
    <3>2. device[request[p].device] = "none"
      BY <3>1 DEF IInv, DeviceRows, At
    <3>3. request[p].device # d
      BY <1>1, <3>1, <3>2 DEF IInv, DeviceRows, EnrolCommits, At
    <3> QED BY <1>6, <3>1, <3>2, <3>3
  <2>4. \A u \in Users : founded'[u] <= 1 /\ (account'[u] = "none" => founded'[u] = 0)
    BY <1>2 DEF IInv, Accounts
  <2> QED BY <1>2, <1>3, <1>7, <2>1, <2>2, <2>3, <2>4, DirectoryKeeps
<1>9. Audited'
  <2>1. Revoked' = Revoked
    BY <1>1, <1>6 DEF Revoked
  <2>2. \A type \in {"auth.login", "user.registered", "device.revoked"} : audit'[type] = audit[type]
    BY <1>2, <1>4 DEF AuditTypes
  <2> QED BY <1>5, <2>1, <2>2 DEF IInv, Audited
<1> QED BY <1>5, <1>7, <1>8, <1>9 DEF IInv

LEMMA RevokeCommitsKeeps ==
  ASSUME IInv, NEW r \in Requests, RevokeCommits(r)
  PROVE  IInv'
<1>1. PICK d \in Devices : d = request[r].device /\ device[d] # "none"
  BY Working DEF RevokeCommits, At, IInv, Transaction, DeviceRows
<1>2. /\ device' = [device EXCEPT ![d] = "revoked"]
      /\ audit' = [audit EXCEPT !["device.revoked"] = @ + 1]
      /\ End(r) /\ UNCHANGED <<account, sessions, access, contended, founded, failures, started>>
  BY <1>1 DEF RevokeCommits, Log, history
<1>3. /\ request' \in [Requests -> {Idle} \cup Transaction]
      /\ request'[r] = Idle /\ OnlyEnds
      /\ \A p \in Requests : request'[p].pc # "idle" => p # r /\ request'[p] = request[p]
  BY <1>2, Ends DEF IInv
<1>4. device \in [Devices -> {"none", "active", "revoked"}] /\ audit \in [AuditTypes -> Nat]
  BY DEF IInv, TypeOK
<1>5. /\ Parents' /\ Rotation' /\ Tokens' = Tokens
      /\ By("register")' = By("register") /\ By("login")' = By("login")
  BY <1>2, <1>3, SessionsStay
<1>6. /\ \A e \in Devices : e # d => device'[e] = device[e]
      /\ device'[d] = "revoked" /\ device' \in [Devices -> {"none", "active", "revoked"}]
  BY <1>2, <1>4
<1>7. TypeOK'
  <2>1. audit' \in [AuditTypes -> Nat]
    BY <1>2, <1>4 DEF AuditTypes
  <2>2. access' \subseteq {e \in Devices : device'[e] # "none"}
    BY <1>2, <1>6, HeldByDevices
  <2>3. \A t \in Tokens' : device'[sessions'[t].device] # "none"
    BY <1>2, <1>5, <1>6, HeldByDevices
  <2> QED BY <1>2, <1>3, <1>6, <2>1, <2>2, <2>3 DEF IInv, TypeOK
<1>8. Accounts' /\ DeviceRows' /\ Remembered'
  <2>1. \A e \in Devices : /\ device[e] = "revoked" => device'[e] = "revoked"
                           /\ device[e] # "none" => device'[e] # "none"
                           /\ device'[e] # "none" => account'[Owner[e]] # "none"
    BY <1>1, <1>2, <1>6 DEF IInv, Accounts
  <2>2. \A p \in Requests : request'[p].pc = "register_commit" => account'[Owner[request[p].device]] = "none"
    BY <1>2, <1>3 DEF IInv, Accounts, At
  <2>3. ASSUME NEW p \in Requests, request'[p].pc = "enrol_commit"
        PROVE  device'[request[p].device] = "none"
    <3>1. request[p].pc = "enrol_commit" /\ request[p].device \in Devices
      BY <1>3, <2>3, Working DEF IInv, Transaction
    <3>2. device[request[p].device] = "none"
      BY <3>1 DEF IInv, DeviceRows, At
    <3> QED BY <1>1, <1>6, <3>1, <3>2
  <2>4. \A u \in Users : founded'[u] <= 1 /\ (account'[u] = "none" => founded'[u] = 0)
    BY <1>2 DEF IInv, Accounts
  <2> QED BY <1>2, <1>3, <1>7, <2>1, <2>2, <2>3, <2>4, DirectoryKeeps
<1>9. Audited'
  <2>1. Revoked' = Revoked \cup {d}
    BY <1>1, <1>6 DEF Revoked
  <2>2. /\ IsFiniteSet(Revoked \cup {d})
        /\ Cardinality(Revoked \cup {d}) = IF d \in Revoked THEN Cardinality(Revoked) ELSE Cardinality(Revoked) + 1
    BY FS_AddElement DEF IInv, Audited
  <2>3. Cardinality(Revoked) \in Nat /\ audit["device.revoked"] >= Cardinality(Revoked)
    BY FS_CardinalityType DEF IInv, Audited
  <2>4. audit["device.revoked"] \in Nat /\ audit'["device.revoked"] = audit["device.revoked"] + 1
    BY <1>2, <1>4 DEF AuditTypes
  <2>5. audit'["device.revoked"] >= Cardinality(Revoked \cup {d})
    BY <2>2, <2>3, <2>4
  <2>6. \A type \in {"auth.login", "user.registered"} : audit'[type] = audit[type]
    BY <1>2, <1>4 DEF AuditTypes
  <2> QED BY <1>5, <2>1, <2>2, <2>5, <2>6 DEF IInv, Audited
<1> QED BY <1>5, <1>7, <1>8, <1>9 DEF IInv

LEMMA BanKeeps ==
  ASSUME IInv, NEW u \in Users, Ban(u)
  PROVE  IInv'
<1>1. /\ account[u] # "none" /\ account' = [account EXCEPT ![u] = "banned"]
      /\ UNCHANGED <<device, sessions, access, audit, request, contended, founded, failures, started>>
  BY DEF Ban, history
<1>2. account \in [Users -> {"none", "active", "banned"}] /\ OnlyEnds
  BY <1>1 DEF IInv, TypeOK, OnlyEnds
<1>3. /\ account' \in [Users -> {"none", "active", "banned"}]
      /\ \A v \in Users : account'[v] = "none" <=> account[v] = "none"
  BY <1>1, <1>2
<1>4. /\ Parents' /\ Rotation' /\ Tokens' = Tokens
      /\ By("register")' = By("register") /\ By("login")' = By("login")
  BY <1>1, <1>2, SessionsStay
<1>5. TypeOK'
  BY <1>1, <1>3 DEF IInv, TypeOK, Tokens
<1>6. Accounts' /\ DeviceRows' /\ Remembered'
  <2>1. \A d \in Devices : Owner[d] \in Users
    BY OwnerAssumption
  <2>2. \A p \in Requests : request'[p].pc = "register_commit" => account'[Owner[request[p].device]] = "none"
    <3>1. \A p \in Requests : request[p].pc = "register_commit" =>
            request[p].device \in Devices /\ account[Owner[request[p].device]] = "none"
      BY Working DEF IInv, Transaction, Accounts, At
    <3> QED BY <1>1, <1>3, <2>1, <3>1
  <2>3. \A p \in Requests : request'[p].pc = "enrol_commit" => device'[request[p].device] = "none"
    BY <1>1 DEF IInv, DeviceRows, At
  <2>4. \A d \in Devices : device'[d] # "none" => account'[Owner[d]] # "none"
    BY <1>1, <1>3, <2>1 DEF IInv, Accounts
  <2>5. \A v \in Users : founded'[v] <= 1 /\ (account'[v] = "none" => founded'[v] = 0)
    BY <1>1, <1>3 DEF IInv, Accounts
  <2> QED BY <1>1, <1>2, <1>3, <1>5, <2>2, <2>3, <2>4, <2>5, DirectoryKeeps
<1>7. Audited'
  BY <1>1, <1>4 DEF IInv, Audited, Revoked
<1> QED BY <1>4, <1>5, <1>6, <1>7 DEF IInv

\* Steps that change no row and no request.
LEMMA QuietStepsKeep ==
  ASSUME IInv, UNCHANGED <<account, device, sessions, audit, request, contended, founded, started>>,
         access' \subseteq access, failures' \in 0..MaxFailures
  PROVE  IInv'
<1>1. TypeOK'
  BY DEF IInv, TypeOK, Tokens
<1>2. Accounts' /\ DeviceRows' /\ Remembered' /\ Parents' /\ Rotation' /\ Audited'
  BY DEF IInv, Accounts, DeviceRows, Remembered, Parents, Rotation, Audited, At, UsesToken, Tokens, By, Revoked
<1> QED BY <1>1, <1>2 DEF IInv

-----------------------------------------------------------------------------
(* Steps                                                                   *)

LEMMA NextKeeps ==
  ASSUME IInv, [Next]_vars
  PROVE  IInv'
<1>1. ASSUME NEW r \in Requests, NEW d \in Devices,
             RegisterChecks(r, d) \/ LoginChecks(r, d) \/ EnrolBegins(r, d) \/ RevokeReads(r, d)
      PROVE  IInv'
  BY <1>1, RegisterKeeps, LoginKeeps, EnrolKeeps
<1>2. ASSUME NEW r \in Requests, NEW t \in Tokens, RefreshReads(r, t) \/ LogoutReads(r, t) PROVE IInv'
  BY <1>2, TokenReadsKeep
<1>3. ASSUME NEW r \in Requests, RegisterInserts(r) \/ LoginFindsDevice(r) \/ LoginInsertsDevice(r) \/ EnrolInserts(r)
      PROVE  IInv'
  <2>1. request[r].device \in Devices
    BY <1>3, Working DEF IInv, Transaction, RegisterInserts, LoginFindsDevice, LoginInsertsDevice, EnrolInserts, At
  <2> QED BY <1>3, <2>1, RegisterKeeps, LoginKeeps, EnrolKeeps
<1>4. ASSUME NEW r \in Requests, RefreshRevokes(r) \/ RefreshReadsDevice(r) \/ LogoutRevokes(r) PROVE IInv'
  BY <1>4, TokenStepsKeep
<1>5. ASSUME NEW r \in Requests, RegisterCommits(r) \/ LoginCommits(r) \/ RefreshCommits(r) \/ LogoutCommits(r)
      PROVE  IInv'
  BY <1>5, RegisterCommitsKeeps, LoginCommitsKeeps, RefreshCommitsKeeps, LogoutCommitsKeeps
<1>6. ASSUME NEW r \in Requests, EnrolCommits(r) \/ RevokeCommits(r) PROVE IInv'
  BY <1>6, EnrolCommitsKeeps, RevokeCommitsKeeps
<1>7. ASSUME NEW r \in Requests, RollsBack(r) PROVE IInv'
  BY <1>7, EndKeeps DEF RollsBack
<1>8. ASSUME NEW r \in Requests, LoginFails(r) PROVE IInv'
  BY <1>8, QuietStepsKeep, BoundsAssumption DEF LoginFails, IInv, TypeOK, store
<1>9. ASSUME NEW u \in Users, Ban(u) PROVE IInv'
  BY <1>9, BanKeeps
<1>10. ASSUME NEW t \in Tokens, SessionExpires(t) PROVE IInv'
  BY <1>10, SessionExpiresKeeps
<1>11. ASSUME NEW d \in Devices, AccessExpires(d) PROVE IInv'
  BY <1>11, QuietStepsKeep DEF AccessExpires, history, IInv, TypeOK
<1>12. CASE UNCHANGED vars
  BY <1>12, QuietStepsKeep DEF vars, IInv, TypeOK
<1>13. ASSUME NEW r \in Requests, TokenRefused(r) PROVE IInv'
  BY <1>12, <1>13 DEF TokenRefused
<1> QED BY <1>1, <1>2, <1>3, <1>4, <1>5, <1>6, <1>7, <1>8, <1>9, <1>10, <1>11, <1>12, <1>13 DEF Next

\* The inductive invariant of accounts, devices and sessions.
THEOREM Invariance == Spec => []IInv
<1>1. Init => IInv
  BY InitIInv
<1>2. IInv /\ [Next]_vars => IInv'
  BY NextKeeps
<1> QED BY <1>1, <1>2, PTL DEF Spec

-----------------------------------------------------------------------------
(* What follows                                                            *)

\* A refresh token that no two requests used at once has at most one successor
\* (AuthService.refresh, revoke_session).
THEOREM TokensAreUsedOnce == Spec => []UncontendedTokenUsedOnce
<1>1. ASSUME IInv PROVE UncontendedTokenUsedOnce
  <2> SUFFICES ASSUME NEW t \in Tokens \ contended PROVE Cardinality(Children(t)) <= 1
    BY DEF UncontendedTokenUsedOnce
  <2>1. \A s1, s2 \in Children(t) : s1 = s2
    BY <1>1 DEF IInv, Rotation, Children
  <2>2. CASE Children(t) = {}
    BY <2>2, FS_EmptySet
  <2>3. CASE Children(t) # {}
    <3>1. PICK s : Children(t) = {s}
      BY <2>1, <2>3
    <3> QED BY <3>1, FS_Singleton
  <2> QED BY <2>2, <2>3
<1> QED BY <1>1, Invariance, PTL

\* One registration of a name succeeds, and the audit log counts what was
\* committed, whatever overlapped or was rolled back (AuthService.register,
\* login, DeviceService.revoke).
THEOREM AuditIsExact == Spec => []AuditMatches
<1>1. IInv => AuditMatches
  BY DEF IInv, Accounts, Audited, By, Revoked, AuditMatches
<1> QED BY <1>1, Invariance, PTL

\* A revoked device is never active again (LoginInsertsDevice and EnrolInserts
\* fail on its row, DeviceService.revoke).
THEOREM RevokedForGood == Spec => RevocationIsFinal
<1>1. IInv /\ [Next]_vars => [\A d \in Devices : device[d] = "revoked" => device'[d] = "revoked"]_vars
  <2> SUFFICES ASSUME IInv, [Next]_vars, NEW d \in Devices, device[d] = "revoked"
               PROVE  device'[d] = "revoked"
    OBVIOUS
  <2>1. device \in [Devices -> {"none", "active", "revoked"}]
    BY DEF IInv, TypeOK
  <2>2. ASSUME NEW r \in Requests, RegisterCommits(r) \/ EnrolCommits(r) PROVE device'[d] = "revoked"
    <3>1. CASE RegisterCommits(r)
      <4>1. account[Owner[request[r].device]] = "none" /\ request[r].device \in Devices
        BY <3>1, Working DEF RegisterCommits, At, IInv, Transaction, Accounts
      <4>2. request[r].device # d
        BY <4>1 DEF IInv, Accounts
      <4> QED BY <2>1, <3>1, <4>2 DEF RegisterCommits
    <3>2. CASE EnrolCommits(r)
      <4>1. request[r].device # d
        BY <3>2 DEF EnrolCommits, At, IInv, DeviceRows
      <4> QED BY <2>1, <3>2, <4>1 DEF EnrolCommits
    <3> QED BY <2>2, <3>1, <3>2
  <2>3. ASSUME NEW r \in Requests, LoginCommits(r) \/ RevokeCommits(r) PROVE device'[d] = "revoked"
    BY <2>1, <2>3 DEF LoginCommits, RevokeCommits
  <2>4. \/ \E r \in Requests : RegisterCommits(r) \/ EnrolCommits(r)
        \/ \E r \in Requests : LoginCommits(r) \/ RevokeCommits(r)
        \/ device' = device
    BY DEF Next, vars, store, history, RegisterChecks, LoginChecks, EnrolBegins, RevokeReads, RefreshReads,
           LogoutReads, RegisterInserts, LoginFails, LoginFindsDevice, LoginInsertsDevice, TokenRefused,
           RefreshRevokes, RefreshReadsDevice, RefreshCommits, LogoutRevokes, LogoutCommits, EnrolInserts,
           RollsBack, Ban, SessionExpires, AccessExpires
  <2> QED BY <2>2, <2>3, <2>4
<1> QED BY <1>1, Invariance, PTL DEF Spec, RevocationIsFinal

\* What the commits do to the sessions there were, and what they add.
LEMMA NewSession ==
  ASSUME IInv, NEW r \in Requests, RegisterCommits(r) \/ LoginCommits(r)
  PROVE  \A t \in Tokens : sessions'[t] = sessions[t]
<1>1. PICK d \in Devices : d = request[r].device
  BY Working DEF RegisterCommits, LoginCommits, At, IInv, Transaction
<1>2. \E by \in {"register", "login"} : sessions' = Opened(sessions, d, NoParent, by)
  BY <1>1 DEF RegisterCommits, LoginCommits
<1>3. PICK by \in {"register", "login", "refresh"} : sessions' = Opened(sessions, d, NoParent, by)
  BY <1>2
<1>4. NoParent \in Nat /\ sessions \in Seq(Session)
  BY HeldByDevices DEF NoParent
<1>5. \A s \in 1..Len(sessions) : Opened(sessions, d, NoParent, by)[s] = sessions[s]
  BY <1>4, SessionOpened
<1> QED BY <1>3, <1>5 DEF Tokens

LEMMA Rotated ==
  ASSUME IInv, NEW r \in Requests, RefreshCommits(r)
  PROVE  /\ Len(sessions') = Len(sessions) + 1
         /\ sessions'[Len(sessions')].parent = request[r].token /\ sessions'[Len(sessions')].by = "refresh"
         /\ \A t \in Tokens : t # request[r].token => sessions'[t].state = sessions[t].state
<1>1. PICK d \in Devices, t \in Tokens : d = request[r].device /\ t = request[r].token
  BY Working DEF RefreshCommits, At, UsesToken, IInv, Transaction, Rotation
<1>2. PICK rows : rows = WithState(t, "revoked")
  OBVIOUS
<1>3. sessions' = Opened(rows, d, t, "refresh")
  BY <1>1, <1>2 DEF RefreshCommits, WithState
<1>4. /\ rows \in Seq(Session) /\ Len(rows) = Len(sessions)
      /\ \A s \in Tokens : rows[s].state = IF s = t THEN "revoked" ELSE sessions[s].state
  BY <1>2, StateChange DEF IInv
<1>5. t \in Nat
  BY LengthIsNat DEF IInv, Tokens
<1>6. /\ Len(sessions') = Len(rows) + 1
      /\ \A s \in 1..Len(rows) : sessions'[s] = rows[s]
      /\ sessions'[Len(rows) + 1] = [device |-> d, parent |-> t, by |-> "refresh", state |-> "live"]
  BY <1>3, <1>4, <1>5, SessionOpened
<1> QED BY <1>1, <1>4, <1>6 DEF Tokens

\* The steps that open a session, and those that change a state.
LEMMA SessionSteps ==
  ASSUME IInv, [Next]_vars
  PROVE  \/ \E r \in Requests : RegisterCommits(r) \/ LoginCommits(r)
         \/ \E r \in Requests : RefreshCommits(r)
         \/ \E r \in Requests : LogoutCommits(r) /\ Len(sessions') = Len(sessions)
         \/ \E t \in Tokens : SessionExpires(t) /\ Len(sessions') = Len(sessions)
         \/ sessions' = sessions
<1>1. ASSUME NEW r \in Requests, LogoutCommits(r) PROVE Len(sessions') = Len(sessions)
  <2>1. request[r].token \in Tokens
    BY <1>1 DEF LogoutCommits, At, UsesToken, IInv, Rotation
  <2>2. sessions' = WithState(request[r].token, "revoked")
    BY <1>1 DEF LogoutCommits, WithState
  <2> QED BY <2>1, <2>2, StateChange DEF IInv
<1>2. ASSUME NEW t \in Tokens, SessionExpires(t) PROVE Len(sessions') = Len(sessions)
  <2>1. sessions' = WithState(t, "expired")
    BY <1>2 DEF SessionExpires, WithState
  <2> QED BY <2>1, StateChange DEF IInv
<1>3. \/ \E r \in Requests : RegisterCommits(r) \/ LoginCommits(r) \/ RefreshCommits(r) \/ LogoutCommits(r)
      \/ \E t \in Tokens : SessionExpires(t)
      \/ sessions' = sessions
  BY DEF Next, vars, store, history, RegisterChecks, LoginChecks, EnrolBegins, RevokeReads, RefreshReads,
         LogoutReads, RegisterInserts, LoginFails, LoginFindsDevice, LoginInsertsDevice, TokenRefused,
         RefreshRevokes, RefreshReadsDevice, LogoutRevokes, EnrolInserts, EnrolCommits, RevokeCommits,
         RollsBack, Ban, AccessExpires
<1> QED BY <1>1, <1>2, <1>3

\* A request that began when its device was revoked opens no session, nor does
\* a login or registration that began when its user was banned (login,
\* refresh).
THEOREM LockedOut == Spec => LockedOutOpensNothing
<1>1. ASSUME IInv, [Next]_vars, NEW r \in Requests, Opens(r)
      PROVE  /\ request[r].device \notin request[r].revoked
             /\ sessions'[Len(sessions')].by # "refresh" => ~request[r].banned
  <2>1. PICK q \in Requests : RegisterCommits(q) \/ LoginCommits(q) \/ RefreshCommits(q)
    <3>1. Len(sessions) \in Nat /\ Len(sessions') > Len(sessions)
      BY <1>1, LengthIsNat DEF IInv, Opens
    <3> QED BY <1>1, <3>1, SessionSteps
  <2>2. End(q)
    BY <2>1 DEF RegisterCommits, LoginCommits, RefreshCommits
  <2>3. q = r
    BY <1>1, <2>2 DEF End, Opens, IInv, TypeOK
  <2>4. request[r].pc \in {"register_commit", "login_commit", "refresh_commit"}
    BY <2>1, <2>3 DEF RegisterCommits, LoginCommits, RefreshCommits, At
  <2>5. request[r].device \notin request[r].revoked
    BY <1>1, <2>4 DEF IInv, Remembered
  <2>6. CASE RefreshCommits(r)
    BY <1>1, <2>5, <2>6, Rotated
  <2>7. CASE ~RefreshCommits(r)
    <3>1. request[r].pc \in {"register_commit", "login_commit"}
      BY <2>1, <2>3, <2>7 DEF RegisterCommits, LoginCommits, At
    <3> QED BY <1>1, <2>5, <3>1 DEF IInv, Remembered
  <2> QED BY <2>6, <2>7
<1>2. IInv /\ [Next]_vars =>
        [\A r \in Requests : Opens(r) =>
           /\ request[r].device \notin request[r].revoked
           /\ sessions'[Len(sessions')].by # "refresh" => ~request[r].banned]_vars
  BY <1>1
<1> QED BY <1>2, Invariance, PTL DEF Spec, LockedOutOpensNothing

\* The predecessor of a session is revoked, and a session is revoked only
\* together with the opening of its successor or by a logout (refresh: one
\* transaction for both).
THEOREM RotationIsAtomic == Spec => RotationAtomic
<1>1. ASSUME IInv, [Next]_vars, NEW t \in Tokens
      PROVE  /\ Children(t) # {} => sessions[t].state = "revoked"
             /\ sessions[t].state # "revoked" /\ sessions'[t].state = "revoked" =>
                  \/ Len(sessions') > Len(sessions) /\ sessions'[Len(sessions')].parent = t
                  \/ \E r \in Requests : At(r, "logout_commit") /\ request[r].token = t
  <2>1. Len(sessions) \in Nat
    BY <1>1, LengthIsNat DEF IInv
  <2>2. t # NoParent
    BY <2>1 DEF Tokens, NoParent
  <2>3. Children(t) # {} => sessions[t].state = "revoked"
    BY <1>1, <2>2 DEF Children, IInv, Parents
  <2>4. ASSUME sessions[t].state # "revoked", sessions'[t].state = "revoked"
        PROVE  \/ Len(sessions') > Len(sessions) /\ sessions'[Len(sessions')].parent = t
               \/ \E r \in Requests : At(r, "logout_commit") /\ request[r].token = t
    <3>1. CASE \E r \in Requests : RegisterCommits(r) \/ LoginCommits(r)
      BY <1>1, <2>4, <3>1, NewSession
    <3>2. ASSUME NEW r \in Requests, RefreshCommits(r)
          PROVE  Len(sessions') > Len(sessions) /\ sessions'[Len(sessions')].parent = t
      BY <1>1, <2>1, <2>4, <3>2, Rotated
    <3>3. ASSUME NEW r \in Requests, LogoutCommits(r)
          PROVE  At(r, "logout_commit") /\ request[r].token = t
      <4>1. request[r].token \in Tokens /\ At(r, "logout_commit")
        BY <1>1, <3>3 DEF LogoutCommits, At, UsesToken, IInv, Rotation
      <4>2. sessions' = WithState(request[r].token, "revoked")
        BY <3>3 DEF LogoutCommits, WithState
      <4>3. t # request[r].token => sessions'[t].state = sessions[t].state
        BY <1>1, <4>1, <4>2, StateChange DEF IInv
      <4> QED BY <2>4, <4>1, <4>3
    <3>4. ASSUME NEW s \in Tokens, SessionExpires(s) PROVE FALSE
      <4>1. sessions' = WithState(s, "expired")
        BY <3>4 DEF SessionExpires, WithState
      <4>2. sessions'[t].state \in {"expired", sessions[t].state}
        BY <1>1, <4>1, StateChange DEF IInv
      <4> QED BY <2>4, <4>2
    <3>5. CASE sessions' = sessions
      BY <2>4, <3>5
    <3> QED BY <1>1, <3>1, <3>2, <3>3, <3>4, <3>5, SessionSteps
  <2> QED BY <2>3, <2>4
<1>2. IInv /\ [Next]_vars =>
        [\A t \in Tokens :
           /\ Children(t) # {} => sessions[t].state = "revoked"
           /\ sessions[t].state # "revoked" /\ sessions'[t].state = "revoked" =>
                \/ Len(sessions') > Len(sessions) /\ sessions'[Len(sessions')].parent = t
                \/ \E r \in Requests : At(r, "logout_commit") /\ request[r].token = t]_vars
  BY <1>1
<1> QED BY <1>2, Invariance, PTL DEF Spec, RotationAtomic
=============================================================================
