---------------------------- MODULE GroupsProofs ----------------------------
(***************************************************************************)
(* Proofs about Groups, for any users, devices, requests and bounds.       *)
(*                                                                         *)
(* VersionsInCommitOrder is not inductive: a number is computed, inserted  *)
(* and committed in three steps.  The invariant says what is known of it   *)
(* at each: a computed number is at most one past the last, an inserted    *)
(* one is the next, and there is one inserted number at a time.  Joins and *)
(* Departs say the same of member rows, which the counts of                *)
(* AddedWithRotation and FormerMembersStayOut rest on.                     *)
(***************************************************************************)
EXTENDS Groups, FiniteSetTheorems, TLAPS

Joining(r) == request[r].pc \in {"read_version", "insert_version", "add_commit"}

\* Before the group exists nothing of it does.
Unfounded ==
  creator = None => /\ \A u \in Users : member[u] = "none"
                    /\ \A r \in Requests : request[r] = Idle
                    /\ keys = {}

\* What is known of the version number of a rotation in progress.
Rotations ==
  /\ \A r \in Requests : At(r, "insert_version") => request[r].version \in 1..Len(versions) + 1
  /\ \A r \in Requests : At(r, "add_commit") => request[r].version = Len(versions) + 1
  /\ \A q, r \in Requests : At(q, "add_commit") /\ At(r, "add_commit") => q = r

\* Every key belongs to a committed version and is the key of its request.
KeysMatch ==
  \A k \in keys : k.version \in DOMAIN versions /\ versions[k.version].secret = k.secret

\* A user whose row is inserted has no committed row, and one request inserts it.
Joins ==
  /\ \A r \in Requests : Joining(r) => member[request[r].target] = "none"
  /\ \A q, r \in Requests :
       Joining(q) /\ Joining(r) /\ request[q].target = request[r].target => q = r

\* A user who is being removed or leaves was a member.
Departs ==
  \A r \in Requests :
    request[r].pc \in {"remove_commit", "leave_commit"} => member[request[r].target] # "none"

IInv == TypeOK /\ Unfounded /\ VersionsInCommitOrder /\ Rotations /\ KeysMatch /\ Joins /\ Departs

PCs == {"find_new_member", "insert_member", "read_version", "insert_version", "add_commit",
        "find_member", "remove_commit", "leave_commit"}

-----------------------------------------------------------------------------
\* A request that is not idle has the fields of a transaction.
LEMMA Busy ==
  ASSUME TypeOK, NEW r \in Requests, request[r].pc # "idle"
  PROVE  request[r] \in Transaction
BY DEF TypeOK, Idle

\* Goto changes the program point of one request and nothing else of it.
LEMMA GotoMoves ==
  ASSUME TypeOK, NEW r \in Requests, request[r].pc # "idle", NEW p \in PCs, Goto(r, p)
  PROVE  /\ request' \in [Requests -> {Idle} \cup Transaction]
         /\ request'[r].pc = p
         /\ request'[r].target = request[r].target
         /\ request'[r].version = request[r].version
         /\ \A q \in Requests : q # r => request'[q] = request[q]
<1>1. request[r] \in Transaction
  BY Busy
<1>2. request \in [Requests -> {Idle} \cup Transaction]
  BY DEF TypeOK
<1>3. request' = [request EXCEPT ![r] = [request[r] EXCEPT !.pc = p]]
  BY DEF Goto
<1>4. [request[r] EXCEPT !.pc = p] \in Transaction
  BY <1>1 DEF Transaction, PCs
<1> QED BY <1>1, <1>2, <1>3, <1>4 DEF Transaction

\* End makes one request idle.
LEMMA EndIdles ==
  ASSUME TypeOK, NEW r \in Requests, End(r)
  PROVE  /\ request' \in [Requests -> {Idle} \cup Transaction]
         /\ request'[r] = Idle
         /\ \A q \in Requests : q # r => request'[q] = request[q]
BY DEF TypeOK, End

\* With versions numbered 1, 2, ... the maximum is their count.
LEMMA MaxIsLast ==
  ASSUME TypeOK, VersionsInCommitOrder
  PROVE  Numbers = 1..Len(versions) /\ MaxVersion = Len(versions)
<1>1. versions \in Seq([version : Nat, secret : Nat]) /\ Len(versions) \in Nat
  BY DEF TypeOK
<1>2. Numbers = 1..Len(versions)
  BY <1>1 DEF Numbers, VersionsInCommitOrder
<1>3. Len(versions) \in Numbers \cup {0}
  BY <1>1, <1>2
<1>4. \A m \in Numbers : m <= Len(versions)
  BY <1>1, <1>2
<1>5. \A n \in Numbers \cup {0} : (\A m \in Numbers : m <= n) => n = Len(versions)
  BY <1>1, <1>2, <1>3
<1> QED BY <1>2, <1>3, <1>4, <1>5 DEF MaxVersion

-----------------------------------------------------------------------------
\* The initial state satisfies the invariant.
THEOREM InitIInv == Init => IInv
<1> SUFFICES ASSUME Init PROVE IInv
  OBVIOUS
<1>1. TypeOK
  BY BoundAssumption DEF Init, TypeOK, EventTypes
<1> QED BY <1>1 DEF Init, IInv, Unfounded, VersionsInCommitOrder, Rotations, KeysMatch, Joins,
           Departs, Joining, At, Idle

\* A request that moves on without touching the chat keeps the invariant if
\* what is known at its new program point holds there.
LEMMA StepKeeps ==
  ASSUME IInv, NEW r \in Requests, request[r].pc # "idle", NEW p \in PCs, Goto(r, p),
         UNCHANGED <<chat, revoked, started>>,
         p = "insert_version" => request[r].version \in 1..Len(versions) + 1,
         p = "add_commit" => /\ request[r].version = Len(versions) + 1
                             /\ \A q \in Requests : ~At(q, "add_commit"),
         p \in {"read_version", "insert_version", "add_commit"} =>
           \/ Joining(r)
           \/ /\ member[request[r].target] = "none"
              /\ \A q \in Requests : Joining(q) => request[q].target # request[r].target,
         p \in {"remove_commit", "leave_commit"} => member[request[r].target] # "none"
  PROVE  IInv'
<1> USE DEF IInv
<1>1. /\ request' \in [Requests -> {Idle} \cup Transaction]
      /\ request'[r].pc = p
      /\ request'[r].target = request[r].target
      /\ request'[r].version = request[r].version
      /\ \A q \in Requests : q # r => request'[q] = request[q]
  BY GotoMoves
<1>2. /\ creator' = creator /\ member' = member /\ versions' = versions /\ keys' = keys
      /\ events' = events /\ initial' = initial /\ revoked' = revoked /\ started' = started
  BY DEF chat
<1>3. creator # None
  BY DEF Unfounded, Idle
<1>4. TypeOK'
  BY <1>1, <1>2 DEF TypeOK
<1>5. Unfounded'
  BY <1>2, <1>3 DEF Unfounded
<1>6. VersionsInCommitOrder' /\ KeysMatch'
  BY <1>2 DEF VersionsInCommitOrder, KeysMatch
<1>7. Rotations'
  BY <1>1, <1>2 DEF Rotations, At
<1>8. Joins'
  BY <1>1, <1>2 DEF Joins, Joining
<1>9. Departs'
  BY <1>1, <1>2 DEF Departs
<1> QED BY <1>4, <1>5, <1>6, <1>7, <1>8, <1>9

\* Ending a request without touching the chat keeps the invariant.
LEMMA EndKeeps ==
  ASSUME IInv, NEW r \in Requests, End(r), UNCHANGED <<chat, revoked, started>>
  PROVE  IInv'
<1> USE DEF IInv
<1>1. /\ request' \in [Requests -> {Idle} \cup Transaction]
      /\ request'[r].pc = "idle"
      /\ request'[r] = Idle
      /\ \A q \in Requests : q # r => request'[q] = request[q]
  BY EndIdles DEF Idle
<1>2. /\ creator' = creator /\ member' = member /\ versions' = versions /\ keys' = keys
      /\ events' = events /\ initial' = initial /\ revoked' = revoked /\ started' = started
  BY DEF chat
<1>4. TypeOK'
  BY <1>1, <1>2 DEF TypeOK
<1>5. Unfounded' /\ VersionsInCommitOrder' /\ KeysMatch'
  BY <1>1, <1>2 DEF Unfounded, VersionsInCommitOrder, KeysMatch
<1>6. Rotations' /\ Joins' /\ Departs'
  BY <1>1, <1>2 DEF Rotations, Joins, Departs, Joining, At
<1> QED BY <1>4, <1>5, <1>6

\* A new request keeps the invariant: nothing is known of it, except that
\* one that leaves is about a member.
LEMMA BeginKeeps ==
  ASSUME IInv, NEW r \in Requests, NEW p \in {"find_new_member", "find_member", "leave_commit"},
         NEW u \in Users, NEW upload \in SUBSET Devices, Begin(r, p, u, upload),
         creator # None, p = "leave_commit" => member[u] # "none"
  PROVE  IInv'
<1> USE DEF IInv
<1> DEFINE t == [pc |-> p, target |-> u, upload |-> upload, version |-> 0, secret |-> started + 1]
<1>1. started \in Nat /\ started' = started + 1 /\ started + 1 \in 0..MaxRequests
  BY BoundAssumption DEF Begin, TypeOK
<1>2. t \in Transaction
  BY <1>1 DEF Transaction
<1>3. request' = [request EXCEPT ![r] = t]
  BY DEF Begin
<1>4. /\ request' \in [Requests -> {Idle} \cup Transaction]
      /\ request'[r].pc = p /\ request'[r].target = u
      /\ \A q \in Requests : q # r => request'[q] = request[q]
  <2> HIDE DEF t
  <2>1. request \in [Requests -> {Idle} \cup Transaction]
    BY DEF TypeOK
  <2>2. t.pc = p /\ t.target = u
    BY DEF t
  <2> QED BY <1>2, <1>3, <2>1, <2>2
<1>5. /\ creator' = creator /\ member' = member /\ versions' = versions /\ keys' = keys
      /\ events' = events /\ initial' = initial /\ revoked' = revoked
  BY DEF Begin, chat
<1> HIDE DEF t
<1>6. TypeOK'
  BY <1>1, <1>4, <1>5 DEF TypeOK
<1>7. Unfounded' /\ VersionsInCommitOrder' /\ KeysMatch'
  BY <1>5 DEF Unfounded, VersionsInCommitOrder, KeysMatch
<1>8. Rotations' /\ Joins' /\ Departs'
  BY <1>4, <1>5 DEF Rotations, Joins, Departs, Joining, At
<1> QED BY <1>6, <1>7, <1>8
-----------------------------------------------------------------------------
(* The steps that change the chat                                          *)

LEMMA CreateGroupKeeps ==
  ASSUME IInv, NEW u \in Users, NEW others \in SUBSET Users, CreateGroup(u, others)
  PROVE  IInv'
<1> USE DEF IInv
<1>1. /\ creator = None /\ creator' = u /\ initial' = others \cup {u}
      /\ member' = [v \in Users |-> IF v \in others \cup {u} THEN "active" ELSE "none"]
      /\ versions' = <<[version |-> 1, secret |-> 0]>>
      /\ events' = [events EXCEPT !["chat.created"] = @ + 1]
      /\ keys' = keys /\ revoked' = revoked /\ request' = request /\ started' = started
  BY DEF CreateGroup, Emit
<1>2. keys = {} /\ \A r \in Requests : request[r].pc = "idle"
  BY <1>1 DEF Unfounded, Idle
<1>3. u # None
  BY NoneAssumption
<1>4. events' \in [EventTypes -> Nat]
  BY <1>1 DEF TypeOK, EventTypes
<1>5. versions' \in Seq([version : Nat, secret : Nat]) /\ versions' # <<>>
  BY <1>1
<1>6. TypeOK'
  BY <1>1, <1>3, <1>4, <1>5 DEF TypeOK
<1>7. Unfounded' /\ KeysMatch'
  BY <1>1, <1>2, <1>3 DEF Unfounded, KeysMatch
<1>8. VersionsInCommitOrder'
  BY <1>1 DEF VersionsInCommitOrder
<1>9. Rotations' /\ Joins' /\ Departs'
  BY <1>1, <1>2 DEF Rotations, Joins, Departs, Joining, At
<1> QED BY <1>6, <1>7, <1>8, <1>9

\* What committing a rotation does, with its request spelt out.
LEMMA AddCommitsEffect ==
  ASSUME IInv, NEW r \in Requests, AddCommits(r)
  PROVE  /\ request[r] \in Transaction /\ At(r, "add_commit") /\ creator # None
         /\ request[r].version = Len(versions) + 1
         /\ member[request[r].target] = "none" /\ request[r].target \in Users
         /\ member' = [member EXCEPT ![request[r].target] = "active"]
         /\ versions' = Append(versions, [version |-> request[r].version,
                                          secret |-> request[r].secret])
         /\ keys' = keys \cup {[device |-> d, version |-> request[r].version,
                                secret |-> request[r].secret] : d \in request[r].upload}
         /\ events' = [events EXCEPT !["group.member_added"] = @ + 1]
         /\ creator' = creator /\ revoked' = revoked /\ initial' = initial /\ started' = started
<1>1. At(r, "add_commit") /\ request[r] \in Transaction
  BY Busy DEF IInv, AddCommits, At
<1>2. creator # None
  BY <1>1 DEF IInv, Unfounded, At, Idle
<1>3. request[r].version = Len(versions) + 1
  BY <1>1 DEF IInv, Rotations
<1>4. member[request[r].target] = "none"
  BY <1>1 DEF IInv, Joins, Joining, At
<1>5. request[r].target \in Users
  BY <1>1 DEF Transaction
<1> QED BY <1>1, <1>2, <1>3, <1>4, <1>5 DEF AddCommits, Emit

LEMMA AddCommitsKeeps ==
  ASSUME IInv, NEW r \in Requests, AddCommits(r)
  PROVE  IInv'
<1> USE DEF IInv
<1> PICK q \in Transaction : q = request[r]
  BY AddCommitsEffect
<1>1. /\ At(r, "add_commit") /\ creator # None
      /\ q.version = Len(versions) + 1
      /\ member[q.target] = "none"
      /\ member' = [member EXCEPT ![q.target] = "active"]
      /\ versions' = Append(versions, [version |-> q.version, secret |-> q.secret])
      /\ keys' = keys \cup {[device |-> d, version |-> q.version, secret |-> q.secret] : d \in q.upload}
      /\ events' = [events EXCEPT !["group.member_added"] = @ + 1]
      /\ creator' = creator /\ revoked' = revoked /\ initial' = initial /\ started' = started
  BY AddCommitsEffect
<1>2. /\ q.target \in Users /\ q.upload \subseteq Devices /\ q.version \in Nat /\ q.secret \in Nat
      /\ request[r].target = q.target
  BY DEF Transaction
<1>3. /\ request' \in [Requests -> {Idle} \cup Transaction]
      /\ request'[r] = Idle /\ request'[r].pc = "idle"
      /\ \A s \in Requests : s # r => request'[s] = request[s]
  BY EndIdles DEF AddCommits, Idle
<1>4. /\ versions \in Seq([version : Nat, secret : Nat]) /\ Len(versions) \in Nat
      /\ versions' \in Seq([version : Nat, secret : Nat]) /\ Len(versions') = Len(versions) + 1
      /\ \A i \in 1..Len(versions) : versions'[i] = versions[i]
      /\ versions'[Len(versions) + 1] = [version |-> q.version, secret |-> q.secret]
  BY <1>1, <1>2 DEF TypeOK
<1>5. TypeOK'
  <2>1. member' \in [Users -> {"none", "active", "left"}]
    BY <1>1, <1>2 DEF TypeOK
  <2>2. events' \in [EventTypes -> Nat]
    BY <1>1 DEF TypeOK, EventTypes
  <2>3. keys' \subseteq [device : Devices, version : Nat, secret : Nat]
    BY <1>1, <1>2 DEF TypeOK
  <2>4. versions' # <<>>
    BY <1>4
  <2> QED BY <1>1, <1>3, <1>4, <2>1, <2>2, <2>3, <2>4 DEF TypeOK
<1>6. Unfounded'
  BY <1>1 DEF Unfounded
<1>7. VersionsInCommitOrder'
  BY <1>1, <1>4 DEF VersionsInCommitOrder
<1>8. Rotations'
  \* No other request holds an inserted number, so none is one behind now.
  BY <1>1, <1>3, <1>4 DEF Rotations, At
<1>9. KeysMatch'
  <2>1. DOMAIN versions = 1..Len(versions) /\ DOMAIN versions' = 1..Len(versions')
    BY <1>4
  <2> SUFFICES ASSUME NEW k \in keys'
               PROVE  k.version \in 1..Len(versions') /\ versions'[k.version].secret = k.secret
    BY <2>1 DEF KeysMatch
  <2>2. CASE k \in keys
    <3>1. k.version \in 1..Len(versions) /\ versions[k.version].secret = k.secret
      BY <2>1, <2>2 DEF KeysMatch
    <3>2. versions'[k.version] = versions[k.version]
      BY <3>1, <1>4
    <3> QED BY <3>1, <3>2, <1>4
  <2>3. CASE k \notin keys
    <3>1. k.version = q.version /\ k.secret = q.secret
      BY <1>1, <2>3
    <3> QED BY <3>1, <1>1, <1>4
  <2> QED BY <2>2, <2>3
<1>10. Joins'
  <2>1. \A s \in Requests : s # r /\ Joining(s) =>
          request[s].target \in Users /\ request[s].target # q.target
    <3> SUFFICES ASSUME NEW s \in Requests, s # r, Joining(s)
                 PROVE  request[s].target \in Users /\ request[s].target # q.target
      OBVIOUS
    <3>1. request[s] \in Transaction
      BY Busy DEF Joining
    <3>2. Joining(r)
      BY <1>1 DEF Joining, At
    <3> QED BY <3>1, <3>2, <1>2 DEF Joins, Transaction
  <2>2. \A u \in Users : u # q.target => member'[u] = member[u]
    BY <1>1, <1>2 DEF TypeOK
  <2>3. ASSUME NEW s \in Requests, Joining(s)'
        PROVE  s # r /\ Joining(s) /\ request'[s] = request[s]
    BY <2>3, <1>3 DEF Joining
  <2>4. ASSUME NEW s \in Requests, Joining(s)' PROVE member'[request'[s].target] = "none"
    <3>1. member[request[s].target] = "none"
      BY <2>3, <2>4 DEF Joins
    <3> QED BY <3>1, <2>1, <2>2, <2>3, <2>4
  <2>5. ASSUME NEW s \in Requests, NEW t \in Requests, Joining(s)', Joining(t)',
               request'[s].target = request'[t].target
        PROVE  s = t
    <3>1. Joining(s) /\ Joining(t) /\ request[s].target = request[t].target
      BY <2>3, <2>5
    <3> QED BY <3>1 DEF Joins
  <2> QED BY <2>4, <2>5 DEF Joins
<1>11. Departs'
  <2> SUFFICES ASSUME NEW s \in Requests, request'[s].pc \in {"remove_commit", "leave_commit"}
               PROVE  member'[request'[s].target] # "none"
    BY DEF Departs
  <2>1. request'[s] = request[s]
    BY <1>3
  <2>2. request[s].target \in Users
    BY <2>1, Busy DEF Transaction
  <2>3. member[request[s].target] # "none"
    BY <2>1 DEF Departs
  <2> QED BY <2>1, <2>2, <2>3, <1>1, <1>2 DEF TypeOK
<1> QED BY <1>5, <1>6, <1>7, <1>8, <1>9, <1>10, <1>11

\* Removing or leaving turns one member row to "left".
LEMMA DepartKeeps ==
  ASSUME IInv, NEW r \in Requests, request[r].pc \in {"remove_commit", "leave_commit"},
         member' = [member EXCEPT ![request[r].target] = "left"], End(r),
         events' \in [EventTypes -> Nat],
         UNCHANGED <<creator, versions, keys, revoked, initial, started>>
  PROVE  IInv'
<1> USE DEF IInv
<1> PICK u \in Users : u = request[r].target
  BY Busy DEF Transaction
<1>1. member' = [member EXCEPT ![u] = "left"] /\ member[u] # "none" /\ creator # None
  BY DEF Departs, Unfounded, Idle
<1>2. /\ request' \in [Requests -> {Idle} \cup Transaction]
      /\ request'[r] = Idle /\ request'[r].pc = "idle"
      /\ \A q \in Requests : q # r => request'[q] = request[q]
  BY EndIdles DEF Idle
<1>3. TypeOK'
  BY <1>1, <1>2 DEF TypeOK
<1>4. Unfounded' /\ VersionsInCommitOrder' /\ KeysMatch'
  BY <1>1 DEF Unfounded, VersionsInCommitOrder, KeysMatch
<1>5. Rotations'
  BY <1>2 DEF Rotations, At
<1>6. \A s \in Requests : request'[s].pc # "idle" =>
        request'[s] = request[s] /\ request[s].target \in Users
  <2> SUFFICES ASSUME NEW s \in Requests, request'[s].pc # "idle"
               PROVE  request'[s] = request[s] /\ request[s].target \in Users
    OBVIOUS
  <2>1. request'[s] = request[s]
    BY <1>2
  <2> QED BY <2>1, Busy DEF Transaction
<1>7. \A v \in Users : member'[v] = (IF v = u THEN "left" ELSE member[v])
  BY <1>1 DEF TypeOK
<1>8. Joins'
  <2>1. ASSUME NEW s \in Requests, Joining(s)'
        PROVE  Joining(s) /\ request'[s] = request[s] /\ request[s].target \in Users
    BY <2>1, <1>6 DEF Joining
  <2>2. ASSUME NEW s \in Requests, Joining(s)' PROVE member'[request'[s].target] = "none"
    <3>1. member[request[s].target] = "none"
      BY <2>1, <2>2 DEF Joins
    <3> QED BY <3>1, <1>1, <1>7, <2>1, <2>2
  <2>3. ASSUME NEW s \in Requests, NEW t \in Requests, Joining(s)', Joining(t)',
               request'[s].target = request'[t].target
        PROVE  s = t
    <3>1. Joining(s) /\ Joining(t) /\ request[s].target = request[t].target
      BY <2>1, <2>3
    <3> QED BY <3>1 DEF Joins
  <2> QED BY <2>2, <2>3 DEF Joins
<1>9. Departs'
  <2> SUFFICES ASSUME NEW s \in Requests, request'[s].pc \in {"remove_commit", "leave_commit"}
               PROVE  member'[request'[s].target] # "none"
    BY DEF Departs
  <2>1. request'[s] = request[s] /\ request[s].target \in Users
    BY <1>6
  <2>2. member[request[s].target] # "none"
    BY <2>1 DEF Departs
  <2> QED BY <2>1, <2>2, <1>7
<1> QED BY <1>3, <1>4, <1>5, <1>8, <1>9

-----------------------------------------------------------------------------
\* A request that checks something and then goes on or ends.
LEMMA ProceedKeeps ==
  ASSUME IInv, NEW r \in Requests, request[r].pc # "idle", NEW p \in PCs, NEW ok \in BOOLEAN,
         Proceed(r, ok, p),
         ok /\ p = "add_commit" => /\ request[r].version = Len(versions) + 1
                                   /\ \A q \in Requests : ~At(q, "add_commit"),
         p # "insert_version",
         ok /\ p \in {"read_version", "add_commit"} =>
           \/ Joining(r)
           \/ /\ member[request[r].target] = "none"
              /\ \A q \in Requests : Joining(q) => request[q].target # request[r].target,
         ok /\ p \in {"remove_commit", "leave_commit"} => member[request[r].target] # "none"
  PROVE  IInv'
<1>1. CASE ok
  BY <1>1, StepKeeps DEF Proceed
<1>2. CASE ~ok
  BY <1>2, EndKeeps DEF Proceed
<1> QED BY <1>1, <1>2

\* Reading the maximum: the number computed is one past the last.
LEMMA ReadsVersionKeeps ==
  ASSUME IInv, NEW r \in Requests, AddReadsVersion(r)
  PROVE  IInv'
<1> USE DEF IInv
<1> PICK q \in Transaction : q = request[r]
  BY Busy DEF AddReadsVersion, At
<1>1. /\ At(r, "read_version") /\ creator # None
      /\ MaxVersion = Len(versions) /\ Len(versions) \in Nat
  BY MaxIsLast DEF AddReadsVersion, At, Unfounded, Idle, TypeOK
<1>2. PICK n \in Nat : n = Len(versions) + 1
  BY <1>1
<1>3. /\ request' \in [Requests -> {Idle} \cup Transaction]
      /\ request'[r].pc = "insert_version"
      /\ request'[r].version = n
      /\ request'[r].target = request[r].target
      /\ \A s \in Requests : s # r => request'[s] = request[s]
  <2>1. PICK t \in Transaction :
          /\ t.pc = "insert_version" /\ t.version = n /\ t.target = q.target
          /\ t = [q EXCEPT !.pc = "insert_version", !.version = n]
    BY DEF Transaction
  <2>2. request' = [request EXCEPT ![r] = [request[r] EXCEPT !.pc = "insert_version", !.version = n]]
    BY <1>1, <1>2 DEF AddReadsVersion, TypeOK
  <2>3. request' = [request EXCEPT ![r] = t]
    BY <2>1, <2>2
  <2> QED BY <2>1, <2>3 DEF TypeOK
<1>4. /\ creator' = creator /\ member' = member /\ versions' = versions /\ keys' = keys
      /\ events' = events /\ initial' = initial /\ revoked' = revoked /\ started' = started
  BY DEF AddReadsVersion, chat
<1>5. TypeOK'
  BY <1>3, <1>4 DEF TypeOK
<1>6. Unfounded' /\ VersionsInCommitOrder' /\ KeysMatch'
  BY <1>1, <1>4 DEF Unfounded, VersionsInCommitOrder, KeysMatch
<1>7. Rotations'
  BY <1>1, <1>2, <1>3, <1>4 DEF Rotations, At
<1>8. Joins'
  BY <1>1, <1>3, <1>4 DEF Joins, Joining, At
<1>9. Departs'
  BY <1>3, <1>4 DEF Departs
<1> QED BY <1>5, <1>6, <1>7, <1>8, <1>9

\* Every step of the module preserves the invariant.
THEOREM StepIInv == IInv /\ [Next]_vars => IInv'
<1> SUFFICES ASSUME IInv, [Next]_vars PROVE IInv'
  OBVIOUS
<1>1. ASSUME NEW u \in Users, NEW others \in SUBSET Users, CreateGroup(u, others) PROVE IInv'
  BY <1>1, CreateGroupKeeps
<1>2. ASSUME NEW r \in Requests, NEW actor \in Users, NEW target \in Users,
             NEW upload \in SUBSET Devices, AddChecksAdmin(r, actor, target, upload)
      PROVE  IInv'
  BY <1>2, BeginKeeps, NoneAssumption DEF AddChecksAdmin, IsAdmin
<1>3. ASSUME NEW r \in Requests, NEW actor \in Users, NEW target \in Users,
             RemoveChecksAdmin(r, actor, target)
      PROVE  IInv'
  BY <1>3, BeginKeeps, NoneAssumption DEF RemoveChecksAdmin, IsAdmin
<1>4. ASSUME NEW r \in Requests, NEW u \in Users, LeaveReads(r, u) PROVE IInv'
  <2>1. creator # None
    BY <1>4 DEF LeaveReads, IInv, Unfounded
  <2> QED BY <1>4, <2>1, BeginKeeps DEF LeaveReads
<1>5. ASSUME NEW r \in Requests, AddFindsTarget(r) PROVE IInv'
  BY <1>5, ProceedKeeps DEF AddFindsTarget, At, PCs
<1>6. ASSUME NEW r \in Requests, AddInsertsMember(r) PROVE IInv'
  <2>1. \A q \in Requests : Joining(q) => request[q].target # request[r].target
    BY <1>6 DEF AddInsertsMember, RowPending, Joining
  <2> QED BY <1>6, <2>1, ProceedKeeps DEF AddInsertsMember, At, PCs
<1>7. ASSUME NEW r \in Requests, AddReadsVersion(r) PROVE IInv'
  BY <1>7, ReadsVersionKeeps
<1>8. ASSUME NEW r \in Requests, AddInsertsVersion(r) PROVE IInv'
  <2>1. request[r].version \in 1..Len(versions) + 1 /\ At(r, "insert_version")
    BY <1>8 DEF IInv, Rotations, AddInsertsVersion
  <2>2. Numbers = 1..Len(versions) /\ Len(versions) \in Nat
    BY MaxIsLast DEF IInv, TypeOK
  <2>3. request[r].version \notin Numbers => request[r].version = Len(versions) + 1
    BY <2>1, <2>2
  <2>4. request[r].version \notin Numbers => \A q \in Requests : ~At(q, "add_commit")
    BY <1>8, <2>3 DEF AddInsertsVersion, VersionPending, IInv, Rotations
  <2>5. Joining(r)
    BY <2>1 DEF Joining, At
  <2> QED BY <1>8, <2>1, <2>3, <2>4, <2>5, ProceedKeeps DEF AddInsertsVersion, At, PCs
<1>9. ASSUME NEW r \in Requests, AddCommits(r) PROVE IInv'
  BY <1>9, AddCommitsKeeps
<1>10. ASSUME NEW r \in Requests, RemoveFindsTarget(r) PROVE IInv'
  BY <1>10, ProceedKeeps DEF RemoveFindsTarget, At, PCs
<1>11. ASSUME NEW r \in Requests, RemoveCommits(r) PROVE IInv'
  <2>1. events' \in [EventTypes -> Nat]
    BY <1>11 DEF RemoveCommits, Emit, IInv, TypeOK, EventTypes
  <2> QED BY <1>11, <2>1, DepartKeeps DEF RemoveCommits, At
<1>12. ASSUME NEW r \in Requests, LeaveCommits(r) PROVE IInv'
  <2>1. events' \in [EventTypes -> Nat]
    BY <1>12 DEF LeaveCommits, IInv, TypeOK
  <2> QED BY <1>12, <2>1, DepartKeeps DEF LeaveCommits, At
<1>13. ASSUME NEW r \in Requests, RollsBack(r) PROVE IInv'
  BY <1>13, EndKeeps DEF RollsBack
<1>14. ASSUME NEW d \in Devices, DeviceRevoked(d) PROVE IInv'
  BY <1>14 DEF DeviceRevoked, chat, IInv, TypeOK, Unfounded, VersionsInCommitOrder, Rotations,
               KeysMatch, Joins, Departs, Joining, At
<1>15. ASSUME UNCHANGED vars PROVE IInv'
  BY <1>15 DEF vars, IInv, TypeOK, Unfounded, VersionsInCommitOrder, Rotations,
               KeysMatch, Joins, Departs, Joining, At
<1> QED BY <1>1, <1>2, <1>3, <1>4, <1>5, <1>6, <1>7, <1>8, <1>9, <1>10, <1>11, <1>12, <1>13,
           <1>14, <1>15 DEF Next, Refused

-----------------------------------------------------------------------------
(* The theorems                                                            *)

\* IInv holds in every reachable state.
THEOREM GroupsInvariant == Spec => []IInv
<1>1. Init => IInv
  BY InitIInv
<1>2. IInv /\ [Next]_vars => IInv'
  BY StepIInv
<1> QED BY <1>1, <1>2, PTL DEF Spec

\* Every variable keeps its type, for any number of users, devices and requests.
THEOREM GroupsTypeCorrect == Spec => []TypeOK
<1>1. IInv => TypeOK
  BY DEF IInv
<1> QED BY <1>1, GroupsInvariant, PTL

\* Rotations of any number of overlapping add_member requests are numbered
\* 1, 2, 3, ... in the order they commit.
THEOREM GroupsVersionsInCommitOrder == Spec => []VersionsInCommitOrder
<1>1. IInv => VersionsInCommitOrder
  BY DEF IInv
<1> QED BY <1>1, GroupsInvariant, PTL

\* A version number names one group key: no device keeps a key of a rotation
\* that was rolled back or overtaken by another.
THEOREM GroupsOneSecretPerVersion == Spec => []OneSecretPerVersion
<1>1. IInv => OneSecretPerVersion
  <2> SUFFICES ASSUME IInv, NEW k \in keys, NEW i \in DOMAIN versions,
                      versions[i].version = k.version
               PROVE  versions[i].secret = k.secret
    BY DEF OneSecretPerVersion
  <2>1. i = k.version
    BY DEF IInv, VersionsInCommitOrder
  <2> QED BY <2>1 DEF IInv, KeysMatch
<1> QED BY <1>1, GroupsInvariant, PTL

\* Whoever left or was removed is never a member again, whatever requests
\* that add, remove and leave overlap.
THEOREM GroupsFormerMembersStayOut == Spec => FormerMembersStayOut
<1>1. IInv /\ [Next]_vars => [\A u \in Users : member[u] = "left" => member'[u] = "left"]_vars
  <2> SUFFICES ASSUME IInv, Next, NEW u \in Users, member[u] = "left"
               PROVE  member'[u] = "left"
    OBVIOUS
  <2>1. member \in [Users -> {"none", "active", "left"}]
    BY DEF IInv, TypeOK
  <2>2. ASSUME NEW r \in Requests, AddCommits(r) PROVE member'[u] = "left"
    BY <2>1, <2>2, AddCommitsEffect
  <2>3. ASSUME NEW r \in Requests, RemoveCommits(r) \/ LeaveCommits(r)
        PROVE  member'[u] = "left"
    BY <2>1, <2>3 DEF RemoveCommits, LeaveCommits
  <2>4. ASSUME NEW v \in Users, NEW others \in SUBSET Users, CreateGroup(v, others)
        PROVE  FALSE
    BY <2>4 DEF CreateGroup, IInv, Unfounded
  <2>5. CASE UNCHANGED member
    BY <2>5
  <2> QED BY <2>2, <2>3, <2>4, <2>5
      DEF Next, AddChecksAdmin, RemoveChecksAdmin, LeaveReads, Begin, chat, AddFindsTarget,
          AddInsertsMember, AddReadsVersion, AddInsertsVersion, Proceed, RemoveFindsTarget,
          DeviceRevoked, RollsBack, Refused, vars
<1> QED BY <1>1, GroupsInvariant, PTL DEF Spec, FormerMembersStayOut

-----------------------------------------------------------------------------
(* Counting the members                                                    *)

Added == {u \in Users : member[u] # "none"} \ initial

\* AddedWithRotation, with what makes it inductive: the first members stay
\* known, and those added later are finitely many.
Counted ==
  /\ creator = None => events["group.member_added"] = 0
  /\ creator # None => /\ \A u \in initial : member[u] # "none"
                       /\ IsFiniteSet(Added)
                       /\ Len(versions) = 1 + Cardinality(Added)
                       /\ events["group.member_added"] = Cardinality(Added)

\* The counts do not change while the members, by name, do not.
LEMMA CountedStays ==
  ASSUME Counted, UNCHANGED <<creator, versions, initial>>,
         events'["group.member_added"] = events["group.member_added"],
         \A u \in Users : member'[u] # "none" <=> member[u] # "none",
         initial \subseteq Users
  PROVE  Counted'
<1>1. Added' = Added
  BY DEF Added
<1> QED BY <1>1 DEF Counted

\* The commit of add_member counts one more member, version and event.
LEMMA CountedGrows ==
  ASSUME IInv, Counted, NEW r \in Requests, AddCommits(r)
  PROVE  Counted'
<1> PICK u \in Users : u = request[r].target
  BY AddCommitsEffect
<1>1. /\ creator # None /\ creator' = creator /\ initial' = initial
      /\ member[u] = "none" /\ member' = [member EXCEPT ![u] = "active"]
      /\ events' = [events EXCEPT !["group.member_added"] = @ + 1]
  BY AddCommitsEffect
<1>2. Len(versions') = Len(versions) + 1
  <2>1. PICK q \in Transaction :
          versions' = Append(versions, [version |-> q.version, secret |-> q.secret])
    BY AddCommitsEffect
  <2>2. versions \in Seq([version : Nat, secret : Nat])
    BY DEF IInv, TypeOK
  <2>3. [version |-> q.version, secret |-> q.secret] \in [version : Nat, secret : Nat]
    BY DEF Transaction
  <2> QED BY <2>1, <2>2, <2>3
<1>3. events'["group.member_added"] = events["group.member_added"] + 1
  BY <1>1 DEF IInv, TypeOK, EventTypes
<1>4. \A v \in Users : member'[v] # "none" <=> v = u \/ member[v] # "none"
  BY <1>1 DEF IInv, TypeOK
<1>5. initial \subseteq Users /\ u \notin initial /\ u \notin Added
  BY <1>1 DEF IInv, TypeOK, Counted, Added
<1>6. Added' = Added \cup {u}
  BY <1>1, <1>4, <1>5 DEF Added
<1>7. /\ IsFiniteSet(Added') /\ Cardinality(Added) \in Nat
      /\ Cardinality(Added') = Cardinality(Added) + 1
  BY <1>1, <1>5, <1>6, FS_AddElement, FS_CardinalityType DEF Counted
<1>8. \A v \in initial' : member'[v] # "none"
  BY <1>1, <1>4, <1>5 DEF Counted
<1> QED BY <1>1, <1>2, <1>3, <1>7, <1>8 DEF Counted

LEMMA StepCounted == IInv /\ Counted /\ [Next]_vars => Counted'
<1> SUFFICES ASSUME IInv, Counted, [Next]_vars PROVE Counted'
  OBVIOUS
<1>1. initial \subseteq Users /\ events \in [EventTypes -> Nat]
      /\ member \in [Users -> {"none", "active", "left"}]
  BY DEF IInv, TypeOK
<1>2. ASSUME NEW u \in Users, NEW others \in SUBSET Users, CreateGroup(u, others) PROVE Counted'
  <2>1. /\ creator = None /\ creator' = u /\ initial' = others \cup {u}
        /\ member' = [v \in Users |-> IF v \in others \cup {u} THEN "active" ELSE "none"]
        /\ versions' = <<[version |-> 1, secret |-> 0]>>
        /\ events' = [events EXCEPT !["chat.created"] = @ + 1]
    BY <1>2 DEF CreateGroup, Emit
  <2>2. Added' = {} /\ \A v \in initial' : member'[v] # "none"
    BY <2>1 DEF Added
  <2>3. events'["group.member_added"] = 0
    BY <1>1, <2>1 DEF EventTypes, Counted
  <2>4. Len(versions') = 1 /\ u # None
    BY <2>1, NoneAssumption
  <2> QED BY <2>1, <2>2, <2>3, <2>4, FS_EmptySet DEF Counted
<1>3. ASSUME NEW r \in Requests, AddCommits(r) PROVE Counted'
  BY <1>3, CountedGrows
<1>4. ASSUME NEW r \in Requests, RemoveCommits(r) \/ LeaveCommits(r) PROVE Counted'
  <2> PICK u \in Users : u = request[r].target /\ member[u] # "none"
    BY <1>4, Busy DEF RemoveCommits, LeaveCommits, At, IInv, Departs, Transaction
  <2>1. /\ member' = [member EXCEPT ![u] = "left"]
        /\ UNCHANGED <<creator, versions, initial>>
        /\ events'["group.member_added"] = events["group.member_added"]
    BY <1>1, <1>4 DEF RemoveCommits, LeaveCommits, Emit, EventTypes
  <2>2. \A v \in Users : member'[v] # "none" <=> member[v] # "none"
    BY <1>1, <2>1
  <2> QED BY <1>1, <2>1, <2>2, CountedStays
<1>5. CASE UNCHANGED chat
  BY <1>1, <1>5, CountedStays DEF chat
<1> QED BY <1>2, <1>3, <1>4, <1>5
    DEF Next, AddChecksAdmin, RemoveChecksAdmin, LeaveReads, Begin, chat, AddFindsTarget,
        AddInsertsMember, AddReadsVersion, AddInsertsVersion, Proceed, RemoveFindsTarget,
        DeviceRevoked, RollsBack, Refused, vars

\* However many requests overlap or are rolled back, everyone who was added
\* after the creation has brought exactly one key version and one event.
THEOREM GroupsAddedWithRotation == Spec => []AddedWithRotation
<1>1. Init => Counted
  BY DEF Init, Counted, EventTypes
<1>2. IInv /\ Counted /\ [Next]_vars => Counted'
  BY StepCounted
<1>3. Counted => AddedWithRotation
  BY DEF Counted, Added, AddedWithRotation
<1> QED BY <1>1, <1>2, <1>3, GroupsInvariant, PTL DEF Spec
=============================================================================
