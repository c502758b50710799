------------------------------- MODULE Groups -------------------------------
(***************************************************************************)
(* One group chat: its members and its group-key versions, as changed by   *)
(* create_group, add_member, remove_member and leave of                    *)
(* backend/app/modules/chats/service.py.                                   *)
(*                                                                         *)
(* Requests are transactions split as in Messages and Sessions: reads see  *)
(* the committed state of their moment, an INSERT waits for an uncommitted *)
(* one of the same unique key, and an exception undoes the whole request.  *)
(* (remove_member and leave update a row by its primary key to the same    *)
(* effect whoever comes first, so their row lock is left out.)             *)
(***************************************************************************)
EXTENDS Naturals, Sequences, FiniteSets

CONSTANTS Users, Devices,
          Owner,        \* Owner[d]: the user of device d
          Requests,     \* request slots of the server
          MaxRequests,  \* bound on requests
          None

ASSUME OwnerAssumption == Owner \in [Devices -> Users]
ASSUME BoundAssumption == MaxRequests \in Nat
ASSUME NoneAssumption == None \notin Users

VARIABLES
  creator,  \* the member with role owner (no code gives a role later), or None
  member,   \* member[u]: u's chat_members row: none, active, or left (left_at set)
  versions, \* chat_key_versions rows in commit order
  keys,     \* group_message_keys rows of rotations
  events,   \* events[t]: committed outbox events of type t
  revoked,  \* devices that are not active
  request,  \* request[r]: the transaction running in slot r
  initial,  \* users added by create_group  (history)
  started   \* requests so far

vars == <<creator, member, versions, keys, events, revoked, request, initial, started>>
chat == <<creator, member, versions, keys, events, initial>>

EventTypes == {"chat.created", "group.member_added", "group.member_removed"}
Idle == [pc |-> "idle"]

\* "secret" stands for the group key that the client of the request made up
\* and encrypted for the devices in "upload".
Transaction ==
  [pc : {"find_new_member", "insert_member", "read_version", "insert_version", "add_commit",
         "find_member", "remove_commit", "leave_commit"},
   target : Users, upload : SUBSET Devices, version : Nat, secret : Nat]

TypeOK ==
  /\ creator \in Users \cup {None}
  /\ member \in [Users -> {"none", "active", "left"}]
  /\ versions \in Seq([version : Nat, secret : Nat])
  /\ keys \subseteq [device : Devices, version : Nat, secret : Nat]
  /\ events \in [EventTypes -> Nat]
  /\ revoked \subseteq Devices
  /\ request \in [Requests -> {Idle} \cup Transaction]
  /\ initial \subseteq Users
  /\ started \in 0..MaxRequests
  /\ creator = None <=> versions = <<>>

Init ==
  /\ creator = None
  /\ member = [u \in Users |-> "none"]
  /\ versions = <<>>
  /\ keys = {}
  /\ events = [t \in EventTypes |-> 0]
  /\ revoked = {}
  /\ request = [r \in Requests |-> Idle]
  /\ initial = {}
  /\ started = 0

-----------------------------------------------------------------------------
Begin(r, pc, target, upload) ==
  /\ request[r] = Idle
  /\ started < MaxRequests
  /\ started' = started + 1
  /\ request' = [request EXCEPT ![r] = [pc |-> pc, target |-> target, upload |-> upload,
                                        version |-> 0, secret |-> started + 1]]
  /\ UNCHANGED <<chat, revoked>>

At(r, pc) == request[r].pc = pc
End(r) == request' = [request EXCEPT ![r] = Idle]
Goto(r, pc) == request' = [request EXCEPT ![r].pc = pc]
Proceed(r, ok, pc) == /\ IF ok THEN Goto(r, pc) ELSE End(r)
                      /\ UNCHANGED <<chat, revoked, started>>

Emit(type) == events' = [events EXCEPT ![type] = @ + 1]

\* DEFECT (mutant): the group is created without its first key version.
CreateGroupUnversioned(u, others) ==
  /\ creator = None
  /\ creator' = u
  /\ initial' = others \cup {u}
  /\ member' = [v \in Users |-> IF v \in others \cup {u} THEN "active" ELSE "none"]
  /\ Emit("chat.created")
  /\ UNCHANGED <<versions, keys, revoked, request, started>>

\* create_group by u: members, key version 1 and the event in one commit.  No
\* group key exists yet; clients encrypt one with the first message.
CreateGroup(u, others) ==
  /\ creator = None
  /\ creator' = u
  /\ initial' = others \cup {u}
  /\ member' = [v \in Users |-> IF v \in others \cup {u} THEN "active" ELSE "none"]
  /\ versions' = <<[version |-> 1, secret |-> 0]>>
  /\ Emit("chat.created")
  /\ UNCHANGED <<keys, revoked, request, started>>

\* _assert_admin: get_member sees rows with left_at null.
IsAdmin(u) == u = creator /\ member[u] = "active"

-----------------------------------------------------------------------------
(* add_member                                                              *)

AddChecksAdmin(r, actor, target, upload) ==
  /\ IsAdmin(actor)
  /\ Begin(r, "find_new_member", target, upload)

\* An active member answers 409.
AddFindsTarget(r) ==
  /\ At(r, "find_new_member")
  /\ Proceed(r, member[request[r].target] # "active", "insert_member")

\* The member row of u is inserted and not committed.
RowPending(u) ==
  \E q \in Requests : /\ request[q].pc \in {"read_version", "insert_version", "add_commit"}
                      /\ request[q].target = u

\* DEFECT (mutant): the row of a former member is reactivated instead.
AddReactivatesMember(r) ==
  /\ At(r, "insert_member")
  /\ ~RowPending(request[r].target)
  /\ Proceed(r, TRUE, "read_version")

\* UNIQUE(chat_id, user_id) counts the rows of those who left: a former
\* member's INSERT fails.
AddInsertsMember(r) ==
  /\ At(r, "insert_member")
  /\ ~RowPending(request[r].target)
  /\ Proceed(r, member[request[r].target] = "none", "read_version")

Numbers == {versions[i].version : i \in DOMAIN versions}
MaxVersion == CHOOSE n \in Numbers \cup {0} : \A m \in Numbers : m <= n

\* _rotate_group_key: SELECT max(version).
AddReadsVersion(r) ==
  /\ At(r, "read_version")
  /\ request' = [request EXCEPT ![r].pc = "insert_version", ![r].version = MaxVersion + 1]
  /\ UNCHANGED <<chat, revoked, started>>

VersionPending(n) == \E q \in Requests : At(q, "add_commit") /\ request[q].version = n

\* DEFECT (mutant): the table without UNIQUE(chat_id, version).
AddInsertsVersionUnchecked(r) ==
  /\ At(r, "insert_version")
  /\ Proceed(r, TRUE, "add_commit")

\* DEFECT (mutant): a failed rotation is caught, the member is added anyway.
AddSwallowsConflict(r) ==
  /\ At(r, "insert_version")
  /\ ~VersionPending(request[r].version)
  /\ IF request[r].version \notin Numbers
       THEN Goto(r, "add_commit") /\ UNCHANGED <<chat, revoked, started>>
       ELSE /\ member' = [member EXCEPT ![request[r].target] = "active"]
            /\ Emit("group.member_added")
            /\ End(r)
            /\ UNCHANGED <<creator, versions, keys, revoked, initial, started>>

\* The flush of version and keys.  A number that another rotation has taken
\* since fails the request, its member row included.
AddInsertsVersion(r) ==
  /\ At(r, "insert_version")
  /\ ~VersionPending(request[r].version)
  /\ Proceed(r, request[r].version \notin Numbers, "add_commit")

AddCommits(r) ==
  LET q == request[r] IN
  /\ At(r, "add_commit")
  /\ member' = [member EXCEPT ![q.target] = "active"]
  /\ versions' = Append(versions, [version |-> q.version, secret |-> q.secret])
  /\ keys' = keys \cup {[device |-> d, version |-> q.version, secret |-> q.secret] : d \in q.upload}
  /\ Emit("group.member_added")
  /\ End(r)
  /\ UNCHANGED <<creator, revoked, initial, started>>

-----------------------------------------------------------------------------
(* remove_member and leave                                                 *)

RemoveChecksAdmin(r, actor, target) ==
  /\ IsAdmin(actor)
  /\ Begin(r, "find_member", target, {})

RemoveFindsTarget(r) ==
  /\ At(r, "find_member")
  /\ Proceed(r, member[request[r].target] = "active", "remove_commit")

\* The key stays as it is.
RemoveCommits(r) ==
  /\ At(r, "remove_commit")
  /\ member' = [member EXCEPT ![request[r].target] = "left"]
  /\ Emit("group.member_removed")
  /\ End(r)
  /\ UNCHANGED <<creator, versions, keys, revoked, initial, started>>

LeaveReads(r, u) ==
  /\ member[u] = "active"
  /\ Begin(r, "leave_commit", u, {})

\* No event, and no new owner when the owner leaves.
LeaveCommits(r) ==
  /\ At(r, "leave_commit")
  /\ member' = [member EXCEPT ![request[r].target] = "left"]
  /\ End(r)
  /\ UNCHANGED <<creator, versions, keys, events, revoked, initial, started>>

-----------------------------------------------------------------------------
\* DeviceService.revoke commits: nothing of the chat is touched.
DeviceRevoked(d) ==
  /\ d \notin revoked
  /\ revoked' = revoked \cup {d}
  /\ UNCHANGED <<chat, request, started>>

\* The process dies, the connection is lost or the commit fails.
RollsBack(r) ==
  /\ request[r] # Idle
  /\ End(r)
  /\ UNCHANGED <<chat, revoked, started>>

\* A request that a check refuses.
Refused(r) == request[r] = Idle /\ UNCHANGED vars

Next ==
  \/ \E u \in Users, others \in SUBSET Users : CreateGroup(u, others)
  \/ \E r \in Requests, actor, target \in Users :
       \/ \E upload \in SUBSET Devices : AddChecksAdmin(r, actor, target, upload)
       \/ RemoveChecksAdmin(r, actor, target)
  \/ \E r \in Requests, u \in Users : LeaveReads(r, u)
  \/ \E r \in Requests :
       \/ AddFindsTarget(r)
       \/ AddInsertsMember(r)
       \/ AddReadsVersion(r)
       \/ AddInsertsVersion(r)
       \/ AddCommits(r)
       \/ RemoveFindsTarget(r)
       \/ RemoveCommits(r)
       \/ LeaveCommits(r)
       \/ RollsBack(r)
       \/ Refused(r)
  \/ \E d \in Devices : DeviceRevoked(d)

Spec == Init /\ [][Next]_vars

-----------------------------------------------------------------------------
(* Properties                                                              *)

\* Rotations that overlap in any way are numbered 1, 2, 3, ... in the order
\* they commit: no number is skipped, used twice or committed out of order.
VersionsInCommitOrder == \A i \in DOMAIN versions : versions[i].version = i

\* All devices that were given a key for one version by a rotation were given
\* the same group key, the one of the request that created the version.
OneSecretPerVersion ==
  \A k \in keys : \A i \in DOMAIN versions :
    versions[i].version = k.version => versions[i].secret = k.secret

\* Adding a member and rotating the key happen together or not at all: there
\* is one version, and one event, for everyone who was added to the group.
AddedWithRotation ==
  LET added == {u \in Users : member[u] # "none"} \ initial IN
  creator # None =>
    /\ Len(versions) = 1 + Cardinality(added)
    /\ events["group.member_added"] = Cardinality(added)

\* Whoever left or was removed stays out, through overlapping requests that
\* add, remove and leave.
FormerMembersStayOut == [][\A u \in Users : member[u] = "left" => member'[u] = "left"]_vars
=============================================================================
