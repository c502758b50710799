------------------------------ MODULE Messages ------------------------------
(***************************************************************************)
(* The message service of one chat: backend/app/modules/messages/.         *)
(*                                                                         *)
(* Every HTTP request runs in one database transaction (db/session.py      *)
(* get_db: commit at the end, rollback on any exception) at READ COMMITTED *)
(* with autoflush off.  A request is modelled by the statements other      *)
(* requests can be interleaved with: what it reads is the committed state  *)
(* of that moment, what it writes becomes visible when it commits, and the *)
(* unique index on (sender_device_id, client_message_id) blocks an INSERT  *)
(* behind an uncommitted one of the same key.                              *)
(*                                                                         *)
(* Membership and devices change under a running send; the services that   *)
(* change them are modelled only by their effect on this one.              *)
(***************************************************************************)
EXTENDS Naturals, FiniteSets

CONSTANTS Users, Devices,
          Owner,        \* Owner[d]: devices.user_id
          ClientIds,    \* client_message_id values
          MsgIds,       \* primary keys of messages
          Requests,     \* request slots of the server
          MaxReceipts,  \* bound on receipt requests
          None

ASSUME OwnerAssumption == Owner \in [Devices -> Users]
ASSUME ReceiptBound == MaxReceipts \in Nat
ASSUME NoneAssumption == None \notin MsgIds \cup (Devices \X ClientIds)

VARIABLES
  joined,      \* users that have a chat_members row
  members,     \* those of them with left_at null
  device,      \* device[d]: unregistered, active or revoked
  messages,    \* messages[m]: the committed row
  recipients,  \* recipients[m][d]: committed message_recipients.delivery_status
  readAt,      \* pairs <<m, d>> whose read_at is set
  deliveredAt, \* pairs <<m, d>> whose delivered_at is set
  announced,   \* announced[m]: member_user_ids of each message.new event committed for m
  receipts,    \* receipts[<<m, d>>][t]: committed outbox events "message."t of d for m
  request,     \* request[r]: the transaction running in slot r
  acked,       \* pairs <<key, m>>: 201 answers given for a key        (history)
  early,       \* those of them given without a commit so far          (history)
  contended,   \* receipt rows two requests worked on at once          (history)
  started      \* receipt requests so far

vars == <<joined, members, device, messages, recipients, readAt, deliveredAt, announced,
          receipts, request, acked, early, contended, started>>

directory == <<joined, members, device>>
store     == <<messages, recipients, readAt, deliveredAt, announced, receipts>>

Keys == Devices \X ClientIds
Rows == MsgIds \X Devices
DeliveryStatuses == {"none", "pending", "delivered", "read"}
ReceiptTypes == {"delivered", "read"}

NoMessage == [status |-> "absent", key |-> None]
Idle == [pc |-> "idle"]

\* A send in progress: the message it inserted, the members whose devices it
\* still has to list, the rows and the event it has computed so far;
\* "eligible" and "gone" remember what held at its start.
SendRequest ==
  [pc : {"insert", "list", "fanout", "commit"}, key : Keys, msg : MsgIds \cup {None},
   todo : SUBSET Users, rows : SUBSET Devices, audience : SUBSET Users,
   eligible : SUBSET Devices, gone : SUBSET Users]
ReceiptRequest == [pc : {"deliver", "read"}, row : Rows]
DeleteRequest == [pc : {"delete"}, msg : MsgIds]

Sending(r) == request[r].pc \in {"insert", "list", "fanout", "commit"}
Receipting(r) == request[r].pc \in {"deliver", "read"}

TypeOK ==
  /\ joined \subseteq Users /\ members \subseteq joined
  /\ device \in [Devices -> {"unregistered", "active", "revoked"}]
  /\ messages \in [MsgIds -> {NoMessage} \cup [status : {"live", "deleted"}, key : Keys]]
  /\ recipients \in [MsgIds -> [Devices -> DeliveryStatuses]]
  /\ readAt \subseteq Rows /\ deliveredAt \subseteq Rows
  /\ announced \in [MsgIds -> SUBSET SUBSET Users]
  /\ receipts \in [Rows -> [ReceiptTypes -> Nat]]
  /\ request \in [Requests -> {Idle} \cup SendRequest \cup ReceiptRequest \cup DeleteRequest]
  /\ acked \subseteq Keys \X MsgIds /\ early \subseteq acked
  /\ contended \subseteq Rows
  /\ started \in 0..MaxReceipts

ActiveDevices == {d \in Devices : device[d] = "active"}

\* The devices that a send by user u is to address.
EligibleDevices(u) == {d \in ActiveDevices : Owner[d] \in members /\ Owner[d] # u}

Sender(key) == Owner[key[1]]

Init ==
  /\ joined \in (SUBSET Users) \ {{}} /\ members = joined
  /\ device \in [Devices -> {"unregistered", "active"}]
  /\ messages = [m \in MsgIds |-> NoMessage]
  /\ recipients = [m \in MsgIds |-> [d \in Devices |-> "none"]]
  /\ readAt = {} /\ deliveredAt = {}
  /\ announced = [m \in MsgIds |-> {}]
  /\ receipts = [x \in Rows |-> [t \in ReceiptTypes |-> 0]]
  /\ request = [r \in Requests |-> Idle]
  /\ acked = {} /\ early = {}
  /\ contended = {}
  /\ started = 0

-----------------------------------------------------------------------------
(* Changes made by other services while requests run                       *)

\* ChatService.leave or remove_member commits.  (The row keeps the pair
\* (chat_id, user_id), so a former member cannot be added again.)
MemberLeaves(u) ==
  /\ u \in members
  /\ members' = members \ {u}
  /\ UNCHANGED <<joined, device, store, request, acked, early, contended, started>>

\* ChatService.add_member commits.
MemberJoins(u) ==
  /\ u \notin joined
  /\ joined' = joined \cup {u}
  /\ members' = members \cup {u}
  /\ UNCHANGED <<device, store, request, acked, early, contended, started>>

\* DeviceService.register, or the login that adds a device, commits.
DeviceRegistered(d) ==
  /\ device[d] = "unregistered"
  /\ device' = [device EXCEPT ![d] = "active"]
  /\ UNCHANGED <<joined, members, store, request, acked, early, contended, started>>

\* DeviceService.revoke commits.
DeviceRevoked(d) ==
  /\ device[d] = "active"
  /\ device' = [device EXCEPT ![d] = "revoked"]
  /\ UNCHANGED <<joined, members, store, request, acked, early, contended, started>>

-----------------------------------------------------------------------------
(* MessageService.send                                                     *)

Committed(key) == {m \in MsgIds : messages[m].key = key}

\* Message ids in use by committed rows, by uncommitted INSERTs and by
\* clients: uuid4 never repeats one.
UsedIds == {m \in MsgIds : messages[m] # NoMessage}
             \cup {request[r].msg : r \in {q \in Requests : Sending(q)}}
             \cup {a[2] : a \in acked}

\* get_member and exists_by_idempotency.  A former member is refused, a known
\* key is answered with the message stored for it (deleted or not), and
\* otherwise the request goes on to its INSERT.  The access token names a
\* registered device; that it may be revoked by now is not looked at.
SendChecks(r, key) ==
  /\ request[r] = Idle
  /\ device[key[1]] # "unregistered"
  /\ IF Sender(key) \notin members
       THEN UNCHANGED <<request, acked>>
     ELSE IF Committed(key) # {}
       THEN /\ acked' = acked \cup {<<key, m>> : m \in Committed(key)}
            /\ UNCHANGED request
     ELSE /\ request' = [request EXCEPT ![r] =
               [pc |-> "insert", key |-> key, msg |-> None, todo |-> {}, rows |-> {}, audience |-> {},
                eligible |-> EligibleDevices(Sender(key)), gone |-> joined \ members]]
          /\ UNCHANGED acked
  /\ UNCHANGED <<directory, store, early, contended, started>>

\* Another transaction has inserted the key and not ended yet.
KeyHeld(r) ==
  \E q \in Requests \ {r} :
    /\ request[q].pc \in {"list", "fanout", "commit"}
    /\ request[q].key = request[r].key

\* DEFECT (mutant): the table without UniqueConstraint(sender_device_id, client_message_id).
SendInsertsUnchecked(r) ==
  /\ request[r].pc = "insert"
  /\ \E m \in MsgIds \ UsedIds :
       request' = [request EXCEPT ![r].pc = "list", ![r].msg = m]
  /\ UNCHANGED <<directory, store, acked, early, contended, started>>

\* DEFECT (mutant): the violation is caught, and the message that was to be
\* inserted is the answer.
SendInsertsOrAnswers(r) ==
  /\ request[r].pc = "insert"
  /\ ~KeyHeld(r)
  /\ \E m \in MsgIds \ UsedIds :
       IF Committed(request[r].key) # {}
       THEN /\ request' = [request EXCEPT ![r] = Idle]
            /\ acked' = acked \cup {<<request[r].key, m>>}
       ELSE /\ request' = [request EXCEPT ![r].pc = "list", ![r].msg = m]
            /\ UNCHANGED acked
  /\ UNCHANGED <<directory, store, early, contended, started>>

\* MessageRepository.create: the INSERT waits for a transaction that holds the
\* key; if the key is committed by then it raises, and the request ends with
\* an error and nothing written.
SendInserts(r) ==
  /\ request[r].pc = "insert"
  /\ ~KeyHeld(r)
  /\ IF Committed(request[r].key) # {}
       THEN request' = [request EXCEPT ![r] = Idle]
       ELSE \E m \in MsgIds \ UsedIds :
              request' = [request EXCEPT ![r].pc = "list", ![r].msg = m]
  /\ UNCHANGED <<directory, store, acked, early, contended, started>>

\* The first list_members, without the sender.
SendListsMembers(r) ==
  /\ request[r].pc = "list"
  /\ request' = [request EXCEPT ![r].pc = "fanout",
                                ![r].todo = members \ {Sender(request[r].key)}]
  /\ UNCHANGED <<directory, store, acked, early, contended, started>>

ActiveOf(u) == {d \in ActiveDevices : Owner[d] = u}

\* DEFECT (mutant): one device of each other member, as get_latest_device would.
SendFansOutToOneDevice(r, u) ==
  /\ request[r].pc = "fanout" /\ u \in request[r].todo
  /\ LET latest == IF ActiveOf(u) = {} THEN {} ELSE {CHOOSE d \in ActiveOf(u) : TRUE}
     IN  request' = [request EXCEPT ![r].todo = @ \ {u}, ![r].rows = @ \cup latest]
  /\ UNCHANGED <<directory, store, acked, early, contended, started>>

\* list_active of one member after the other: one message_recipients row per
\* device, written with the message.
SendFansOut(r, u) ==
  /\ request[r].pc = "fanout" /\ u \in request[r].todo
  /\ request' = [request EXCEPT ![r].todo = @ \ {u}, ![r].rows = @ \cup ActiveOf(u)]
  /\ UNCHANGED <<directory, store, acked, early, contended, started>>

\* The flush, the second list_members and OutboxService.publish: the event is
\* addressed to the members of this later moment.
SendPublishes(r) ==
  /\ request[r].pc = "fanout" /\ request[r].todo = {}
  /\ request' = [request EXCEPT ![r].pc = "commit", ![r].audience = members]
  /\ UNCHANGED <<directory, store, acked, early, contended, started>>

Answer(r) == <<request[r].key, request[r].msg>>

\* The 201 leaves before get_db commits, as it does with the FastAPI versions
\* (0.118 on) that end a dependency after the response.
SendAnswers(r) ==
  /\ request[r].pc = "commit"
  /\ acked' = acked \cup {Answer(r)} /\ early' = early \cup {Answer(r)}
  /\ UNCHANGED <<directory, store, request, contended, started>>

\* get_db commits the message, its recipient rows and its outbox event, and
\* the client gets (or already has) its 201.
SendCommits(r) ==
  LET q == request[r] IN
  /\ q.pc = "commit"
  /\ messages' = [messages EXCEPT ![q.msg] = [status |-> "live", key |-> q.key]]
  /\ recipients' = [recipients EXCEPT ![q.msg] =
                      [d \in Devices |-> IF d \in q.rows THEN "pending" ELSE "none"]]
  /\ announced' = [announced EXCEPT ![q.msg] = @ \cup {q.audience}]
  /\ acked' = acked \cup {Answer(r)} /\ early' = early \ {Answer(r)}
  /\ request' = [request EXCEPT ![r] = Idle]
  /\ UNCHANGED <<directory, readAt, deliveredAt, receipts, contended, started>>

-----------------------------------------------------------------------------
(* mark_delivered, mark_read                                               *)

StartReceipt(r, x, pc) ==
  /\ request' = [request EXCEPT ![r] = [pc |-> pc, row |-> x]]
  /\ contended' = IF \E q \in Requests : Receipting(q) /\ request[q].row = x
                    THEN contended \cup {x} ELSE contended
  /\ started' = started + 1
  /\ UNCHANGED <<directory, store, acked, early>>

Status(x) == recipients[x[1]][x[2]]

\* mark_delivered reads the row; only a pending one goes on.
DeliveredReads(r, x) ==
  /\ request[r] = Idle
  /\ started < MaxReceipts
  /\ Status(x) = "pending"
  /\ StartReceipt(r, x, "deliver")

\* DEFECT (mutant): mark_read without its delivery_status != "read" guard.
ReadReadsAlways(r, x) ==
  /\ request[r] = Idle
  /\ started < MaxReceipts
  /\ Status(x) # "none"
  /\ StartReceipt(r, x, "read")

\* mark_read reads the row; one that is already read ends the request.
ReadReads(r, x) ==
  /\ request[r] = Idle
  /\ started < MaxReceipts
  /\ Status(x) \notin {"none", "read"}
  /\ StartReceipt(r, x, "read")

SetStatus(x, s) == recipients' = [recipients EXCEPT ![x[1]][x[2]] = s]

AddEvent(x, t) == receipts' = [receipts EXCEPT ![x][t] = @ + 1]

\* The UPDATE names the row by its primary key alone, so it overwrites what
\* another request wrote since the read.  autoflush is off: UPDATE, INSERT
\* of the outbox event and COMMIT come together at the end of the request.
DeliveredCommits(r) ==
  LET x == request[r].row IN
  /\ request[r].pc = "deliver"
  /\ SetStatus(x, "delivered")
  /\ deliveredAt' = deliveredAt \cup {x}
  /\ AddEvent(x, "delivered")
  /\ request' = [request EXCEPT ![r] = Idle]
  /\ UNCHANGED <<directory, messages, readAt, announced, acked, early, contended, started>>

\* DEFECT (mutant): the outbox event is written for the first read only by
\* asking read_at, but the status column is left to mark_delivered.
ReadCommitsStampOnly(r) ==
  LET x == request[r].row IN
  /\ request[r].pc = "read"
  /\ readAt' = readAt \cup {x}
  /\ AddEvent(x, "read")
  /\ request' = [request EXCEPT ![r] = Idle]
  /\ UNCHANGED <<directory, messages, recipients, deliveredAt, announced, acked, early, contended, started>>

ReadCommits(r) ==
  LET x == request[r].row IN
  /\ request[r].pc = "read"
  /\ SetStatus(x, "read")
  /\ readAt' = readAt \cup {x}
  /\ AddEvent(x, "read")
  /\ request' = [request EXCEPT ![r] = Idle]
  /\ UNCHANGED <<directory, messages, deliveredAt, announced, acked, early, contended, started>>

-----------------------------------------------------------------------------
(* delete                                                                  *)

\* get_by_id does not see deleted messages; only the sender may delete.
DeleteReads(r, m, u) ==
  /\ request[r] = Idle
  /\ messages[m].status = "live"
  /\ Sender(messages[m].key) = u
  /\ request' = [request EXCEPT ![r] = [pc |-> "delete", msg |-> m]]
  /\ UNCHANGED <<directory, store, acked, early, contended, started>>

\* mark_deleted and the commit.  The row, its recipients and its key stay.
DeleteCommits(r) ==
  /\ request[r].pc = "delete"
  /\ messages' = [messages EXCEPT ![request[r].msg].status = "deleted"]
  /\ request' = [request EXCEPT ![r] = Idle]
  /\ UNCHANGED <<directory, recipients, readAt, deliveredAt, announced, receipts, acked, early,
                 contended, started>>

-----------------------------------------------------------------------------
\* The process dies, the connection is lost or the commit fails: get_db rolls
\* the request back, also if the client already has its answer.
RollsBack(r) ==
  /\ request[r] # Idle
  /\ request' = [request EXCEPT ![r] = Idle]
  /\ UNCHANGED <<directory, store, acked, early, contended, started>>

Next ==
  \/ \E u \in Users : MemberLeaves(u) \/ MemberJoins(u)
  \/ \E d \in Devices : DeviceRegistered(d) \/ DeviceRevoked(d)
  \/ \E r \in Requests, key \in Keys : SendChecks(r, key)
  \/ \E r \in Requests :
       \/ SendInserts(r)
       \/ SendListsMembers(r)
       \/ \E u \in Users : SendFansOut(r, u)
       \/ SendPublishes(r)
       \/ SendAnswers(r)
       \/ SendCommits(r)
       \/ DeliveredCommits(r)
       \/ ReadCommits(r)
       \/ DeleteCommits(r)
       \/ RollsBack(r)
  \/ \E r \in Requests, x \in Rows : DeliveredReads(r, x) \/ ReadReads(r, x)
  \/ \E r \in Requests, m \in MsgIds, u \in Users : DeleteReads(r, m, u)

Spec == Init /\ [][Next]_vars

-----------------------------------------------------------------------------
(* Properties                                                              *)

Stored(m) == messages[m] # NoMessage

\* However often and however concurrently a device sends a client_message_id,
\* across errors, rollbacks and deletions, one message exists for it.  (With
\* the type invariant.)
OneMessagePerKey ==
  /\ TypeOK
  /\ \A m, n \in MsgIds : Stored(m) /\ messages[m].key = messages[n].key => m = n

\* A message id given to a client in a 201, first answer or answer to a
\* retry, is the id of the stored message of that key, unless the answer left
\* before a commit that is still to come or never came; and a stored message
\* has exactly one message.new event in the outbox, one that is not stored
\* has none.
AckedIsStored ==
  /\ \A a \in acked : messages[a[2]].key = a[1] <=> a \notin early
  /\ \A m \in MsgIds : Cardinality(announced[m]) = IF Stored(m) THEN 1 ELSE 0

Lands(r) == request[r].pc = "commit" /\ messages'[request[r].msg] # messages[request[r].msg]

\* The members, the devices of each and the members again are read at
\* different moments of one send, yet a device that was active, of a member
\* other than the sender, from the check to the commit has both its recipient
\* row and an event for its user; nobody who had left before the check is
\* addressed, nor the sender's own devices.
SendAddressesWhoStayed ==
  [][\A r \in Requests : Lands(r) =>
       LET q == request[r] IN
       /\ \A d \in q.eligible \cap EligibleDevices(Sender(q.key)) :
            recipients'[q.msg][d] = "pending"
       /\ \A d \in Devices : recipients'[q.msg][d] # "none" =>
            Owner[d] \notin q.gone \cup {Sender(q.key)}
       /\ \A users \in announced'[q.msg] :
            /\ {Owner[d] : d \in q.eligible \cap EligibleDevices(Sender(q.key))} \subseteq users
            /\ users \cap q.gone = {}]_vars

\* A receipt row that no two requests worked on at once tells exactly what
\* happened: one event per receipt, and the last status reached.
UncontendedReceiptsExact ==
  \A x \in Rows \ contended :
    /\ receipts[x]["delivered"] = IF x \in deliveredAt THEN 1 ELSE 0
    /\ receipts[x]["read"] = IF x \in readAt THEN 1 ELSE 0
    /\ Status(x) = "read" <=> x \in readAt
    /\ Status(x) = "delivered" <=> x \in deliveredAt \ readAt

\* Even when requests race on a row (the web client posts "delivered" and
\* "read" of a message side by side), its status may fall back from read to
\* delivered but never to pending, its timestamps stay, and every receipt
\* recorded in the row has an outbox event and conversely.
ReceiptsNeverLost ==
  \A x \in Rows :
    /\ x \in readAt <=> receipts[x]["read"] > 0
    /\ x \in deliveredAt <=> receipts[x]["delivered"] > 0
    /\ Status(x) = "read" => x \in readAt
    /\ Status(x) = "delivered" => x \in deliveredAt
    /\ Status(x) \in {"none", "pending"} => x \notin readAt \cup deliveredAt
=============================================================================
