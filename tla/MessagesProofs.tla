--------------------------- MODULE MessagesProofs ---------------------------
(***************************************************************************)
(* Proofs about Messages, for any users, devices, messages, request slots  *)
(* and bounds.                                                             *)
(*                                                                         *)
(* A send spreads over many steps between which anything commits, so the   *)
(* invariant says what is known at each of them: who has inserted a key    *)
(* holds it alone until the commit (Holders), and the two member lists of  *)
(* a send can differ only by users and devices that changed since its      *)
(* check (Addressing).  A receipt overwrites a row it read before; the row *)
(* is still what was read unless the history calls it contended            *)
(* (Receiving).                                                            *)
(***************************************************************************)
EXTENDS Messages, FiniteSetTheorems, TLAPS

Holding(r) == request[r].pc \in {"list", "fanout", "commit"}

\* A message that is inserted but not committed has an id and a key that no
\* committed row and no other request has.
Holders ==
  /\ \A r \in Requests : Holding(r) =>
       /\ request[r].msg \in MsgIds /\ ~Stored(request[r].msg)
       /\ \A m \in MsgIds : messages[m].key # request[r].key
  /\ \A q, r \in Requests :
       Holding(q) /\ Holding(r) /\ (request[q].key = request[r].key \/ request[q].msg = request[r].msg)
         => q = r

\* Only a stored message is deleted.
Deletions == \A r \in Requests : request[r].pc = "delete" => Stored(request[r].msg)

UniqueKeys == \A m, n \in MsgIds : Stored(m) /\ messages[m].key = messages[n].key => m = n

\* Message, recipient rows and event become visible together.
Together ==
  \A m \in MsgIds :
    /\ Stored(m) => \E users : announced[m] = {users}
    /\ ~Stored(m) => announced[m] = {} /\ \A d \in Devices : recipients[m][d] = "none"

\* Who has an answer has the id of a stored message, or one whose commit was
\* not seen; the id of an INSERT under way is known for its own key only.
Acknowledged ==
  /\ \A a \in acked : messages[a[2]].key = a[1] <=> a \notin early
  /\ \A r \in Requests : Holding(r) =>
       \A a \in acked : a[2] = request[r].msg => a[1] = request[r].key

\* What a send remembers and has computed, and how it compares with the
\* members and devices of now: nobody becomes eligible for a second time.
Addressed(q) ==
  LET now == EligibleDevices(Sender(q.key)) IN
  /\ \A d \in q.eligible : device[d] # "unregistered" /\ Owner[d] \in joined
  /\ q.gone \subseteq joined \ members
  /\ q.pc \in {"insert", "list"} => q.rows = {}
  /\ q.pc \in {"fanout", "commit"} =>
       /\ \A d \in q.eligible \cap now : d \in q.rows \/ Owner[d] \in q.todo
       /\ \A d \in q.rows : Owner[d] \notin q.gone \cup {Sender(q.key)}
       /\ q.todo \cap (q.gone \cup {Sender(q.key)}) = {}
  /\ q.pc = "commit" =>
       /\ q.todo = {}
       /\ \A d \in q.eligible \cap now : Owner[d] \in q.audience
       /\ q.audience \cap q.gone = {}

Addressing == \A r \in Requests : Sending(r) => Addressed(request[r])

\* A receipt under way is about a row that exists; and unless the row is
\* contended it is the only one and the row is as it was read.
Receiving ==
  \A r \in Requests : Receipting(r) =>
    /\ Status(request[r].row) # "none"
    /\ request[r].row \notin contended =>
         /\ \A q \in Requests : Receipting(q) /\ request[q].row = request[r].row => q = r
         /\ request[r].pc = "deliver" => Status(request[r].row) = "pending"
         /\ request[r].pc = "read" => Status(request[r].row) \in {"pending", "delivered"}

Sends == Holders /\ Deletions /\ UniqueKeys /\ Together /\ Acknowledged /\ Addressing
Receipts == Receiving /\ ReceiptsNeverLost /\ UncontendedReceiptsExact
IInv == TypeOK /\ Sends /\ Receipts

-----------------------------------------------------------------------------
(* Requests                                                                *)

\* The program point of a request tells what it is.
LEMMA Shapes ==
  ASSUME TypeOK, NEW r \in Requests
  PROVE  /\ Sending(r) => request[r] \in SendRequest
         /\ Receipting(r) => request[r] \in ReceiptRequest
         /\ request[r].pc = "delete" => request[r] \in DeleteRequest
         /\ request[r].pc = "idle" <=> request[r] = Idle
BY DEF TypeOK, Sending, Receipting, Idle, SendRequest, ReceiptRequest, DeleteRequest

\* A request that moves leaves the others where they are.
LEMMA Moves ==
  ASSUME TypeOK, NEW r \in Requests, NEW q, request' = [request EXCEPT ![r] = q],
         q \in {Idle} \cup SendRequest \cup ReceiptRequest \cup DeleteRequest
  PROVE  /\ request' \in [Requests -> {Idle} \cup SendRequest \cup ReceiptRequest \cup DeleteRequest]
         /\ request'[r] = q
         /\ \A p \in Requests : p # r => request'[p] = request[p]
BY DEF TypeOK

LEMMA InitIInv == Init => IInv
<1> SUFFICES ASSUME Init PROVE IInv
  OBVIOUS
<1>1. TypeOK
  BY ReceiptBound DEF Init, TypeOK, ReceiptTypes, DeliveryStatuses
<1>2. \A m \in MsgIds : ~Stored(m) /\ announced[m] = {} /\ \A d \in Devices : recipients[m][d] = "none"
  BY DEF Init, Stored
<1>3. \A r \in Requests : request[r].pc = "idle"
  BY DEF Init, Idle
<1>4. Sends
  BY <1>2, <1>3 DEF Init, Sends, Holders, Holding, Deletions, UniqueKeys, Together, Acknowledged,
                     Addressing, Sending
<1>5. Receiving
  BY <1>3 DEF Receiving, Receipting
<1>6. \A x \in Rows : Status(x) = "none" /\ receipts[x]["delivered"] = 0 /\ receipts[x]["read"] = 0
  BY <1>2 DEF Init, Status, Rows, ReceiptTypes
<1>7. ReceiptsNeverLost /\ UncontendedReceiptsExact
  BY <1>6 DEF Init, ReceiptsNeverLost, UncontendedReceiptsExact
<1> QED BY <1>1, <1>4, <1>5, <1>7 DEF IInv, Receipts

-----------------------------------------------------------------------------
(* Members and devices                                                     *)

\* A change of members or devices can only disturb what sends know of them.
LEMMA DirectoryKeeps ==
  ASSUME IInv, UNCHANGED <<store, request, acked, early, contended, started>>, TypeOK', Addressing'
  PROVE  IInv'
<1>1. Holders' /\ Deletions' /\ UniqueKeys' /\ Together' /\ Acknowledged'
  BY DEF IInv, Sends, Holders, Holding, Deletions, UniqueKeys, Together, Acknowledged, Stored, store
<1>2. Receipts'
  BY DEF IInv, Receipts, Receiving, Receipting, Status, ReceiptsNeverLost, UncontendedReceiptsExact, store
<1> QED BY <1>1, <1>2 DEF IInv, Sends

LEMMA MembersKeep ==
  ASSUME IInv, NEW u \in Users, MemberLeaves(u) \/ MemberJoins(u)
  PROVE  IInv'
<1>1. TypeOK'
  BY DEF IInv, TypeOK, MemberLeaves, MemberJoins, store
<1>2. ASSUME NEW r \in Requests, Sending(r)
      PROVE  Addressed(request[r])'
  <2>1. request'[r] = request[r] /\ Addressed(request[r]) /\ device' = device
    BY <1>2 DEF IInv, Sends, Addressing, MemberLeaves, MemberJoins
  <2>2. \A v \in joined : v \in members' => v \in members
    BY DEF MemberLeaves, MemberJoins
  <2>3. joined \subseteq joined'
    BY DEF MemberLeaves, MemberJoins
  <2>4. request[r] \in SendRequest
    BY <1>2, Shapes DEF IInv
  <2>5. \A d \in request[r].eligible : d \in EligibleDevices(Sender(request[r].key))'
          => d \in EligibleDevices(Sender(request[r].key))
    BY <2>1, <2>2, <2>4 DEF EligibleDevices, ActiveDevices, Sender, Addressed, SendRequest
  <2> QED BY <2>1, <2>2, <2>3, <2>5 DEF Addressed, Sender
<1>3. Addressing'
  BY <1>2 DEF Addressing, Sending, MemberLeaves, MemberJoins
<1> QED BY <1>1, <1>3, DirectoryKeeps DEF MemberLeaves, MemberJoins

LEMMA DevicesKeep ==
  ASSUME IInv, NEW e \in Devices, DeviceRegistered(e) \/ DeviceRevoked(e)
  PROVE  IInv'
<1>1. TypeOK'
  BY DEF IInv, TypeOK, DeviceRegistered, DeviceRevoked, store
<1>2. ASSUME NEW r \in Requests, Sending(r)
      PROVE  Addressed(request[r])'
  <2>1. request'[r] = request[r] /\ Addressed(request[r]) /\ joined' = joined /\ members' = members
    BY <1>2 DEF IInv, Sends, Addressing, DeviceRegistered, DeviceRevoked
  <2>2. request[r] \in SendRequest /\ device \in [Devices -> {"unregistered", "active", "revoked"}]
    BY <1>2, Shapes DEF IInv, TypeOK
  <2>3. \A d \in Devices : device[d] # "unregistered" =>
           device'[d] # "unregistered" /\ (device'[d] = "active" => device[d] = "active")
    BY <2>2 DEF DeviceRegistered, DeviceRevoked
  <2>4. \A d \in request[r].eligible : d \in EligibleDevices(Sender(request[r].key))'
          => d \in EligibleDevices(Sender(request[r].key))
    BY <2>1, <2>2, <2>3 DEF EligibleDevices, ActiveDevices, Sender, Addressed, SendRequest
  <2>5. \A d \in request[r].eligible : device'[d] # "unregistered"
    BY <2>1, <2>2, <2>3 DEF Addressed, SendRequest
  <2> QED BY <2>1, <2>4, <2>5 DEF Addressed, Sender
<1>3. Addressing'
  BY <1>2 DEF Addressing, Sending, DeviceRegistered, DeviceRevoked
<1> QED BY <1>1, <1>3, DirectoryKeeps DEF DeviceRegistered, DeviceRevoked

-----------------------------------------------------------------------------
(* Requests that do not change a row                                       *)

\* A request that moves on without writing keeps the invariant if what has to
\* be known at its new program point is.
LEMMA MoveKeeps ==
  ASSUME IInv, NEW r \in Requests, NEW q \in {Idle} \cup SendRequest \cup DeleteRequest,
         request' = [request EXCEPT ![r] = q],
         UNCHANGED <<directory, store, early, contended, started>>,
         acked \subseteq acked',
         \A a \in acked' \ acked : a \in Keys \X MsgIds /\ messages[a[2]].key = a[1],
         q.pc \in {"list", "fanout", "commit"} =>
           /\ q.msg \in MsgIds /\ ~Stored(q.msg)
           /\ \A m \in MsgIds : messages[m].key # q.key
           /\ \A p \in Requests : p # r /\ Holding(p) => request[p].key # q.key /\ request[p].msg # q.msg
           /\ \A a \in acked : a[2] = q.msg => a[1] = q.key,
         q.pc = "delete" => Stored(q.msg),
         q.pc \in {"insert", "list", "fanout", "commit"} => Addressed(q)
  PROVE  IInv'
<1>1. /\ request' \in [Requests -> {Idle} \cup SendRequest \cup ReceiptRequest \cup DeleteRequest]
      /\ request'[r] = q
      /\ \A p \in Requests : p # r => request'[p] = request[p]
  BY Moves DEF IInv
<1>2. TypeOK'
  BY <1>1 DEF IInv, TypeOK, directory, store
<1>3. Holders'
  BY <1>1 DEF IInv, Sends, Holders, Holding, Stored, store
<1>4. Deletions' /\ UniqueKeys' /\ Together'
  BY <1>1 DEF IInv, Sends, Deletions, UniqueKeys, Together, Stored, store
<1>5. Addressing'
  <2>1. ASSUME NEW p \in Requests, Sending(p)' PROVE Addressed(request'[p])
    BY <1>1, <2>1 DEF IInv, Sends, Addressing, Sending
  <2> QED BY <2>1 DEF Addressing, Sending, Addressed, EligibleDevices, ActiveDevices, Sender, directory
<1>9. Acknowledged'
  <2>1. UNCHANGED <<messages, early>> /\ early \subseteq acked
    BY DEF store, IInv, TypeOK
  <2>2. ASSUME NEW a \in acked' PROVE messages'[a[2]].key = a[1] <=> a \notin early'
    BY <2>1, <2>2 DEF IInv, Sends, Acknowledged
  <2>3. ASSUME NEW p \in Requests, Holding(p)', NEW a \in acked', a[2] = request'[p].msg
        PROVE  a[1] = request'[p].key
    <3>1. ~Stored(request'[p].msg)
      BY <1>3, <2>1, <2>3 DEF Holders, Stored
    <3>2. a \in acked
      <4>1. a \in acked' \ acked => a[1] \in Keys /\ messages[a[2]].key = a[1]
        OBVIOUS
      <4> QED BY <2>3, <3>1, <4>1, NoneAssumption DEF Stored, NoMessage, Keys
    <3> QED BY <1>1, <2>3, <3>2 DEF IInv, Sends, Acknowledged, Holding
  <2> QED BY <2>2, <2>3 DEF Acknowledged, Holding
<1>6. ~Receipting(r)'
  BY <1>1 DEF Receipting, Idle, SendRequest, DeleteRequest
<1>7. Receiving'
  BY <1>1, <1>6 DEF IInv, Receipts, Receiving, Receipting, Status, store
<1>8. ReceiptsNeverLost' /\ UncontendedReceiptsExact'
  BY DEF IInv, Receipts, ReceiptsNeverLost, UncontendedReceiptsExact, Status, store
<1> QED BY <1>2, <1>3, <1>4, <1>5, <1>7, <1>8, <1>9 DEF IInv, Sends, Receipts

\* A request that ends without a commit leaves nothing behind.
LEMMA EndKeeps ==
  ASSUME IInv, NEW r \in Requests, request' = [request EXCEPT ![r] = Idle],
         UNCHANGED <<directory, store, acked, early, contended, started>>
  PROVE  IInv'
BY MoveKeeps DEF Idle

LEMMA SendChecksKeeps ==
  ASSUME IInv, NEW r \in Requests, NEW key \in Keys, SendChecks(r, key)
  PROVE  IInv'
<1>1. request \in [Requests -> {Idle} \cup SendRequest \cup ReceiptRequest \cup DeleteRequest]
  BY DEF IInv, TypeOK
<1>2. request[r] = Idle
  BY DEF SendChecks
<1>3. CASE UNCHANGED request
  <2>1. request' = [request EXCEPT ![r] = Idle]
    BY <1>1, <1>2, <1>3
  <2>2. acked' \subseteq acked \cup {<<key, m>> : m \in Committed(key)}
    BY DEF SendChecks
  <2>3. /\ acked \subseteq acked'
        /\ \A a \in acked' \ acked : a \in Keys \X MsgIds /\ messages[a[2]].key = a[1]
    BY <2>2 DEF Committed, SendChecks
  <2> QED BY <2>1, <2>3, MoveKeeps DEF SendChecks, Idle
<1>4. CASE ~UNCHANGED request
  <2> DEFINE q == [pc |-> "insert", key |-> key, msg |-> None, todo |-> {}, rows |-> {}, audience |-> {},
                   eligible |-> EligibleDevices(Sender(key)), gone |-> joined \ members]
  <2>1. request' = [request EXCEPT ![r] = q] /\ acked' = acked
    BY <1>4 DEF SendChecks
  <2>2. q \in SendRequest
    BY DEF IInv, TypeOK, SendRequest, EligibleDevices, ActiveDevices
  <2>3. Addressed(q)
    BY DEF Addressed, EligibleDevices, ActiveDevices, IInv, TypeOK
  <2> QED BY <2>1, <2>2, <2>3, MoveKeeps DEF SendChecks
<1> QED BY <1>3, <1>4

LEMMA SendInsertsKeeps ==
  ASSUME IInv, NEW r \in Requests, SendInserts(r)
  PROVE  IInv'
<1>1. request[r] \in SendRequest /\ Addressed(request[r]) /\ request[r].pc = "insert"
  BY Shapes DEF IInv, Sends, Addressing, Sending, SendInserts
<1>2. CASE Committed(request[r].key) # {}
  BY <1>2, EndKeeps DEF SendInserts
<1>3. CASE Committed(request[r].key) = {}
  <2>1. PICK m \in MsgIds \ UsedIds : request' = [request EXCEPT ![r].pc = "list", ![r].msg = m]
    BY <1>3 DEF SendInserts
  <2> DEFINE q == [request[r] EXCEPT !.pc = "list", !.msg = m]
  <2>2. request' = [request EXCEPT ![r] = q]
    BY <2>1 DEF IInv, TypeOK
  <2>3. /\ q \in SendRequest /\ q.pc = "list" /\ q.msg = m /\ q.key = request[r].key
        /\ q.eligible = request[r].eligible /\ q.gone = request[r].gone
    BY <1>1 DEF SendRequest
  <2>4. Addressed(q)
    BY <1>1, <2>3 DEF Addressed
  <2>5. ~Stored(m) /\ \A n \in MsgIds : messages[n].key # q.key
    BY <1>3, <2>3 DEF UsedIds, Stored, Committed
  <2>6. \A p \in Requests : p # r /\ Holding(p) => request[p].key # q.key /\ request[p].msg # m
    BY <2>3 DEF SendInserts, KeyHeld, Holding, UsedIds, Sending
  <2>7. \A a \in acked : a[2] # m
    BY DEF UsedIds
  <2> HIDE DEF q
  <2> QED BY <2>2, <2>3, <2>4, <2>5, <2>6, <2>7, MoveKeeps DEF SendInserts
<1> QED BY <1>2, <1>3

\* A send that holds its key moves on to a point that holds it.
LEMMA HolderKeeps ==
  ASSUME IInv, NEW r \in Requests, Holding(r), NEW q \in SendRequest,
         request' = [request EXCEPT ![r] = q],
         UNCHANGED <<directory, store, acked, early, contended, started>>,
         q.msg = request[r].msg, q.key = request[r].key, Addressed(q)
  PROVE  IInv'
<1>1. /\ q.msg \in MsgIds /\ ~Stored(q.msg) /\ \A m \in MsgIds : messages[m].key # q.key
      /\ \A p \in Requests : p # r /\ Holding(p) => request[p].key # q.key /\ request[p].msg # q.msg
      /\ \A a \in acked : a[2] = q.msg => a[1] = q.key
  BY DEF IInv, Sends, Holders, Acknowledged
<1>2. q.pc # "delete"
  BY DEF SendRequest
<1> QED BY <1>1, <1>2, MoveKeeps

LEMMA SendListsMembersKeeps ==
  ASSUME IInv, NEW r \in Requests, SendListsMembers(r)
  PROVE  IInv'
<1> DEFINE others == members \ {Sender(request[r].key)}
           q == [request[r] EXCEPT !.pc = "fanout", !.todo = others]
<1>1. request[r] \in SendRequest /\ Addressed(request[r]) /\ request[r].pc = "list" /\ Holding(r)
  BY Shapes DEF IInv, Sends, Addressing, Sending, SendListsMembers, Holding
<1>2. request' = [request EXCEPT ![r] = q]
  BY DEF IInv, TypeOK, SendListsMembers
<1>3. q \in [pc : {"fanout"}, key : Keys, msg : MsgIds \cup {None}, todo : SUBSET Users,
            rows : SUBSET Devices, audience : SUBSET Users, eligible : SUBSET Devices, gone : SUBSET Users]
  BY <1>1 DEF SendRequest, IInv, TypeOK
<1>4. /\ q \in SendRequest /\ q.pc = "fanout" /\ q.todo = others /\ q.msg = request[r].msg
      /\ q.key = request[r].key /\ q.eligible = request[r].eligible /\ q.gone = request[r].gone
      /\ q.rows = request[r].rows
  BY <1>1, <1>3 DEF SendRequest
<1>5. Addressed(q)
  BY <1>1, <1>4 DEF Addressed, EligibleDevices
<1> HIDE DEF q
<1> QED BY <1>1, <1>2, <1>4, <1>5, HolderKeeps DEF SendListsMembers

LEMMA SendFansOutKeeps ==
  ASSUME IInv, NEW r \in Requests, NEW u \in Users, SendFansOut(r, u)
  PROVE  IInv'
<1> DEFINE q == [request[r] EXCEPT !.todo = request[r].todo \ {u}, !.rows = request[r].rows \cup ActiveOf(u)]
<1>1. request[r] \in SendRequest /\ Addressed(request[r]) /\ request[r].pc = "fanout" /\ Holding(r)
  BY Shapes DEF IInv, Sends, Addressing, Sending, SendFansOut, Holding
<1>2. request' = [request EXCEPT ![r] = q]
  BY DEF IInv, TypeOK, SendFansOut
<1>3. ActiveOf(u) \subseteq Devices /\ \A d \in ActiveOf(u) : Owner[d] = u
  BY DEF ActiveOf, ActiveDevices
<1>4. /\ q \in SendRequest /\ q.pc = "fanout" /\ q.msg = request[r].msg /\ q.key = request[r].key
      /\ q.eligible = request[r].eligible /\ q.gone = request[r].gone
      /\ q.todo = request[r].todo \ {u} /\ q.rows = request[r].rows \cup ActiveOf(u)
  BY <1>1, <1>3 DEF SendRequest
<1>5. Addressed(q)
  <2>1. ASSUME NEW d \in q.eligible \cap EligibleDevices(Sender(q.key))
        PROVE  d \in q.rows \/ Owner[d] \in q.todo
    <3>1. d \in request[r].rows \/ Owner[d] \in request[r].todo
      BY <1>1, <1>4 DEF Addressed
    <3>2. Owner[d] = u => d \in ActiveOf(u)
      BY DEF EligibleDevices, ActiveOf
    <3> QED BY <1>4, <3>1, <3>2
  <2>2. u \notin q.gone \cup {Sender(q.key)}
    BY <1>1, <1>4 DEF SendFansOut, Addressed
  <2>3. \A d \in q.rows : Owner[d] \notin q.gone \cup {Sender(q.key)}
    BY <1>1, <1>3, <1>4, <2>2 DEF Addressed
  <2>4. q.todo \cap (q.gone \cup {Sender(q.key)}) = {}
    BY <1>1, <1>4 DEF Addressed
  <2> HIDE DEF q
  <2> QED BY <1>1, <1>4, <2>1, <2>3, <2>4 DEF Addressed
<1> HIDE DEF q
<1> QED BY <1>1, <1>2, <1>4, <1>5, HolderKeeps DEF SendFansOut

LEMMA SendPublishesKeeps ==
  ASSUME IInv, NEW r \in Requests, SendPublishes(r)
  PROVE  IInv'
<1> DEFINE q == [request[r] EXCEPT !.pc = "commit", !.audience = members]
<1>1. request[r] \in SendRequest /\ Addressed(request[r]) /\ Holding(r)
      /\ request[r].pc = "fanout" /\ request[r].todo = {}
  BY Shapes DEF IInv, Sends, Addressing, Sending, SendPublishes, Holding
<1>2. request' = [request EXCEPT ![r] = q]
  BY DEF IInv, TypeOK, SendPublishes
<1>3. /\ q \in SendRequest /\ q.pc = "commit" /\ q.rows = request[r].rows /\ q.audience = members
      /\ q.msg = request[r].msg /\ q.key = request[r].key /\ q.todo = {}
      /\ q.eligible = request[r].eligible /\ q.gone = request[r].gone
  BY <1>1 DEF SendRequest, IInv, TypeOK
<1>4. Addressed(q)
  BY <1>1, <1>3 DEF Addressed, EligibleDevices
<1> HIDE DEF q
<1> QED BY <1>1, <1>2, <1>3, <1>4, HolderKeeps DEF SendPublishes

\* An answer ahead of its commit names a message that is not stored.
LEMMA SendAnswersKeeps ==
  ASSUME IInv, NEW r \in Requests, SendAnswers(r)
  PROVE  IInv'
<1>1. request[r] \in SendRequest /\ Holding(r)
  BY Shapes DEF IInv, Sending, SendAnswers, Holding
<1>2. /\ acked' = acked \cup {Answer(r)} /\ early' = early \cup {Answer(r)}
      /\ UNCHANGED <<directory, store, request, contended, started>>
  BY DEF SendAnswers
<1>3. /\ request[r].key \in Keys /\ request[r].msg \in MsgIds
      /\ messages[request[r].msg].key # request[r].key
  BY <1>1 DEF SendRequest, IInv, Sends, Holders
<1>4. Answer(r) \in Keys \X MsgIds /\ Answer(r)[1] = request[r].key /\ Answer(r)[2] = request[r].msg
  BY <1>3 DEF Answer
<1>5. TypeOK'
  BY <1>2, <1>4 DEF IInv, TypeOK, directory, store
<1>6. Acknowledged'
  <2>1. ASSUME NEW a \in acked' PROVE messages'[a[2]].key = a[1] <=> a \notin early'
    BY <1>2, <1>3, <1>4 DEF IInv, Sends, Acknowledged, store
  <2>2. ASSUME NEW p \in Requests, Holding(p), NEW a \in acked', a[2] = request[p].msg
        PROVE  a[1] = request[p].key
    <3>1. CASE a \in acked
      BY <2>2, <3>1 DEF IInv, Sends, Acknowledged
    <3>2. CASE a = Answer(r)
      BY <1>1, <1>4, <2>2, <3>2 DEF IInv, Sends, Holders
    <3> QED BY <1>2, <3>1, <3>2
  <2> QED BY <1>2, <2>1, <2>2 DEF Acknowledged, Holding
<1>7. Holders' /\ Deletions' /\ UniqueKeys' /\ Together'
  BY <1>2 DEF IInv, Sends, Holders, Holding, Deletions, UniqueKeys, Together, Stored, store
<1>8. Addressing'
  BY <1>2 DEF IInv, Sends, Addressing, Sending, Addressed, EligibleDevices, ActiveDevices, Sender, directory
<1>9. Receipts'
  BY <1>2 DEF IInv, Receipts, Receiving, Receipting, Status, ReceiptsNeverLost, UncontendedReceiptsExact, store
<1> QED BY <1>5, <1>6, <1>7, <1>8, <1>9 DEF IInv, Sends

LEMMA DeleteReadsKeeps ==
  ASSUME IInv, NEW r \in Requests, NEW m \in MsgIds, NEW u \in Users, DeleteReads(r, m, u)
  PROVE  IInv'
<1> DEFINE q == [pc |-> "delete", msg |-> m]
<1>1. q \in DeleteRequest /\ q.pc = "delete" /\ Stored(m)
  BY DEF DeleteRequest, DeleteReads, Stored, NoMessage
<1> QED BY <1>1, MoveKeeps DEF DeleteReads

-----------------------------------------------------------------------------
(* Commits                                                                 *)

\* A send that commits makes one message with its rows and its event.
LEMMA CommitStores ==
  ASSUME IInv, NEW r \in Requests, SendCommits(r)
  PROVE  /\ request[r] \in SendRequest /\ request[r].msg \in MsgIds /\ ~Stored(request[r].msg)
         /\ messages' \in [MsgIds -> {NoMessage} \cup [status : {"live", "deleted"}, key : Keys]]
         /\ messages'[request[r].msg].key = request[r].key /\ messages'[request[r].msg] # NoMessage
         /\ announced'[request[r].msg] = {request[r].audience}
         /\ \A d \in Devices : recipients'[request[r].msg][d] =
                                 IF d \in request[r].rows THEN "pending" ELSE "none"
         /\ recipients' \in [MsgIds -> [Devices -> DeliveryStatuses]]
         /\ announced' \in [MsgIds -> SUBSET SUBSET Users]
         /\ \A m \in MsgIds : m # request[r].msg =>
              /\ messages'[m] = messages[m] /\ recipients'[m] = recipients[m]
              /\ announced'[m] = announced[m]
<1> DEFINE q == request[r]
<1>1. q \in SendRequest /\ Holding(r)
  BY Shapes DEF IInv, Sending, Holding, SendCommits
<1>2. q.msg \in MsgIds /\ ~Stored(q.msg) /\ announced[q.msg] = {}
  BY <1>1 DEF IInv, Sends, Holders, Together
<1>3. [status |-> "live", key |-> q.key] \in [status : {"live", "deleted"}, key : Keys]
      /\ [status |-> "live", key |-> q.key] # NoMessage
  BY <1>1 DEF SendRequest, NoMessage
<1>4. [d \in Devices |-> IF d \in q.rows THEN "pending" ELSE "none"] \in [Devices -> DeliveryStatuses]
  BY DEF DeliveryStatuses
<1>5. q.audience \subseteq Users
  BY <1>1 DEF SendRequest
<1> QED BY <1>1, <1>2, <1>3, <1>4, <1>5 DEF IInv, TypeOK, SendCommits

LEMMA SendCommitsKeeps ==
  ASSUME IInv, NEW r \in Requests, SendCommits(r)
  PROVE  IInv'
<1> DEFINE q == request[r]
<1>1. /\ q \in SendRequest /\ q.msg \in MsgIds /\ ~Stored(q.msg)
      /\ messages' \in [MsgIds -> {NoMessage} \cup [status : {"live", "deleted"}, key : Keys]]
      /\ messages'[q.msg].key = q.key /\ messages'[q.msg] # NoMessage
      /\ announced'[q.msg] = {q.audience}
      /\ \A d \in Devices : recipients'[q.msg][d] = IF d \in q.rows THEN "pending" ELSE "none"
      /\ recipients' \in [MsgIds -> [Devices -> DeliveryStatuses]]
      /\ announced' \in [MsgIds -> SUBSET SUBSET Users]
      /\ \A m \in MsgIds : m # q.msg =>
           /\ messages'[m] = messages[m] /\ recipients'[m] = recipients[m]
           /\ announced'[m] = announced[m]
  BY CommitStores
<1>2. /\ request' \in [Requests -> {Idle} \cup SendRequest \cup ReceiptRequest \cup DeleteRequest]
      /\ request'[r] = Idle
      /\ \A p \in Requests : p # r => request'[p] = request[p]
  BY Moves DEF IInv, SendCommits
<1>3. Holding(r) /\ q.key \in Keys
  BY <1>1 DEF Holding, SendCommits, SendRequest
<1>4. /\ acked' = acked \cup {<<q.key, q.msg>>} /\ early' = early \ {<<q.key, q.msg>>}
      /\ UNCHANGED <<directory, readAt, deliveredAt, receipts, contended, started>>
  BY DEF SendCommits, Answer
<1>5. TypeOK'
  BY <1>1, <1>2, <1>3, <1>4 DEF IInv, TypeOK, directory
<1>6. \A m \in MsgIds : messages[m].key # q.key
  BY <1>3 DEF IInv, Sends, Holders
<1>7. ~Holding(r)' /\ ~Sending(r)' /\ ~Receipting(r)' /\ request'[r].pc # "delete"
  BY <1>2 DEF Holding, Sending, Receipting, Idle
<1>8. Holders'
  <2>1. ASSUME NEW p \in Requests, Holding(p)'
        PROVE  /\ request'[p].msg \in MsgIds /\ ~Stored(request[p].msg)'
               /\ \A m \in MsgIds : messages'[m].key # request'[p].key
    <3>1. p # r /\ request'[p] = request[p] /\ Holding(p)
      BY <1>2, <1>7, <2>1 DEF Holding
    <3>2. request[p].msg # q.msg /\ request[p].key # q.key
      BY <1>3, <3>1 DEF IInv, Sends, Holders
    <3>3. request[p].msg \in MsgIds /\ ~Stored(request[p].msg) /\ \A m \in MsgIds : messages[m].key # request[p].key
      BY <3>1 DEF IInv, Sends, Holders
    <3>4. ASSUME NEW m \in MsgIds PROVE messages'[m].key # request[p].key
      <4>1. CASE m = q.msg
        BY <1>1, <3>2, <4>1
      <4>2. CASE m # q.msg
        BY <1>1, <3>3, <4>2
      <4> QED BY <4>1, <4>2
    <3>5. messages'[request[p].msg] = messages[request[p].msg]
      BY <1>1, <3>2, <3>3
    <3> QED BY <3>1, <3>3, <3>4, <3>5 DEF Stored
  <2>2. \A o, p \in Requests : Holding(o)' /\ Holding(p)' => o # r /\ p # r /\ Holding(o) /\ Holding(p)
    BY <1>2, <1>7 DEF Holding
  <2>3. ASSUME NEW o \in Requests, NEW p \in Requests, Holding(o)', Holding(p)',
               request'[o].key = request'[p].key \/ request'[o].msg = request'[p].msg
        PROVE  o = p
    BY <1>2, <2>2, <2>3 DEF IInv, Sends, Holders
  <2> QED BY <2>1, <2>3 DEF Holders, Stored, Holding
<1>9. Deletions'
  <2>1. \A p \in Requests : request[p].pc = "delete" => request[p].msg \in MsgIds
    BY Shapes DEF IInv, DeleteRequest
  <2> QED BY <1>1, <1>2, <1>7, <2>1 DEF IInv, Sends, Deletions, Stored
<1>10. UniqueKeys'
  BY <1>1, <1>6 DEF IInv, Sends, UniqueKeys, Stored
<1>11. Together'
  <2>1. ASSUME NEW m \in MsgIds
        PROVE  /\ Stored(m)' => \E users : announced'[m] = {users}
               /\ ~Stored(m)' => announced'[m] = {} /\ \A d \in Devices : recipients'[m][d] = "none"
    <3>1. CASE m = q.msg
      BY <1>1, <3>1 DEF Stored
    <3>2. CASE m # q.msg
      <4>1. messages'[m] = messages[m] /\ recipients'[m] = recipients[m] /\ announced'[m] = announced[m]
        BY <1>1, <3>2
      <4>2. /\ Stored(m) => \E users : announced[m] = {users}
            /\ ~Stored(m) => announced[m] = {} /\ \A d \in Devices : recipients[m][d] = "none"
        BY DEF IInv, Sends, Together
      <4> QED BY <4>1, <4>2 DEF Stored
    <3> QED BY <3>1, <3>2
  <2> QED BY <2>1 DEF Together
<1>12. Acknowledged'
  <2>1. ASSUME NEW a \in acked' PROVE messages'[a[2]].key = a[1] <=> a \notin early'
    <3>1. CASE a = <<q.key, q.msg>>
      BY <1>1, <1>4, <3>1
    <3>2. CASE a \in acked /\ a # <<q.key, q.msg>>
      <4>1. a \in Keys \X MsgIds /\ (messages[a[2]].key = a[1] <=> a \notin early)
        BY <3>2 DEF IInv, TypeOK, Sends, Acknowledged
      <4>2. a[2] # q.msg
        BY <1>3, <3>2, <4>1 DEF IInv, Sends, Acknowledged
      <4> QED BY <1>1, <1>4, <3>2, <4>1, <4>2
    <3> QED BY <1>4, <3>1, <3>2
  <2>2. ASSUME NEW p \in Requests, Holding(p)', NEW a \in acked', a[2] = request'[p].msg
        PROVE  a[1] = request'[p].key
    <3>1. p # r /\ request'[p] = request[p] /\ Holding(p)
      BY <1>2, <1>7, <2>2 DEF Holding
    <3>2. request[p].msg # q.msg
      BY <1>3, <3>1 DEF IInv, Sends, Holders
    <3>3. a \in acked
      BY <1>4, <2>2, <3>1, <3>2
    <3> QED BY <2>2, <3>1, <3>3 DEF IInv, Sends, Acknowledged
  <2> QED BY <2>1, <2>2 DEF Acknowledged, Holding
<1>13. Addressing'
  <2>1. ASSUME NEW p \in Requests, Sending(p)' PROVE Addressed(request'[p])
    BY <1>2, <1>7, <2>1 DEF IInv, Sends, Addressing, Sending
  <2> QED BY <1>4, <2>1 DEF Addressing, Sending, Addressed, EligibleDevices, ActiveDevices, Sender, directory
<1>14. ASSUME NEW x \in Rows
       PROVE  \/ x[1] # q.msg /\ Status(x)' = Status(x)
              \/ x[1] = q.msg /\ Status(x) = "none" /\ Status(x)' \in {"none", "pending"}
  BY <1>1 DEF Rows, Status, IInv, Sends, Together
<1>15. Receiving'
  <2>1. ASSUME NEW p \in Requests, Receipting(p)'
        PROVE  p # r /\ request'[p] = request[p] /\ Receipting(p) /\ request[p].row \in Rows
               /\ Status(request[p].row)' = Status(request[p].row)
    <3>1. p # r /\ request'[p] = request[p] /\ Receipting(p)
      BY <1>2, <1>7, <2>1 DEF Receipting
    <3>2. request[p].row \in Rows /\ Status(request[p].row) # "none"
      BY <3>1, Shapes DEF IInv, Receipts, Receiving, ReceiptRequest
    <3> QED BY <1>14, <3>1, <3>2
  <2>2. ASSUME NEW p \in Requests, Receipting(p)'
        PROVE  /\ Status(request[p].row)' # "none"
               /\ request'[p].row \notin contended' =>
                    /\ \A o \in Requests : Receipting(o)' /\ request'[o].row = request'[p].row => o = p
                    /\ request'[p].pc = "deliver" => Status(request[p].row)' = "pending"
                    /\ request'[p].pc = "read" => Status(request[p].row)' \in {"pending", "delivered"}
    <3>1. p # r /\ request'[p] = request[p] /\ Receipting(p)
          /\ Status(request[p].row)' = Status(request[p].row)
      BY <2>1, <2>2
    <3>2. \A o \in Requests : Receipting(o)' => request'[o] = request[o] /\ Receipting(o)
      BY <2>1
    <3>3. request[p].row \notin contended' => request[p].row \notin contended
      BY <1>4
    <3>4. Receiving
      BY DEF IInv, Receipts
    <3>5. Status(request[p].row)' = Status(request[p].row)
      BY <3>1
    <3> HIDE DEF q
    <3> QED BY <3>1, <3>2, <3>3, <3>4, <3>5 DEF Receiving
  <2> QED BY <2>2 DEF Receiving, Receipting, Status
<1>16. ReceiptsNeverLost' /\ UncontendedReceiptsExact'
  <2>1. \A x \in Rows : Status(x) = "none" => x \notin readAt /\ x \notin deliveredAt
    BY DEF IInv, Receipts, ReceiptsNeverLost
  <2>2. ReceiptsNeverLost'
    BY <1>4, <1>14, <2>1 DEF IInv, Receipts, ReceiptsNeverLost
  <2>3. UncontendedReceiptsExact'
    BY <1>4, <1>14, <2>1 DEF IInv, Receipts, UncontendedReceiptsExact
  <2> QED BY <2>2, <2>3
<1> QED BY <1>5, <1>8, <1>9, <1>10, <1>11, <1>12, <1>13, <1>15, <1>16 DEF IInv, Sends, Receipts

\* mark_deleted changes the status of a stored message only.
LEMMA DeleteCommitsKeeps ==
  ASSUME IInv, NEW r \in Requests, DeleteCommits(r)
  PROVE  IInv'
<1>1. request[r] \in DeleteRequest /\ request[r].pc = "delete" /\ Stored(request[r].msg)
  BY Shapes DEF IInv, Sends, Deletions, DeleteCommits
<1>2. PICK m : m = request[r].msg
  OBVIOUS
<1>3. m \in MsgIds /\ messages[m] \in [status : {"live", "deleted"}, key : Keys]
  BY <1>1, <1>2 DEF DeleteRequest, IInv, TypeOK, Stored
<1>4. messages' = [messages EXCEPT ![m] = [messages[m] EXCEPT !.status = "deleted"]]
  BY <1>2 DEF DeleteCommits, IInv, TypeOK
<1>5. [messages[m] EXCEPT !.status = "deleted"] \in [status : {"live", "deleted"}, key : Keys]
      /\ [messages[m] EXCEPT !.status = "deleted"].key = messages[m].key
      /\ [messages[m] EXCEPT !.status = "deleted"] # NoMessage
  BY <1>3 DEF NoMessage
<1>6. /\ messages' \in [MsgIds -> {NoMessage} \cup [status : {"live", "deleted"}, key : Keys]]
      /\ \A n \in MsgIds : messages'[n].key = messages[n].key /\ (Stored(n)' <=> Stored(n))
  BY <1>1, <1>2, <1>3, <1>4, <1>5 DEF IInv, TypeOK, Stored
<1>7. /\ request' \in [Requests -> {Idle} \cup SendRequest \cup ReceiptRequest \cup DeleteRequest]
      /\ request'[r] = Idle
      /\ \A p \in Requests : p # r => request'[p] = request[p]
  BY Moves DEF IInv, DeleteCommits
<1>8. UNCHANGED <<directory, recipients, readAt, deliveredAt, announced, receipts, acked, early, contended, started>>
  BY DEF DeleteCommits
<1>9. TypeOK'
  BY <1>6, <1>7, <1>8 DEF IInv, TypeOK, directory
<1>10. ~Holding(r)' /\ ~Sending(r)' /\ ~Receipting(r)' /\ request'[r].pc # "delete"
  BY <1>7 DEF Holding, Sending, Receipting, Idle
<1>11. Holders'
  <2>1. \A p \in Requests : Holding(p)' => Holding(p) /\ request'[p] = request[p]
    BY <1>7, <1>10 DEF Holding
  <2>2. \A p \in Requests : Holding(p) => request[p].msg \in MsgIds
    BY DEF IInv, Sends, Holders
  <2>3. ASSUME NEW p \in Requests, Holding(p)'
        PROVE  /\ request'[p].msg \in MsgIds /\ ~Stored(request[p].msg)'
               /\ \A n \in MsgIds : messages'[n].key # request'[p].key
    BY <1>6, <2>1, <2>2, <2>3 DEF IInv, Sends, Holders, Stored
  <2>4. ASSUME NEW o \in Requests, NEW p \in Requests, Holding(o)', Holding(p)',
               request'[o].key = request'[p].key \/ request'[o].msg = request'[p].msg
        PROVE  o = p
    BY <2>1, <2>4 DEF IInv, Sends, Holders
  <2> QED BY <2>3, <2>4 DEF Holders, Stored, Holding
<1>12. Deletions'
  <2>1. \A p \in Requests : request[p].pc = "delete" => request[p].msg \in MsgIds
    BY Shapes DEF IInv, DeleteRequest
  <2> QED BY <1>6, <1>7, <1>10, <2>1 DEF IInv, Sends, Deletions, Stored
<1>13. UniqueKeys' /\ Together'
  BY <1>6, <1>8 DEF IInv, Sends, UniqueKeys, Together, Stored
<1>14. Acknowledged'
  <2>1. \A a \in acked : messages'[a[2]].key = a[1] <=> a \notin early
    BY <1>6 DEF IInv, TypeOK, Sends, Acknowledged
  <2>2. \A p \in Requests : Holding(p)' => Holding(p) /\ request'[p] = request[p]
    BY <1>7, <1>10 DEF Holding
  <2> QED BY <1>8, <2>1, <2>2 DEF IInv, Sends, Acknowledged, Holding
<1>15. Addressing'
  <2>1. ASSUME NEW p \in Requests, Sending(p)' PROVE Addressed(request'[p])
    BY <1>7, <1>10, <2>1 DEF IInv, Sends, Addressing, Sending
  <2> QED BY <1>8, <2>1 DEF Addressing, Sending, Addressed, EligibleDevices, ActiveDevices, Sender, directory
<1>16. Receiving'
  BY <1>7, <1>8, <1>10 DEF IInv, Receipts, Receiving, Receipting, Status
<1>17. ReceiptsNeverLost' /\ UncontendedReceiptsExact'
  BY <1>8 DEF IInv, Receipts, ReceiptsNeverLost, UncontendedReceiptsExact, Status
<1> QED BY <1>9, <1>11, <1>12, <1>13, <1>14, <1>15, <1>16, <1>17 DEF IInv, Sends, Receipts

-----------------------------------------------------------------------------
(* Receipts                                                                *)

\* A step of a receipt request changes nothing that sends and deletions rest on.
LEMMA ReceiptStepKeepsSends ==
  ASSUME IInv, NEW r \in Requests, NEW q \in {Idle} \cup ReceiptRequest,
         request' = [request EXCEPT ![r] = q],
         UNCHANGED <<directory, messages, announced, acked, early>>,
         \A x \in Rows : Status(x) = "none" => Status(x)' = "none"
  PROVE  Sends'
<1>1. /\ request'[r] = q
      /\ \A p \in Requests : p # r => request'[p] = request[p]
  BY Moves DEF IInv
<1>2. ~Holding(r)' /\ ~Sending(r)' /\ request'[r].pc # "delete"
  BY <1>1 DEF Holding, Sending, Idle, ReceiptRequest
<1>3. Holders' /\ Deletions'
  BY <1>1, <1>2 DEF IInv, Sends, Holders, Holding, Deletions, Stored
<1>4. UniqueKeys' /\ Acknowledged'
  BY <1>1, <1>2 DEF IInv, Sends, UniqueKeys, Acknowledged, Stored, Holding
<1>5. Together'
  <2>1. \A m \in MsgIds, d \in Devices : recipients[m][d] = "none" => recipients'[m][d] = "none"
    <3>1. ASSUME NEW m \in MsgIds, NEW d \in Devices, recipients[m][d] = "none"
          PROVE  recipients'[m][d] = "none"
      <4>1. <<m, d>> \in Rows /\ Status(<<m, d>>) = "none"
        BY <3>1 DEF Rows, Status
      <4>2. Status(<<m, d>>)' = "none"
        BY <4>1
      <4> QED BY <4>2 DEF Status
    <3> QED BY <3>1
  <2> QED BY <2>1 DEF IInv, Sends, Together, Stored
<1>6. Addressing'
  <2>1. ASSUME NEW p \in Requests, Sending(p)' PROVE Addressed(request'[p])
    BY <1>1, <1>2, <2>1 DEF IInv, Sends, Addressing, Sending
  <2> QED BY <2>1 DEF Addressing, Sending, Addressed, EligibleDevices, ActiveDevices, Sender, directory
<1> QED BY <1>3, <1>4, <1>5, <1>6 DEF Sends

LEMMA StartKeeps ==
  ASSUME IInv, NEW r \in Requests, NEW x \in Rows, NEW pc \in {"deliver", "read"},
         StartReceipt(r, x, pc), started < MaxReceipts, request[r] = Idle,
         pc = "deliver" => Status(x) = "pending",
         pc = "read" => Status(x) \in {"pending", "delivered"}
  PROVE  IInv'
<1> DEFINE q == [pc |-> pc, row |-> x]
<1>1. q \in ReceiptRequest /\ q.row = x /\ q.pc = pc
  BY DEF ReceiptRequest
<1>2. /\ request' = [request EXCEPT ![r] = q]
      /\ UNCHANGED <<directory, store, acked, early>>
  BY DEF StartReceipt
<1> HIDE DEF q
<1>3. /\ request' \in [Requests -> {Idle} \cup SendRequest \cup ReceiptRequest \cup DeleteRequest]
      /\ request'[r] = q
      /\ \A p \in Requests : p # r => request'[p] = request[p]
  BY <1>1, <1>2, Moves DEF IInv
<1>4. contended \subseteq contended' /\ contended' \subseteq contended \cup {x}
  BY DEF StartReceipt
<1>5. TypeOK'
  BY <1>2, <1>3, <1>4, ReceiptBound DEF IInv, TypeOK, StartReceipt, directory, store
<1>6. Sends'
  BY <1>1, <1>2, ReceiptStepKeepsSends DEF Status, store
<1>7. \A y \in Rows : Status(y)' = Status(y)
  BY <1>2 DEF Status, store
<1>8. x \notin contended' => \A p \in Requests : Receipting(p) => request[p].row # x
  BY DEF StartReceipt
<1>9. ~Receipting(r)
  BY DEF Receipting, Idle
<1>10. \A p \in Requests : Receipting(p) => request[p].row \in Rows
  BY Shapes DEF IInv, ReceiptRequest
<1>11. Receiving'
  <2>1. ASSUME NEW p \in Requests, Receipting(p)'
        PROVE  /\ Status(request[p].row)' # "none"
               /\ request'[p].row \notin contended' =>
                    /\ \A o \in Requests : Receipting(o)' /\ request'[o].row = request'[p].row => o = p
                    /\ request'[p].pc = "deliver" => Status(request[p].row)' = "pending"
                    /\ request'[p].pc = "read" => Status(request[p].row)' \in {"pending", "delivered"}
    <3>1. CASE p = r
      <4>1. request'[p].row = x /\ request'[p].pc = pc
        BY <1>1, <1>3, <3>1
      <4>2. Status(request[p].row)' = Status(x)
        BY <1>2, <4>1 DEF Status, store
      <4>3. Status(x) \in {"pending", "delivered"}
        OBVIOUS
      <4>4. x \notin contended' => \A o \in Requests : Receipting(o)' /\ request'[o].row = x => o = r
        BY <1>3, <1>8 DEF Receipting
      <4> QED BY <3>1, <4>1, <4>2, <4>3, <4>4
    <3>2. CASE p # r
      <4>1. request'[p] = request[p] /\ Receipting(p)
        BY <1>3, <2>1, <3>2 DEF Receipting
      <4>2. Status(request[p].row)' = Status(request[p].row)
        BY <1>2, <4>1 DEF Status, store
      <4>3. request[p].row \notin contended' =>
              \A o \in Requests : Receipting(o)' /\ request'[o].row = request[p].row =>
                o # r /\ Receipting(o) /\ request'[o] = request[o]
        BY <1>1, <1>3, <1>8, <4>1 DEF Receipting
      <4> QED BY <1>4, <4>1, <4>2, <4>3 DEF IInv, Receipts, Receiving
    <3> QED BY <3>1, <3>2
  <2> QED BY <2>1 DEF Receiving, Receipting, Status
<1>12. ReceiptsNeverLost' /\ UncontendedReceiptsExact'
  BY <1>2, <1>4 DEF IInv, Receipts, ReceiptsNeverLost, UncontendedReceiptsExact, Status, store
<1> QED BY <1>5, <1>6, <1>11, <1>12 DEF IInv, Receipts

LEMMA ReceiptReadsKeep ==
  ASSUME IInv, NEW r \in Requests, NEW x \in Rows, DeliveredReads(r, x) \/ ReadReads(r, x)
  PROVE  IInv'
<1>1. CASE DeliveredReads(r, x)
  BY <1>1, StartKeeps DEF DeliveredReads
<1>2. CASE ReadReads(r, x)
  <2>1. Status(x) \in DeliveryStatuses
    BY DEF IInv, TypeOK, Status, Rows
  <2> QED BY <1>2, <2>1, StartKeeps DEF ReadReads, DeliveryStatuses
<1> QED BY <1>1, <1>2

\* What a commit of a receipt does to its row, and to no other.
LEMMA ReceiptCommitDoes ==
  ASSUME IInv, NEW x \in Rows, NEW s \in DeliveryStatuses, NEW t \in ReceiptTypes,
         SetStatus(x, s), AddEvent(x, t)
  PROVE  /\ recipients' \in [MsgIds -> [Devices -> DeliveryStatuses]]
         /\ receipts' \in [Rows -> [ReceiptTypes -> Nat]]
         /\ Status(x)' = s /\ \A y \in Rows : y # x => Status(y)' = Status(y)
         /\ receipts'[x][t] = receipts[x][t] + 1
         /\ \A u \in ReceiptTypes : u # t => receipts'[x][u] = receipts[x][u]
         /\ \A y \in Rows : y # x => receipts'[y] = receipts[y]
<1>1. PICK m \in MsgIds, d \in Devices : x = <<m, d>>
  BY DEF Rows
<1>2. recipients \in [MsgIds -> [Devices -> DeliveryStatuses]] /\ receipts \in [Rows -> [ReceiptTypes -> Nat]]
  BY DEF IInv, TypeOK
<1>3. recipients' = [recipients EXCEPT ![m] = [recipients[m] EXCEPT ![d] = s]]
  BY <1>1, <1>2 DEF SetStatus
<1>4. /\ recipients' \in [MsgIds -> [Devices -> DeliveryStatuses]]
      /\ \A n \in MsgIds, e \in Devices :
           recipients'[n][e] = IF n = m /\ e = d THEN s ELSE recipients[n][e]
  BY <1>2, <1>3
<1>5. Status(x)' = s /\ \A y \in Rows : y # x => Status(y)' = Status(y)
  BY <1>1, <1>4 DEF Status, Rows
<1>6. receipts' = [receipts EXCEPT ![x] = [receipts[x] EXCEPT ![t] = receipts[x][t] + 1]]
  BY <1>2 DEF AddEvent
<1> QED BY <1>2, <1>4, <1>5, <1>6

LEMMA DeliveredCommitsKeeps ==
  ASSUME IInv, NEW r \in Requests, DeliveredCommits(r)
  PROVE  IInv'
<1>1. request[r] \in ReceiptRequest /\ Receipting(r) /\ request[r].pc = "deliver"
  BY Shapes DEF IInv, Receipting, DeliveredCommits
<1>2. PICK x \in Rows : x = request[r].row
  BY <1>1 DEF ReceiptRequest
<1>3. /\ SetStatus(x, "delivered") /\ AddEvent(x, "delivered") /\ deliveredAt' = deliveredAt \cup {x}
      /\ request' = [request EXCEPT ![r] = Idle]
      /\ UNCHANGED <<directory, messages, readAt, announced, acked, early, contended, started>>
  BY <1>2 DEF DeliveredCommits
<1>4. /\ recipients' \in [MsgIds -> [Devices -> DeliveryStatuses]]
      /\ receipts' \in [Rows -> [ReceiptTypes -> Nat]]
      /\ Status(x)' = "delivered" /\ \A y \in Rows : y # x => Status(y)' = Status(y)
      /\ receipts'[x]["delivered"] = receipts[x]["delivered"] + 1
      /\ receipts'[x]["read"] = receipts[x]["read"]
      /\ \A y \in Rows : y # x => receipts'[y] = receipts[y]
  BY <1>3, ReceiptCommitDoes DEF ReceiptTypes, DeliveryStatuses
<1>5. /\ request' \in [Requests -> {Idle} \cup SendRequest \cup ReceiptRequest \cup DeleteRequest]
      /\ request'[r] = Idle /\ \A p \in Requests : p # r => request'[p] = request[p]
  BY <1>3, Moves DEF IInv
<1>6. TypeOK'
  BY <1>3, <1>4, <1>5 DEF IInv, TypeOK, directory
<1>7. /\ Status(x) # "none"
      /\ x \notin contended => /\ \A p \in Requests : Receipting(p) /\ request[p].row = x => p = r
                               /\ Status(x) = "pending"
  BY <1>1, <1>2 DEF IInv, Receipts, Receiving
<1>8. Sends'
  BY <1>3, <1>4, <1>7, ReceiptStepKeepsSends
<1>9. ~Receipting(r)'
  BY <1>5 DEF Receipting, Idle
<1>10. Receiving'
  <2>1. ASSUME NEW p \in Requests, Receipting(p)'
        PROVE  /\ Status(request[p].row)' # "none"
               /\ request'[p].row \notin contended' =>
                    /\ \A o \in Requests : Receipting(o)' /\ request'[o].row = request'[p].row => o = p
                    /\ request'[p].pc = "deliver" => Status(request[p].row)' = "pending"
                    /\ request'[p].pc = "read" => Status(request[p].row)' \in {"pending", "delivered"}
    <3>1. p # r /\ request'[p] = request[p] /\ Receipting(p)
      BY <1>5, <1>9, <2>1 DEF Receipting
    <3>2. PICK y \in Rows : y = request[p].row
      BY <3>1, Shapes DEF IInv, ReceiptRequest
    <3>3. Status(request[p].row)' = Status(y)'
      BY <3>1, <3>2 DEF Status
    <3>4. y = x => x \in contended
      BY <1>7, <3>1, <3>2
    <3>5. \A o \in Requests : Receipting(o)' => Receipting(o) /\ request'[o] = request[o]
      BY <1>5, <1>9 DEF Receipting
    <3>6. /\ Status(y) # "none"
          /\ y \notin contended =>
               /\ \A o \in Requests : Receipting(o) /\ request[o].row = y => o = p
               /\ request[p].pc = "deliver" => Status(y) = "pending"
               /\ request[p].pc = "read" => Status(y) \in {"pending", "delivered"}
      BY <3>1, <3>2 DEF IInv, Receipts, Receiving
    <3> QED BY <1>3, <1>4, <3>1, <3>2, <3>3, <3>4, <3>5, <3>6
  <2> QED BY <2>1 DEF Receiving, Receipting, Status
<1>11. ReceiptsNeverLost'
  <2>1. receipts[x]["delivered"] \in Nat
    BY DEF IInv, TypeOK, ReceiptTypes
  <2> QED BY <1>3, <1>4, <1>7, <2>1 DEF IInv, Receipts, ReceiptsNeverLost
<1>12. UncontendedReceiptsExact'
  <2>1. x \notin contended => x \notin deliveredAt /\ x \notin readAt
    BY <1>7 DEF IInv, Receipts, ReceiptsNeverLost
  <2>2. ASSUME NEW y \in Rows \ contended
        PROVE  /\ receipts'[y]["delivered"] = IF y \in deliveredAt' THEN 1 ELSE 0
               /\ receipts'[y]["read"] = IF y \in readAt' THEN 1 ELSE 0
               /\ Status(y)' = "read" <=> y \in readAt'
               /\ Status(y)' = "delivered" <=> y \in deliveredAt' \ readAt'
    <3>1. /\ receipts[y]["delivered"] = IF y \in deliveredAt THEN 1 ELSE 0
          /\ receipts[y]["read"] = IF y \in readAt THEN 1 ELSE 0
          /\ Status(y) = "read" <=> y \in readAt
          /\ Status(y) = "delivered" <=> y \in deliveredAt \ readAt
      BY DEF IInv, Receipts, UncontendedReceiptsExact
    <3> QED BY <1>3, <1>4, <2>1, <3>1
  <2> QED BY <1>3, <2>2 DEF UncontendedReceiptsExact, Status
<1> QED BY <1>6, <1>8, <1>10, <1>11, <1>12 DEF IInv, Receipts

LEMMA ReadCommitsKeeps ==
  ASSUME IInv, NEW r \in Requests, ReadCommits(r)
  PROVE  IInv'
<1>1. request[r] \in ReceiptRequest /\ Receipting(r) /\ request[r].pc = "read"
  BY Shapes DEF IInv, Receipting, ReadCommits
<1>2. PICK x \in Rows : x = request[r].row
  BY <1>1 DEF ReceiptRequest
<1>3. /\ SetStatus(x, "read") /\ AddEvent(x, "read") /\ readAt' = readAt \cup {x}
      /\ request' = [request EXCEPT ![r] = Idle]
      /\ UNCHANGED <<directory, messages, deliveredAt, announced, acked, early, contended, started>>
  BY <1>2 DEF ReadCommits
<1>4. /\ recipients' \in [MsgIds -> [Devices -> DeliveryStatuses]]
      /\ receipts' \in [Rows -> [ReceiptTypes -> Nat]]
      /\ Status(x)' = "read" /\ \A y \in Rows : y # x => Status(y)' = Status(y)
      /\ receipts'[x]["read"] = receipts[x]["read"] + 1
      /\ receipts'[x]["delivered"] = receipts[x]["delivered"]
      /\ \A y \in Rows : y # x => receipts'[y] = receipts[y]
  BY <1>3, ReceiptCommitDoes DEF ReceiptTypes, DeliveryStatuses
<1>5. /\ request' \in [Requests -> {Idle} \cup SendRequest \cup ReceiptRequest \cup DeleteRequest]
      /\ request'[r] = Idle /\ \A p \in Requests : p # r => request'[p] = request[p]
  BY <1>3, Moves DEF IInv
<1>6. TypeOK'
  BY <1>3, <1>4, <1>5 DEF IInv, TypeOK, directory
<1>7. /\ Status(x) # "none"
      /\ x \notin contended => /\ \A p \in Requests : Receipting(p) /\ request[p].row = x => p = r
                               /\ Status(x) \in {"pending", "delivered"}
  BY <1>1, <1>2 DEF IInv, Receipts, Receiving
<1>8. Sends'
  BY <1>3, <1>4, <1>7, ReceiptStepKeepsSends
<1>9. ~Receipting(r)'
  BY <1>5 DEF Receipting, Idle
<1>10. Receiving'
  <2>1. ASSUME NEW p \in Requests, Receipting(p)'
        PROVE  /\ Status(request[p].row)' # "none"
               /\ request'[p].row \notin contended' =>
                    /\ \A o \in Requests : Receipting(o)' /\ request'[o].row = request'[p].row => o = p
                    /\ request'[p].pc = "deliver" => Status(request[p].row)' = "pending"
                    /\ request'[p].pc = "read" => Status(request[p].row)' \in {"pending", "delivered"}
    <3>1. p # r /\ request'[p] = request[p] /\ Receipting(p)
      BY <1>5, <1>9, <2>1 DEF Receipting
    <3>2. PICK y \in Rows : y = request[p].row
      BY <3>1, Shapes DEF IInv, ReceiptRequest
    <3>3. Status(request[p].row)' = Status(y)'
      BY <3>1, <3>2 DEF Status
    <3>4. y = x => x \in contended
      BY <1>7, <3>1, <3>2
    <3>5. \A o \in Requests : Receipting(o)' => Receipting(o) /\ request'[o] = request[o]
      BY <1>5, <1>9 DEF Receipting
    <3>6. /\ Status(y) # "none"
          /\ y \notin contended =>
               /\ \A o \in Requests : Receipting(o) /\ request[o].row = y => o = p
               /\ request[p].pc = "deliver" => Status(y) = "pending"
               /\ request[p].pc = "read" => Status(y) \in {"pending", "delivered"}
      BY <3>1, <3>2 DEF IInv, Receipts, Receiving
    <3> QED BY <1>3, <1>4, <3>1, <3>2, <3>3, <3>4, <3>5, <3>6
  <2> QED BY <2>1 DEF Receiving, Receipting, Status
<1>11. ReceiptsNeverLost'
  <2>1. receipts[x]["read"] \in Nat
    BY DEF IInv, TypeOK, ReceiptTypes
  <2> QED BY <1>3, <1>4, <1>7, <2>1 DEF IInv, Receipts, ReceiptsNeverLost
<1>12. UncontendedReceiptsExact'
  <2>1. x \notin contended => x \notin readAt
    BY <1>7 DEF IInv, Receipts, UncontendedReceiptsExact
  <2>2. ASSUME NEW y \in Rows \ contended
        PROVE  /\ receipts'[y]["delivered"] = IF y \in deliveredAt' THEN 1 ELSE 0
               /\ receipts'[y]["read"] = IF y \in readAt' THEN 1 ELSE 0
               /\ Status(y)' = "read" <=> y \in readAt'
               /\ Status(y)' = "delivered" <=> y \in deliveredAt' \ readAt'
    <3>1. /\ receipts[y]["delivered"] = IF y \in deliveredAt THEN 1 ELSE 0
          /\ receipts[y]["read"] = IF y \in readAt THEN 1 ELSE 0
          /\ Status(y) = "read" <=> y \in readAt
          /\ Status(y) = "delivered" <=> y \in deliveredAt \ readAt
      BY DEF IInv, Receipts, UncontendedReceiptsExact
    <3> QED BY <1>3, <1>4, <2>1, <3>1
  <2> QED BY <1>3, <2>2 DEF UncontendedReceiptsExact, Status
<1> QED BY <1>6, <1>8, <1>10, <1>11, <1>12 DEF IInv, Receipts

-----------------------------------------------------------------------------
(* Steps                                                                   *)

LEMMA NextKeeps ==
  ASSUME IInv, [Next]_vars
  PROVE  IInv'
<1>1. ASSUME NEW u \in Users, MemberLeaves(u) \/ MemberJoins(u) PROVE IInv'
  BY <1>1, MembersKeep
<1>2. ASSUME NEW d \in Devices, DeviceRegistered(d) \/ DeviceRevoked(d) PROVE IInv'
  BY <1>2, DevicesKeep
<1>3. ASSUME NEW r \in Requests, NEW key \in Keys, SendChecks(r, key) PROVE IInv'
  BY <1>3, SendChecksKeeps
<1>4. ASSUME NEW r \in Requests,
             \/ SendInserts(r) \/ SendListsMembers(r) \/ SendPublishes(r)
             \/ SendAnswers(r) \/ SendCommits(r)
      PROVE  IInv'
  BY <1>4, SendInsertsKeeps, SendListsMembersKeeps, SendPublishesKeeps, SendAnswersKeeps, SendCommitsKeeps
<1>10. ASSUME NEW r \in Requests, NEW u \in Users, SendFansOut(r, u) PROVE IInv'
  BY <1>10, SendFansOutKeeps
<1>5. ASSUME NEW r \in Requests, DeliveredCommits(r) \/ ReadCommits(r) \/ DeleteCommits(r) PROVE IInv'
  BY <1>5, DeliveredCommitsKeeps, ReadCommitsKeeps, DeleteCommitsKeeps
<1>6. ASSUME NEW r \in Requests, RollsBack(r) PROVE IInv'
  BY <1>6, EndKeeps DEF RollsBack
<1>7. ASSUME NEW r \in Requests, NEW x \in Rows, DeliveredReads(r, x) \/ ReadReads(r, x) PROVE IInv'
  BY <1>7, ReceiptReadsKeep
<1>8. ASSUME NEW r \in Requests, NEW m \in MsgIds, NEW u \in Users, DeleteReads(r, m, u) PROVE IInv'
  BY <1>8, DeleteReadsKeeps
<1>9. CASE UNCHANGED vars
  <2>1. UNCHANGED <<directory, store, request, acked, early, contended, started>>
    BY <1>9 DEF vars, directory, store
  <2>2. TypeOK' /\ Addressing'
    BY <2>1 DEF IInv, TypeOK, Sends, Addressing, Addressed, Sending, EligibleDevices, ActiveDevices,
                directory, store
  <2> QED BY <2>1, <2>2, DirectoryKeeps
<1> QED BY <1>1, <1>2, <1>3, <1>4, <1>5, <1>6, <1>7, <1>8, <1>9, <1>10 DEF Next

\* The inductive invariant of the message service.
THEOREM Invariance == Spec => []IInv
<1>1. Init => IInv
  BY InitIInv
<1>2. IInv /\ [Next]_vars => IInv'
  BY NextKeeps
<1> QED BY <1>1, <1>2, PTL DEF Spec

-----------------------------------------------------------------------------
(* What follows                                                            *)

\* However requests, errors, rollbacks and deletions interleave, one message
\* exists per device and client_message_id (MessageService.send).
THEOREM OneMessageForEachKey == Spec => []OneMessagePerKey
<1>1. IInv => OneMessagePerKey
  BY DEF IInv, Sends, UniqueKeys, OneMessagePerKey
<1> QED BY <1>1, Invariance, PTL

\* Whatever the order of answer and commit, every 201 names the message stored
\* for its key, unless it left before a commit that is to come or never came;
\* and a message has one message.new event once it is stored, none before
\* (MessageService.send, get_db).
THEOREM AckedMeansStored == Spec => []AckedIsStored
<1>1. ASSUME IInv PROVE AckedIsStored
  <2>1. \A a \in acked : messages[a[2]].key = a[1] <=> a \notin early
    BY <1>1 DEF IInv, Sends, Acknowledged
  <2>2. ASSUME NEW m \in MsgIds
        PROVE  Cardinality(announced[m]) = IF Stored(m) THEN 1 ELSE 0
    <3>1. CASE Stored(m)
      <4>1. PICK users : announced[m] = {users}
        BY <1>1, <3>1 DEF IInv, Sends, Together
      <4> QED BY <3>1, <4>1, FS_Singleton
    <3>2. CASE ~Stored(m)
      <4>1. announced[m] = {}
        BY <1>1, <3>2 DEF IInv, Sends, Together
      <4> QED BY <3>2, <4>1, FS_EmptySet
    <3> QED BY <3>1, <3>2
  <2> QED BY <2>1, <2>2 DEF AckedIsStored
<1> QED BY <1>1, Invariance, PTL

\* Every receipt recorded in a row has its outbox event and conversely, and a
\* row never returns to pending, even when receipt requests race on it
\* (mark_delivered, mark_read).
THEOREM NoReceiptIsLost == Spec => []ReceiptsNeverLost
<1>1. IInv => ReceiptsNeverLost
  BY DEF IInv, Receipts
<1> QED BY <1>1, Invariance, PTL

\* A row that no two receipt requests worked on at once has one event per
\* receipt and the last status reached (mark_delivered, mark_read).
THEOREM UncontendedReceiptsAreExact == Spec => []UncontendedReceiptsExact
<1>1. IInv => UncontendedReceiptsExact
  BY DEF IInv, Receipts
<1> QED BY <1>1, Invariance, PTL

\* Only the commit of a send stores its message.
LEMMA LandingIsACommit ==
  ASSUME IInv, [Next]_vars, NEW r \in Requests, Lands(r)
  PROVE  SendCommits(r)
<1>1. Holding(r) /\ request[r].msg \in MsgIds /\ ~Stored(request[r].msg)
  BY DEF Lands, Holding, IInv, Sends, Holders
<1>2. messages'[request[r].msg] # messages[request[r].msg]
  BY DEF Lands
<1>3. ASSUME NEW q \in Requests, SendCommits(q) PROVE q = r
  <2>1. Holding(q)
    BY <1>3 DEF SendCommits, Holding
  <2>2. request[q].msg = request[r].msg
    BY <1>1, <1>2, <1>3, CommitStores
  <2> QED BY <1>1, <2>1, <2>2 DEF IInv, Sends, Holders
<1>4. ASSUME NEW q \in Requests, DeleteCommits(q) PROVE FALSE
  <2>1. request[q].msg # request[r].msg
    BY <1>1, <1>4 DEF DeleteCommits, IInv, Sends, Deletions
  <2>2. messages'[request[r].msg] = messages[request[r].msg]
    BY <1>1, <1>4, <2>1 DEF DeleteCommits, IInv, TypeOK
  <2> QED BY <1>2, <2>2
<1>5. messages' # messages
  BY <1>2
<1>6. \E q \in Requests : SendCommits(q) \/ DeleteCommits(q)
  BY <1>5 DEF Next, vars, store, MemberLeaves, MemberJoins, DeviceRegistered, DeviceRevoked, SendChecks,
              SendInserts, SendListsMembers, SendFansOut, SendPublishes, SendAnswers, DeliveredCommits, ReadCommits, DeliveredReads,
              ReadReads, StartReceipt, DeleteReads, RollsBack
<1> QED BY <1>3, <1>4, <1>6

\* A message that becomes visible has a recipient row and an event for every
\* device that was eligible from the check of its send to its commit, and
\* addresses nobody who had left before (send, its two list_members).
THEOREM WhoStaysIsAddressed == Spec => SendAddressesWhoStayed
<1>1. ASSUME IInv, [Next]_vars, NEW r \in Requests, Lands(r)
      PROVE  LET q == request[r] IN
             /\ \A d \in q.eligible \cap EligibleDevices(Sender(q.key)) :
                  recipients'[q.msg][d] = "pending"
             /\ \A d \in Devices : recipients'[q.msg][d] # "none" =>
                  Owner[d] \notin q.gone \cup {Sender(q.key)}
             /\ \A users \in announced'[q.msg] :
                  /\ {Owner[d] : d \in q.eligible \cap EligibleDevices(Sender(q.key))} \subseteq users
                  /\ users \cap q.gone = {}
  <2> DEFINE q == request[r]
  <2>1. SendCommits(r)
    BY <1>1, LandingIsACommit
  <2>2. /\ announced'[q.msg] = {q.audience}
        /\ \A d \in Devices : recipients'[q.msg][d] = IF d \in q.rows THEN "pending" ELSE "none"
        /\ q \in SendRequest
    BY <1>1, <2>1, CommitStores
  <2>3. Addressed(q) /\ q.pc = "commit"
    BY <1>1, <2>1 DEF IInv, Sends, Addressing, Sending, SendCommits
  <2>4. q.eligible \subseteq Devices
    BY <2>2 DEF SendRequest
  <2> QED BY <2>2, <2>3, <2>4 DEF Addressed
<1>2. IInv /\ [Next]_vars =>
        [\A r \in Requests : Lands(r) =>
           LET q == request[r] IN
           /\ \A d \in q.eligible \cap EligibleDevices(Sender(q.key)) :
                recipients'[q.msg][d] = "pending"
           /\ \A d \in Devices : recipients'[q.msg][d] # "none" =>
                Owner[d] \notin q.gone \cup {Sender(q.key)}
           /\ \A users \in announced'[q.msg] :
                /\ {Owner[d] : d \in q.eligible \cap EligibleDevices(Sender(q.key))} \subseteq users
                /\ users \cap q.gone = {}]_vars
  BY <1>1
<1> QED BY <1>2, Invariance, PTL DEF Spec, SendAddressesWhoStayed
=============================================================================
