---------------------------- MODULE NewChatsProofs ----------------------------
(***************************************************************************)
(* Proofs about NewChats, for any users, clients and bounds.               *)
(*                                                                         *)
(* create_direct has looked and found nothing when it inserts.  What it    *)
(* found is still true then unless another creation for the pair was       *)
(* under way (Waiting): only an insert of the same pair, or the commit of  *)
(* an earlier one, can make it false, because nobody comes back to a       *)
(* direct chat.                                                            *)
(***************************************************************************)
EXTENDS NewChats, FiniteSetTheorems, SequenceTheorems, TLAPS

Chat == [type : {"direct", "group"}, founders : SUBSET Users, members : SUBSET Users, settled : BOOLEAN]
Fields == {"other_user_id", "target_user_id", "member_ids", "member_user_ids"}
Creation == [pc : {"sent", "insert", "answered", "failed"}, client : Clients,
             type : {"direct", "group"}, who : SUBSET Users, field : Fields,
             chat : Ids \cup {None}, mounted : BOOLEAN]
Query == [loaded : BOOLEAN, fetch : {"idle", "asked", "served"}, data : SUBSET Ids, answer : SUBSET Ids]

ClientTypes ==
  /\ use \in Uses /\ {posted, news, leaves, fails} \subseteq Nat
  /\ posted <= MaxRequests /\ news <= MaxNews /\ leaves <= MaxLeaves /\ fails <= MaxFails
  /\ panel \in [Clients -> {"closed", "direct", "group"}]
  /\ open \in [Clients -> Ids \cup {None}]
  /\ list \in [Clients -> Query]
  /\ due \in [Clients -> SUBSET Ids]

\* A direct chat has two founders.
ChatTypes ==
  /\ chats \in Seq(Chat)
  /\ \A i \in Ids : /\ chats[i].members \subseteq chats[i].founders
                    /\ chats[i].type = "direct" => \E x, y \in Users : chats[i].founders = {x, y}

\* A creation asks for others than its client's user, a direct one for one.
Sensible(r) ==
  request[r] # Idle =>
    /\ request[r].who \subseteq Others(request[r].client) /\ request[r].who # {}
    /\ request[r].type = "direct" => \E u \in Users : request[r].who = {u}
    /\ request[r].pc = "insert" => request[r].type = "direct"

RequestTypes ==
  /\ request \in [Requests -> {Idle} \cup Creation]
  /\ \A r \in Requests : Sensible(r)

Inserting(r) == request[r].pc = "insert"

\* A direct chat that nobody has left.
Full(i) == chats[i].type = "direct" /\ chats[i].members = chats[i].founders

\* What is about to be inserted is not there, or the pair is contended.
Waiting ==
  \A r \in Requests : Inserting(r) =>
    /\ \A i \in Ids : Full(i) /\ chats[i].founders = Founders(r) => Founders(r) \in contended
    /\ \A s \in Requests : Inserting(s) /\ s # r /\ Founders(s) = Founders(r) => Founders(r) \in contended

Once ==
  \A i, j \in Ids : Full(i) /\ Full(j) /\ i # j /\ chats[i].founders = chats[j].founders
                    => chats[i].founders \in contended

Answered(r) ==
  request[r].pc = "answered" =>
    /\ request[r].chat \in Ids /\ chats[request[r].chat].type = request[r].type
    /\ chats[request[r].chat].founders = Founders(r)

Answers == \A r \in Requests : Answered(r)

ServerInv == ChatTypes /\ RequestTypes /\ Waiting /\ Once /\ Answers

IInv == ClientTypes /\ ServerInv

LEMMA InitIInv == Init => IInv
<1> SUFFICES ASSUME Init PROVE IInv
  OBVIOUS
<1>1. chats = <<>> /\ Ids = {} /\ chats \in Seq(Chat)
  BY EmptySeq DEF Init, Ids
<1>2. ChatTypes /\ Once
  BY <1>1 DEF ChatTypes, Once
<1>3. RequestTypes /\ Waiting /\ Answers
  BY <1>1 DEF Init, RequestTypes, Waiting, Answers, Sensible, Inserting, Answered, Idle
<1>4. ClientTypes
  BY <1>1, BoundsAssumption DEF Init, ClientTypes, Query
<1> QED BY <1>2, <1>3, <1>4 DEF IInv, ServerInv

-----------------------------------------------------------------------------
(* What each part of the state needs                                       *)

\* Steps of a client that leave the chats and the requests alone.
LEMMA ServerStays ==
  ASSUME IInv, UNCHANGED <<chats, request, contended>>
  PROVE  ServerInv' /\ Ids' = Ids
<1>1. Ids' = Ids
  BY DEF Ids
<1>2. Creation' = Creation
  BY <1>1 DEF Creation
<1>3. ChatTypes' /\ RequestTypes'
  BY <1>1, <1>2 DEF IInv, ServerInv, ChatTypes, RequestTypes, Sensible
<1>4. Waiting' /\ Once' /\ Answers'
  BY <1>1 DEF IInv, ServerInv, Waiting, Once, Answers, Answered, Inserting, Full, Founders
<1> QED BY <1>1, <1>3, <1>4 DEF ServerInv

\* Steps of the server that leave the clients alone, and take no chat away.
LEMMA ClientsStay ==
  ASSUME IInv, Ids \subseteq Ids', UNCHANGED <<use, posted, news, leaves, fails, panel, open, list, due>>
  PROVE  ClientTypes'
<1>1. Query \subseteq Query'
  BY DEF Query
<1> QED BY <1>1 DEF IInv, ClientTypes

\* Steps that change requests only.  What becomes of a request is sensible,
\* goes to the insert only if it was there, and has a fitting answer.
BecomesFit(r) ==
  /\ Sensible(r)'
  /\ Inserting(r)' => Inserting(r) /\ Founders(r)' = Founders(r)
  /\ Answered(r)'

LEMMA RequestsChange ==
  ASSUME IInv, UNCHANGED <<chats, contended>>, request' \in [Requests -> {Idle} \cup Creation],
         \A r \in Requests : BecomesFit(r)
  PROVE  ServerInv' /\ Ids' = Ids
<1>1. Ids' = Ids /\ Creation' = Creation
  BY DEF Ids, Creation
<1>2. ChatTypes' /\ Once'
  BY <1>1 DEF IInv, ServerInv, ChatTypes, Once, Full
<1>3. RequestTypes' /\ Answers'
  BY <1>1 DEF RequestTypes, Answers, BecomesFit
<1>4. Waiting'
  BY <1>1 DEF IInv, ServerInv, Waiting, BecomesFit, Full
<1> QED BY <1>1, <1>2, <1>3, <1>4 DEF ServerInv

\* A request that stays as it is, or ends, is fit.
LEMMA StaysFit ==
  ASSUME IInv, UNCHANGED chats, NEW r \in Requests, request'[r] = request[r] \/ request'[r] = Idle
  PROVE  BecomesFit(r)
<1>1. Ids' = Ids
  BY DEF Ids
<1>2. CASE request'[r] = Idle
  BY <1>2 DEF BecomesFit, Sensible, Inserting, Answered, Idle
<1>3. CASE request'[r] = request[r]
  <2>1. Sensible(r)' /\ Founders(r)' = Founders(r) /\ (Inserting(r)' <=> Inserting(r))
    BY <1>3 DEF IInv, ServerInv, RequestTypes, Sensible, Founders, Inserting
  <2>2. Answered(r)'
    BY <1>1, <1>3, <2>1 DEF IInv, ServerInv, Answers, Answered
  <2> QED BY <2>1, <2>2 DEF BecomesFit
<1> QED BY <1>2, <1>3

\* So is one that only moves to another state than these two.
LEMMA MovesFit ==
  ASSUME IInv, UNCHANGED chats, NEW r \in Requests, request[r] # Idle,
         NEW pc \in {"sent", "failed"}, request' = [request EXCEPT ![r].pc = pc]
  PROVE  /\ request' \in [Requests -> {Idle} \cup Creation]
         /\ \A s \in Requests : BecomesFit(s)
<1>1. request[r] \in Creation /\ request \in [Requests -> {Idle} \cup Creation]
  BY DEF IInv, ServerInv, RequestTypes
<1>2. [request[r] EXCEPT !.pc = pc] \in Creation
  BY <1>1 DEF Creation
<1>3. /\ request'[r].pc = pc /\ request'[r].who = request[r].who /\ request'[r].client = request[r].client
      /\ request'[r].type = request[r].type
  BY <1>1 DEF Creation
<1>4. BecomesFit(r)
  BY <1>3 DEF IInv, ServerInv, RequestTypes, BecomesFit, Sensible, Inserting, Answered
<1>5. \A s \in Requests : s # r => request'[s] = request[s]
  BY <1>1
<1>6. \A s \in Requests : s # r => BecomesFit(s)
  BY <1>5, StaysFit
<1> QED BY <1>1, <1>2, <1>4, <1>6

-----------------------------------------------------------------------------
(* The clients                                                             *)

LEMMA QueryTypes ==
  ASSUME IInv, NEW c \in Clients
  PROVE  /\ list[c] \in Query /\ list[c].data \subseteq Ids /\ list[c].answer \subseteq Ids
         /\ list[c].loaded \in BOOLEAN /\ list[c].fetch \in {"idle", "asked", "served"}
         /\ Invalidated(list[c]) \in Query
         /\ \A fetch \in {"idle", "asked", "served"} : [list[c] EXCEPT !.fetch = fetch] \in Query
<1>1. list[c] \in Query
  BY DEF IInv, ClientTypes
<1>2. [list[c] EXCEPT !.fetch = "asked", !.answer = {}] \in Query
  BY <1>1 DEF Query
<1> QED BY <1>1, <1>2 DEF Query, Invalidated, Asked

\* What happens to one client's list and panel.
LEMMA ListStepKeeps ==
  ASSUME IInv, NEW c \in Clients, NEW q \in Query, list' = [list EXCEPT ![c] = q],
         due' \in [Clients -> SUBSET Ids], UNCHANGED <<chats, request, contended, use, posted, leaves, panel, open>>,
         news' \in Nat, news' <= MaxNews, fails' \in Nat, fails' <= MaxFails
  PROVE  IInv'
<1>1. ServerInv' /\ Ids' = Ids
  BY ServerStays
<1>2. Query' = Query /\ list' \in [Clients -> Query]
  BY <1>1 DEF Query, IInv, ClientTypes
<1>3. ClientTypes'
  BY <1>1, <1>2 DEF IInv, ClientTypes
<1> QED BY <1>1, <1>3 DEF IInv

LEMMA Counters ==
  ASSUME IInv
  PROVE  /\ posted \in Nat /\ news \in Nat /\ leaves \in Nat /\ fails \in Nat
         /\ posted <= MaxRequests /\ news <= MaxNews /\ leaves <= MaxLeaves /\ fails <= MaxFails
         /\ {MaxRequests, MaxNews, MaxLeaves, MaxFails} \subseteq Nat
         /\ due \in [Clients -> SUBSET Ids] /\ open \in [Clients -> Ids \cup {None}]
BY BoundsAssumption DEF IInv, ClientTypes

LEMMA ListKeeps ==
  ASSUME IInv, NEW c \in Clients,
         \/ ListServed(c) \/ ListEnds(c) \/ ListFails(c) \/ WebMessageNew(c) \/ MobileRefetches(c)
  PROVE  IInv'
<1>1. list[c] \in Query /\ list[c].answer \subseteq Ids /\ Invalidated(list[c]) \in Query
  BY QueryTypes
<1>2. CASE ListServed(c)
  <2> DEFINE answer == MemberOf(Owner[c])
             q == [list[c] EXCEPT !.fetch = "served", !.answer = answer]
  <2>1. q \in Query
    <3>1. answer \in SUBSET Ids
      BY DEF MemberOf
    <3> HIDE DEF answer
    <3> QED BY <1>1, <3>1 DEF Query
  <2>2. list' = [list EXCEPT ![c] = q]
    BY <1>2 DEF ListServed
  <2> HIDE DEF q
  <2> QED BY <1>2, <2>1, <2>2, Counters, ListStepKeeps DEF ListServed, counters
<1>3. CASE ListEnds(c)
  <2> DEFINE q == [loaded |-> TRUE, fetch |-> "idle", data |-> list[c].answer, answer |-> {}]
  <2>1. q \in Query
    BY <1>1 DEF Query
  <2>2. list' = [list EXCEPT ![c] = q]
    BY <1>3 DEF ListEnds
  <2> HIDE DEF q
  <2> QED BY <1>3, <2>1, <2>2, Counters, ListStepKeeps DEF ListEnds, counters
<1>4. CASE ListFails(c)
  <2> DEFINE q == [list[c] EXCEPT !.fetch = "idle"]
  <2>1. q \in Query
    BY QueryTypes
  <2>2. list' = [list EXCEPT ![c] = q]
    BY <1>4 DEF ListFails
  <2>3. fails' = fails + 1 /\ fails < MaxFails /\ due' = [due EXCEPT ![c] = {}]
        /\ UNCHANGED <<chats, request, contended, use, posted, leaves, panel, open, news>>
    BY <1>4 DEF ListFails
  <2>4. fails' \in Nat /\ fails' <= MaxFails
    BY <2>3, Counters
  <2>5. due' \in [Clients -> SUBSET Ids]
    BY <2>3, Counters
  <2> HIDE DEF q
  <2> QED BY <2>1, <2>2, <2>3, <2>4, <2>5, Counters, ListStepKeeps
<1>5. CASE WebMessageNew(c)
  <2>1. /\ news' = news + 1 /\ news < MaxNews /\ list' = [list EXCEPT ![c] = Invalidated(list[c])]
        /\ UNCHANGED <<chats, request, contended, use, posted, leaves, panel, open, fails, due>>
    BY <1>5 DEF WebMessageNew
  <2>2. news' \in Nat /\ news' <= MaxNews
    BY <2>1, Counters
  <2> QED BY <1>1, <2>1, <2>2, Counters, ListStepKeeps
<1>6. CASE MobileRefetches(c)
  <2>1. /\ list' = [list EXCEPT ![c] = Invalidated(list[c])]
        /\ UNCHANGED <<chats, request, contended, use, posted, leaves, panel, open, fails, news, due>>
    BY <1>6 DEF MobileRefetches, counters
  <2> QED BY <1>1, <2>1, Counters, ListStepKeeps
<1> QED BY <1>2, <1>3, <1>4, <1>5, <1>6

\* A dialogue or a chat is opened, or a dialogue closed.
LEMMA ViewKeeps ==
  ASSUME IInv, panel' \in [Clients -> {"closed", "direct", "group"}],
         open' \in [Clients -> Ids \cup {None}],
         UNCHANGED <<chats, request, contended, counters, list, due>>
  PROVE  IInv'
<1>1. ServerInv' /\ Ids' = Ids
  BY ServerStays
<1>2. Query' = Query
  BY <1>1 DEF Query
<1> QED BY <1>1, <1>2 DEF IInv, ClientTypes, counters

LEMMA MobileClosesKeeps ==
  ASSUME IInv, NEW c \in Clients, MobileClosesPanel(c)
  PROVE  IInv'
<1>1. /\ request' = [r \in Requests |-> IF request[r] # Idle /\ request[r].client = c
                                        THEN [request[r] EXCEPT !.mounted = FALSE] ELSE request[r]]
      /\ panel' = [panel EXCEPT ![c] = "closed"] /\ UNCHANGED <<chats, counters, open, list, due, contended>>
  BY DEF MobileClosesPanel, Closed
<1>2. request \in [Requests -> {Idle} \cup Creation]
  BY DEF IInv, ServerInv, RequestTypes
<1>3. \A q \in Creation : [q EXCEPT !.mounted = FALSE] \in Creation
  BY DEF Creation
<1>4. request' \in [Requests -> {Idle} \cup Creation]
  BY <1>1, <1>2, <1>3
<1>5. Ids' = Ids
  BY <1>1 DEF Ids
<1>6. ASSUME NEW r \in Requests PROVE BecomesFit(r)
  <2>1. CASE request'[r] = request[r]
    BY <1>1, <2>1, StaysFit
  <2>2. CASE request[r] \in Creation /\ request'[r] = [request[r] EXCEPT !.mounted = FALSE]
    <3>1. /\ request'[r].pc = request[r].pc /\ request'[r].who = request[r].who /\ request'[r].chat = request[r].chat
          /\ request'[r].client = request[r].client /\ request'[r].type = request[r].type
      BY <2>2 DEF Creation
    <3>2. Founders(r)' = Founders(r)
      BY <3>1 DEF Founders
    <3>3. request[r] # Idle
      BY <2>2 DEF Creation, Idle
    <3>4. Sensible(r)'
      BY <3>1, <3>3 DEF IInv, ServerInv, RequestTypes, Sensible
    <3>5. Answered(r)'
      BY <1>1, <1>5, <3>1, <3>2 DEF IInv, ServerInv, Answers, Answered
    <3> QED BY <3>1, <3>2, <3>4, <3>5 DEF BecomesFit, Inserting
  <2> QED BY <1>1, <1>2, <2>1, <2>2
<1>7. ServerInv'
  BY <1>1, <1>4, <1>6, RequestsChange
<1>8. Query' = Query
  BY <1>5 DEF Query
<1>9. ClientTypes'
  BY <1>1, <1>5, <1>8 DEF IInv, ClientTypes, counters
<1> QED BY <1>7, <1>9 DEF IInv

LEMMA PostsKeeps ==
  ASSUME IInv, NEW c \in Clients, NEW type \in {"direct", "group"}, NEW who \in SUBSET Others(c), who # {},
         NEW field \in Fields, type = "direct" => \E u \in Users : who = {u}, Posts(c, type, who, field)
  PROVE  IInv'
<1> DEFINE new == [pc |-> "sent", client |-> c, type |-> type, who |-> who, field |-> field,
                   chat |-> None, mounted |-> TRUE]
<1> PICK n : n = posted + 1
  OBVIOUS
<1>1. /\ posted < MaxRequests /\ posted' = n /\ request' = [request EXCEPT ![n] = new]
      /\ UNCHANGED <<use, chats, news, leaves, fails, panel, open, list, due, contended>>
  BY DEF Posts
<1>2. n \in Requests /\ n \in Nat /\ n <= MaxRequests
  BY <1>1, Counters DEF Requests
<1>3. new \in Creation
  BY DEF Creation, Others
<1>4. request \in [Requests -> {Idle} \cup Creation]
  BY DEF IInv, ServerInv, RequestTypes
<1>5. request' \in [Requests -> {Idle} \cup Creation]
  BY <1>1, <1>2, <1>3, <1>4
<1>6. BecomesFit(n)
  <2>1. request'[n] = new
    BY <1>1, <1>2, <1>4
  <2> QED BY <2>1 DEF BecomesFit, Sensible, Inserting, Answered, Idle
<1>7. ASSUME NEW r \in Requests, r # n PROVE BecomesFit(r)
  <2>1. request'[r] = request[r]
    BY <1>1, <1>2, <1>4, <1>7
  <2> QED BY <1>1, <2>1, StaysFit
<1>8. ServerInv' /\ Ids' = Ids
  BY <1>1, <1>5, <1>6, <1>7, RequestsChange
<1>9. Query' = Query
  BY <1>8 DEF Query
<1>10. ClientTypes'
  BY <1>1, <1>2, <1>8, <1>9 DEF IInv, ClientTypes
<1> QED BY <1>8, <1>10 DEF IInv

LEMMA ClientKeeps ==
  ASSUME IInv, NEW c \in Clients, Client(c)
  PROVE  IInv'
<1>1. panel \in [Clients -> {"closed", "direct", "group"}] /\ open \in [Clients -> Ids \cup {None}]
  BY DEF IInv, ClientTypes
<1>2. ASSUME NEW p \in {"direct", "group"}, OpensPanel(c, p) PROVE IInv'
  BY <1>1, <1>2, ViewKeeps DEF OpensPanel
<1>3. CASE WebClosesPanel(c)
  BY <1>1, <1>3, ViewKeeps DEF WebClosesPanel, Closed
<1>4. CASE MobileClosesPanel(c)
  BY <1>4, MobileClosesKeeps
<1>5. ASSUME NEW u \in Others(c), WebPicks(c, u) \/ MobilePicks(c, u) PROVE IInv'
  <2>1. {u} \in SUBSET Others(c) /\ {u} # {} /\ \E v \in Users : {u} = {v}
    BY DEF Others
  <2>2. PICK field \in Fields : Posts(c, "direct", {u}, field)
    BY <1>5 DEF WebPicks, MobilePicks, Fields
  <2> QED BY <2>1, <2>2, PostsKeeps
<1>6. ASSUME NEW selected \in Selections(c), WebSubmits(c, selected) \/ MobileSubmits(c, selected) PROVE IInv'
  <2>1. selected \in SUBSET Others(c) /\ selected # {}
    BY DEF Selections
  <2>2. PICK field \in Fields : Posts(c, "group", selected, field)
    BY <1>6 DEF WebSubmits, MobileSubmits, Fields
  <2> QED BY <2>1, <2>2, PostsKeeps
<1>7. ASSUME NEW i \in Ids, OpensListed(c, i) PROVE IInv'
  BY <1>1, <1>7, ViewKeeps DEF OpensListed
<1>8. CASE ListServed(c) \/ ListEnds(c) \/ ListFails(c) \/ WebMessageNew(c) \/ MobileRefetches(c)
  BY <1>8, ListKeeps
<1> QED BY <1>2, <1>3, <1>4, <1>5, <1>6, <1>7, <1>8 DEF Client

-----------------------------------------------------------------------------
(* The server                                                              *)

\* Refusals, losses and ends: only the state of a request, and a counter.
LEMMA FailuresKeep ==
  ASSUME IInv, NEW r \in Requests, request[r] # Idle, Refused(r) \/ Lost(r) \/ CreationFailed(r)
  PROVE  IInv'
<1>1. CASE Refused(r)
  <2>1. ServerInv' /\ Ids' = Ids
    BY <1>1, MovesFit, RequestsChange DEF Refused
  <2>2. ClientTypes'
    BY <1>1, <2>1, ClientsStay DEF Refused, counters
  <2> QED BY <2>1, <2>2 DEF IInv
<1>2. CASE Lost(r)
  <2>1. ServerInv' /\ Ids' = Ids
    BY <1>2, MovesFit, RequestsChange DEF Lost
  <2>2. Query' = Query
    BY <2>1 DEF Query
  <2>3. /\ fails' = fails + 1 /\ fails < MaxFails
        /\ UNCHANGED <<use, posted, news, leaves, panel, open, list, due>>
    BY <1>2 DEF Lost
  <2>4. fails' \in Nat /\ fails' <= MaxFails
    BY <2>3, Counters
  <2>5. ClientTypes'
    BY <2>1, <2>2, <2>3, <2>4 DEF IInv, ClientTypes
  <2> QED BY <2>1, <2>5 DEF IInv
<1>3. CASE CreationFailed(r)
  <2>1. request' = [request EXCEPT ![r] = Idle]
        /\ UNCHANGED <<chats, counters, panel, open, list, due, contended>>
    BY <1>3 DEF CreationFailed
  <2>2. request \in [Requests -> {Idle} \cup Creation]
    BY DEF IInv, ServerInv, RequestTypes
  <2>3. request' \in [Requests -> {Idle} \cup Creation]
    BY <2>1, <2>2
  <2>4. ASSUME NEW s \in Requests PROVE BecomesFit(s)
    <3>1. request'[s] = request[s] \/ request'[s] = Idle
      BY <2>1, <2>2
    <3> QED BY <2>1, <3>1, StaysFit
  <2>5. ServerInv' /\ Ids' = Ids
    BY <2>1, <2>3, <2>4, RequestsChange
  <2>6. ClientTypes'
    BY <2>1, <2>5, ClientsStay DEF counters
  <2> QED BY <2>5, <2>6 DEF IInv
<1> QED BY <1>1, <1>2, <1>3

\* A direct chat in which both are members was founded by just these two.
LEMMA FoundIsTheirs ==
  ASSUME IInv, NEW a \in Users, NEW b \in Users, a # b, NEW i \in get_direct(a, b)
  PROVE  i \in Ids /\ chats[i].type = "direct" /\ chats[i].founders = {a, b}
<1>1. /\ i \in Ids /\ chats[i].type = "direct" /\ a \in chats[i].members /\ b \in chats[i].members
      /\ chats[i].members \subseteq chats[i].founders
  BY DEF get_direct, MemberOf, IInv, ServerInv, ChatTypes
<1>2. PICK x \in Users, y \in Users : chats[i].founders = {x, y}
  BY <1>1 DEF IInv, ServerInv, ChatTypes
<1> QED BY <1>1, <1>2

\* Who asks for one chat asks for one other user.
LEMMA AskedForOne ==
  ASSUME IInv, NEW r \in Requests, request[r] # Idle, request[r].type = "direct"
  PROVE  \E u \in Others(request[r].client) :
           request[r].who = {u} /\ u # Owner[request[r].client] /\ u \in Users
           /\ Founders(r) = {Owner[request[r].client], u} /\ Owner[request[r].client] \in Users
           /\ request[r].client \in Clients
<1>1. request[r] \in Creation /\ Sensible(r)
  BY DEF IInv, ServerInv, RequestTypes
<1>2. request[r].client \in Clients
  BY <1>1 DEF Creation
<1>3. PICK u \in Users : request[r].who = {u}
  BY <1>1 DEF Sensible
<1>4. u \in Others(request[r].client)
  BY <1>1, <1>3 DEF Sensible
<1> QED BY <1>2, <1>3, <1>4, OwnerAssumption DEF Others, Founders

\* The lookup that finds a chat.
LEMMA FindsKeeps ==
  ASSUME IInv, NEW r \in Requests, request[r] # Idle, request[r].type = "direct", NEW i \in Ids,
         chats[i].type = "direct", chats[i].founders = Founders(r),
         request' = [request EXCEPT ![r].pc = "answered", ![r].chat = i], UNCHANGED <<chats, contended>>
  PROVE  ServerInv' /\ Ids' = Ids
<1>1. request \in [Requests -> {Idle} \cup Creation] /\ request[r] \in Creation /\ Sensible(r)
  BY DEF IInv, ServerInv, RequestTypes
<1>2. [request[r] EXCEPT !.pc = "answered", !.chat = i] \in Creation
  BY <1>1 DEF Creation
<1>3. request' \in [Requests -> {Idle} \cup Creation]
  BY <1>1, <1>2
<1>4. /\ request'[r].pc = "answered" /\ request'[r].chat = i /\ request'[r].who = request[r].who
      /\ request'[r].client = request[r].client /\ request'[r].type = request[r].type
  BY <1>1 DEF Creation
<1>5. Founders(r)' = Founders(r) /\ Ids' = Ids
  BY <1>4 DEF Founders, Ids
<1>6. Answered(r)'
  BY <1>4, <1>5 DEF Answered
<1>7. BecomesFit(r)
  BY <1>1, <1>4, <1>6 DEF BecomesFit, Sensible, Inserting
<1>8. ASSUME NEW s \in Requests, s # r PROVE BecomesFit(s)
  <2>1. request'[s] = request[s]
    BY <1>1, <1>8
  <2> QED BY <2>1, StaysFit
<1> QED BY <1>3, <1>7, <1>8, RequestsChange

\* The lookup that finds none notes whether it has company.
LEMMA FindsNoneKeeps ==
  ASSUME IInv, NEW r \in Requests, request[r].pc = "sent", request[r].type = "direct",
         \A i \in Ids : Full(i) /\ chats[i].founders = Founders(r) => UnderWay(Founders(r)),
         request' = [request EXCEPT ![r].pc = "insert"],
         contended \subseteq contended', UnderWay(Founders(r)) => Founders(r) \in contended',
         UNCHANGED chats
  PROVE  ServerInv' /\ Ids' = Ids
<1>1. /\ request \in [Requests -> {Idle} \cup Creation] /\ request[r] \in Creation /\ request[r] # Idle
      /\ \A s \in Requests : Sensible(s) /\ Answered(s)
  BY DEF IInv, ServerInv, RequestTypes, Answers, Idle
<1>2. [request[r] EXCEPT !.pc = "insert"] \in Creation
  BY <1>1 DEF Creation
<1>3. /\ request'[r].pc = "insert" /\ request'[r].who = request[r].who
      /\ request'[r].client = request[r].client /\ request'[r].type = request[r].type
  BY <1>1 DEF Creation
<1>4. \A s \in Requests : s # r => request'[s] = request[s]
  BY <1>1
<1>5. Ids' = Ids /\ Creation' = Creation
  BY DEF Ids, Creation
<1>6. \A s \in Requests : Founders(s)' = Founders(s)
  BY <1>3, <1>4 DEF Founders
<1>7. Inserting(r)' /\ ~Inserting(r) /\ \A s \in Requests : s # r => (Inserting(s)' <=> Inserting(s))
  BY <1>3, <1>4 DEF Inserting
<1>8. ChatTypes' /\ Once'
  BY <1>5 DEF IInv, ServerInv, ChatTypes, Once, Full
<1>9. RequestTypes'
  <2>1. request' \in [Requests -> {Idle} \cup Creation]
    BY <1>1, <1>2
  <2>2. Sensible(r)'
    BY <1>1, <1>3 DEF Sensible
  <2>3. \A s \in Requests : s # r => Sensible(s)'
    BY <1>1, <1>4 DEF Sensible
  <2> QED BY <1>5, <2>1, <2>2, <2>3 DEF RequestTypes
<1>10. Answers'
  BY <1>1, <1>3, <1>4, <1>5, <1>6 DEF Answers, Answered
<1>11. Waiting'
  <2>1. SUFFICES ASSUME NEW s \in Requests, Inserting(s)'
                 PROVE  /\ \A i \in Ids : Full(i) /\ chats[i].founders = Founders(s) => Founders(s) \in contended'
                        /\ \A t \in Requests : Inserting(t)' /\ t # s /\ Founders(t) = Founders(s)
                                               => Founders(s) \in contended'
    BY <1>5, <1>6 DEF Waiting, Full
  <2>2. CASE s = r
    BY <1>7, <2>2 DEF Inserting, UnderWay
  <2>3. CASE s # r
    <3>1. Inserting(s) /\ request[s].pc = "insert"
      BY <1>7, <2>1, <2>3 DEF Inserting
    <3>2. Founders(s) = Founders(r) => Founders(s) \in contended'
      BY <3>1 DEF UnderWay
    <3>3. /\ \A i \in Ids : Full(i) /\ chats[i].founders = Founders(s) => Founders(s) \in contended
          /\ \A t \in Requests : Inserting(t) /\ t # s /\ Founders(t) = Founders(s) => Founders(s) \in contended
      BY <3>1 DEF IInv, ServerInv, Waiting
    <3> QED BY <1>7, <3>2, <3>3
  <2> QED BY <2>2, <2>3
<1> QED BY <1>5, <1>8, <1>9, <1>10, <1>11 DEF ServerInv

LEMMA LooksUpKeeps ==
  ASSUME IInv, NEW r \in Requests, LooksUp(r)
  PROVE  IInv'
<1> DEFINE a == Owner[request[r].client]
           found == UNION {get_direct(a, u) : u \in request[r].who}
<1>1. request[r].pc = "sent" /\ request[r].type = "direct" /\ request[r] # Idle
  BY DEF LooksUp, Idle
<1>2. UNCHANGED <<chats, use, posted, news, leaves, fails, panel, open, list, due>>
  BY DEF LooksUp, counters
<1>3. PICK u \in Users : /\ request[r].who = {u} /\ u # a /\ a \in Users /\ Founders(r) = {a, u}
  BY <1>1, AskedForOne
<1>4. found = get_direct(a, u)
  BY <1>3
<1>5. CASE found # {}
  <2>1. PICK i \in found : request' = [request EXCEPT ![r].pc = "answered", ![r].chat = i] /\ UNCHANGED contended
    BY <1>5 DEF LooksUp
  <2>2. i \in Ids /\ chats[i].type = "direct" /\ chats[i].founders = Founders(r)
    BY <1>3, <1>4, <2>1, FoundIsTheirs
  <2> QED BY <1>1, <1>2, <2>1, <2>2, FindsKeeps, ClientsStay DEF IInv
<1>6. CASE found = {}
  <2>1. /\ request' = [request EXCEPT ![r].pc = "insert"]
        /\ contended' = IF UnderWay(Founders(r)) THEN contended \cup {Founders(r)} ELSE contended
    BY <1>6 DEF LooksUp
  <2>2. \A i \in Ids : Full(i) /\ chats[i].founders = Founders(r) => UnderWay(Founders(r))
    BY <1>3, <1>4, <1>6 DEF Full, get_direct, MemberOf, UnderWay
  <2>3. contended \subseteq contended' /\ (UnderWay(Founders(r)) => Founders(r) \in contended')
    BY <2>1
  <2>4. request' = [request EXCEPT ![r].pc = "insert"] /\ UNCHANGED chats
    BY <1>2, <2>1
  <2>5. ServerInv' /\ Ids' = Ids
    BY <1>1, <2>2, <2>3, <2>4, FindsNoneKeeps
  <2> QED BY <1>2, <2>5, ClientsStay DEF IInv
<1> QED BY <1>5, <1>6

\* The new chat stands at the end, for everyone in it.
LEMMA InsertsKeeps ==
  ASSUME IInv, NEW r \in Requests, NEW settled \in BOOLEAN, request[r] # Idle, Inserts(r, settled),
         request[r].type = "direct" => Inserting(r)
  PROVE  IInv'
<1> DEFINE new == [type |-> request[r].type, founders |-> Founders(r), members |-> Founders(r),
                   settled |-> settled]
<1>1. /\ chats \in Seq(Chat) /\ request \in [Requests -> {Idle} \cup Creation] /\ request[r] \in Creation
      /\ \A s \in Requests : Sensible(s) /\ Answered(s)
  BY DEF IInv, ServerInv, ChatTypes, RequestTypes, Answers
<1>2. Founders(r) \in SUBSET Users /\ request[r].type \in {"direct", "group"}
  BY <1>1, OwnerAssumption DEF Founders, Creation
<1>3. new \in Chat
  BY <1>2 DEF Chat
<1>4. PICK n \in Nat : n = Len(chats) + 1
  BY <1>1
<1>5. /\ chats' = Append(chats, new) /\ UNCHANGED <<counters, panel, open, list, due, contended>>
  BY DEF Inserts
<1>6. /\ chats' \in Seq(Chat) /\ Len(chats') = n /\ Ids' = Ids \cup {n} /\ n \notin Ids
      /\ chats'[n] = new /\ \A i \in Ids : chats'[i] = chats[i]
  <2> HIDE DEF new
  <2>1. chats' \in Seq(Chat) /\ Len(chats') = n /\ chats'[n] = new
    BY <1>1, <1>3, <1>4, <1>5, AppendProperties
  <2>2. \A i \in 1..Len(chats) : chats'[i] = chats[i]
    BY <1>1, <1>3, <1>5, AppendProperties
  <2>3. Ids' = Ids \cup {n} /\ n \notin Ids
    <3>1. Len(chats) \in Nat
      BY <1>1
    <3> QED BY <1>4, <2>1, <3>1 DEF Ids
  <2> QED BY <2>1, <2>2, <2>3 DEF Ids
<1>7. request' = [request EXCEPT ![r].pc = "answered", ![r].chat = n]
  BY <1>6 DEF Inserts
<1>8. /\ request'[r].pc = "answered" /\ request'[r].chat = n /\ request'[r].who = request[r].who
      /\ request'[r].client = request[r].client /\ request'[r].type = request[r].type
  BY <1>1, <1>7 DEF Creation
<1>9. \A s \in Requests : s # r => request'[s] = request[s]
  BY <1>1, <1>7
<1>10. \A s \in Requests : Founders(s)' = Founders(s)
  BY <1>8, <1>9 DEF Founders
<1>11. ~Inserting(r)' /\ \A s \in Requests : s # r => (Inserting(s)' <=> Inserting(s))
  BY <1>8, <1>9 DEF Inserting
<1>12. \A i \in Ids : Full(i)' <=> Full(i)
  BY <1>6 DEF Full
<1>13. ChatTypes'
  <2>1. new.type = "direct" => \E x, y \in Users : new.founders = {x, y}
    BY AskedForOne
  <2>2. new.members \subseteq new.founders
    OBVIOUS
  <2> HIDE DEF new
  <2> QED BY <1>6, <2>1, <2>2 DEF IInv, ServerInv, ChatTypes
<1>14. RequestTypes'
  <2>1. Creation \subseteq Creation' /\ n \in Ids'
    BY <1>6 DEF Creation
  <2>2. request'[r] \in Creation'
    BY <1>1, <1>7, <2>1 DEF Creation
  <2>3. request' \in [Requests -> {Idle} \cup Creation']
    BY <1>1, <1>7, <1>9, <2>1, <2>2
  <2>4. Sensible(r)'
    BY <1>1, <1>8 DEF Sensible
  <2>5. \A s \in Requests : s # r => Sensible(s)'
    BY <1>1, <1>9 DEF Sensible
  <2> QED BY <2>3, <2>4, <2>5 DEF RequestTypes
<1>15. Waiting'
  <2>1. SUFFICES ASSUME NEW s \in Requests, Inserting(s)'
                 PROVE  /\ \A i \in Ids' : Full(i)' /\ chats'[i].founders = Founders(s) => Founders(s) \in contended
                        /\ \A t \in Requests : Inserting(t)' /\ t # s /\ Founders(t) = Founders(s)
                                               => Founders(s) \in contended
    BY <1>5, <1>10 DEF Waiting
  <2>2. s # r /\ Inserting(s)
    BY <1>11, <2>1
  <2>3. /\ \A i \in Ids : Full(i) /\ chats[i].founders = Founders(s) => Founders(s) \in contended
        /\ \A t \in Requests : Inserting(t) /\ t # s /\ Founders(t) = Founders(s) => Founders(s) \in contended
    BY <2>2 DEF IInv, ServerInv, Waiting
  <2>4. ASSUME Full(n)', chats'[n].founders = Founders(s) PROVE Founders(s) \in contended
    <3>1. request[r].type = "direct" /\ Founders(r) = Founders(s)
      BY <1>6, <2>4 DEF Full
    <3> QED BY <2>2, <2>3, <3>1
  <2>5. ASSUME NEW i \in Ids', Full(i)', chats'[i].founders = Founders(s) PROVE Founders(s) \in contended
    <3>1. CASE i = n
      BY <2>4, <2>5, <3>1
    <3>2. CASE i \in Ids
      BY <1>6, <1>12, <2>3, <2>5, <3>2
    <3> QED BY <1>6, <3>1, <3>2
  <2> QED BY <1>11, <2>3, <2>5
<1>16. Once'
  <2>1. ASSUME Full(n)', NEW i \in Ids, Full(i), chats[i].founders = Founders(r) PROVE Founders(r) \in contended
    <3>1. Inserting(r)
      BY <1>6, <2>1 DEF Full
    <3> QED BY <2>1, <3>1 DEF IInv, ServerInv, Waiting
  <2>2. SUFFICES ASSUME NEW i \in Ids', NEW j \in Ids', Full(i)', Full(j)', i # j,
                        chats'[i].founders = chats'[j].founders
                 PROVE  chats'[i].founders \in contended
    BY <1>5 DEF Once
  <2>3. chats'[n].founders = Founders(r)
    BY <1>6
  <2>4. CASE i = n
    BY <1>6, <1>12, <2>1, <2>2, <2>3, <2>4
  <2>5. CASE j = n
    BY <1>6, <1>12, <2>1, <2>2, <2>3, <2>5
  <2>6. CASE i \in Ids /\ j \in Ids
    BY <1>6, <1>12, <2>2, <2>6 DEF IInv, ServerInv, Once
  <2> QED BY <1>6, <2>4, <2>5, <2>6
<1>17. Answers'
  <2>1. Answered(r)'
    BY <1>6, <1>8, <1>10 DEF Answered
  <2>2. \A s \in Requests : s # r => Answered(s)'
    BY <1>1, <1>6, <1>9, <1>10 DEF Answered
  <2> QED BY <2>1, <2>2 DEF Answers
<1>18. ClientTypes'
  BY <1>5, <1>6, ClientsStay DEF counters
<1> QED BY <1>13, <1>14, <1>15, <1>16, <1>17, <1>18 DEF IInv, ServerInv

LEMMA WebCreatedKeeps ==
  ASSUME IInv, NEW r \in Requests, WebCreated(r)
  PROVE  IInv'
<1>1. request[r].pc = "answered" /\ request[r] # Idle
  BY DEF WebCreated, Idle
<1>2. request \in [Requests -> {Idle} \cup Creation] /\ request[r] \in Creation
  BY <1>1 DEF IInv, ServerInv, RequestTypes
<1>3. PICK c \in Clients, i \in Ids, type \in {"direct", "group"} :
        c = request[r].client /\ i = request[r].chat /\ type = request[r].type
  BY <1>1, <1>2 DEF IInv, ServerInv, Answers, Answered, Creation
<1>4. /\ list' = [list EXCEPT ![c] = Invalidated(list[c])] /\ open' = [open EXCEPT ![c] = i]
      /\ due' \in {due, [due EXCEPT ![c] = due[c] \cup {i}]}
      /\ panel' \in {panel, [panel EXCEPT ![c] = "closed"]}
      /\ request' = [request EXCEPT ![r] = Idle] /\ UNCHANGED <<chats, counters, contended>>
  BY <1>3 DEF WebCreated, Closed
<1>5. request' \in [Requests -> {Idle} \cup Creation]
  BY <1>2, <1>4
<1>6. ASSUME NEW s \in Requests PROVE BecomesFit(s)
  <2>1. request'[s] = request[s] \/ request'[s] = Idle
    BY <1>2, <1>4
  <2> QED BY <1>4, <2>1, StaysFit
<1>7. ServerInv' /\ Ids' = Ids
  BY <1>4, <1>5, <1>6, RequestsChange
<1>8. Query' = Query
  BY <1>7 DEF Query
<1>9. /\ list \in [Clients -> Query] /\ due \in [Clients -> SUBSET Ids]
      /\ open \in [Clients -> Ids \cup {None}] /\ panel \in [Clients -> {"closed", "direct", "group"}]
  BY DEF IInv, ClientTypes
<1>10. list' \in [Clients -> Query']
  BY <1>4, <1>8, <1>9, QueryTypes
<1>11. due' \in [Clients -> SUBSET Ids']
  BY <1>4, <1>7, <1>9
<1>12. open' \in [Clients -> Ids' \cup {None}] /\ panel' \in [Clients -> {"closed", "direct", "group"}]
  BY <1>4, <1>7, <1>9
<1>13. ClientTypes'
  BY <1>4, <1>10, <1>11, <1>12 DEF IInv, ClientTypes, counters
<1> QED BY <1>7, <1>13 DEF IInv

LEMMA ServerKeeps ==
  ASSUME IInv, NEW r \in Requests, Server(r)
  PROVE  IInv'
<1>1. request[r] # Idle
  BY DEF Server
<1>2. CASE Refused(r) \/ Lost(r) \/ CreationFailed(r)
  BY <1>1, <1>2, FailuresKeep
<1>3. CASE LooksUp(r)
  BY <1>3, LooksUpKeeps
<1>4. ASSUME NEW settled \in BOOLEAN, CreateDirect(r, settled) PROVE IInv'
  BY <1>1, <1>4, InsertsKeeps DEF CreateDirect, Inserting
<1>5. ASSUME NEW settled \in BOOLEAN, CreateGroup(r, settled) PROVE IInv'
  BY <1>1, <1>5, InsertsKeeps DEF CreateGroup
<1>6. CASE WebCreated(r)
  BY <1>6, WebCreatedKeeps
<1> QED BY <1>2, <1>3, <1>4, <1>5, <1>6 DEF Server

\* A chat that loses members and gets none: who leaves a direct chat leaves it
\* for good, and it is full no more.
LEMMA ChatChanges ==
  ASSUME IInv, NEW i \in Ids, NEW left \in Chat, left.type = chats[i].type,
         left.founders = chats[i].founders, left.members \subseteq chats[i].members,
         chats' = [chats EXCEPT ![i] = left], leaves' \in Nat, leaves' <= MaxLeaves,
         fails' \in Nat, fails' <= MaxFails,
         UNCHANGED <<request, use, posted, news, panel, open, list, due, contended>>
  PROVE  IInv'
<1>1. chats \in Seq(Chat)
  BY DEF IInv, ServerInv, ChatTypes
<1>2. chats' \in Seq(Chat) /\ Len(chats') = Len(chats)
  BY <1>1, ExceptSeq DEF Ids
<1>3. Ids' = Ids
  BY <1>2 DEF Ids
<1>4. chats'[i] = left /\ \A j \in Ids : j # i => chats'[j] = chats[j]
  BY <1>1 DEF Ids
<1>5. /\ \A j \in Ids : /\ chats'[j].type = chats[j].type /\ chats'[j].founders = chats[j].founders
                        /\ chats'[j].members \subseteq chats[j].members
      /\ chats[i].members \subseteq chats[i].founders
  BY <1>4 DEF IInv, ServerInv, ChatTypes
<1>6. ASSUME NEW j \in Ids, Full(j)' PROVE Full(j)
  <2>1. chats[j].members \subseteq chats[j].founders
    BY DEF IInv, ServerInv, ChatTypes
  <2> QED BY <1>5, <1>6, <2>1 DEF Full
<1>7. ChatTypes'
  BY <1>2, <1>3, <1>5 DEF IInv, ServerInv, ChatTypes
<1>8. RequestTypes'
  <2>1. Creation' = Creation
    BY <1>3 DEF Creation
  <2> QED BY <2>1 DEF IInv, ServerInv, RequestTypes, Sensible
<1>9. \A r \in Requests : Founders(r)' = Founders(r) /\ (Inserting(r)' <=> Inserting(r))
  BY DEF Founders, Inserting
<1>10. Waiting'
  BY <1>3, <1>5, <1>6, <1>9 DEF IInv, ServerInv, Waiting
<1>11. Once'
  BY <1>3, <1>5, <1>6 DEF IInv, ServerInv, Once
<1>12. Answers'
  BY <1>3, <1>5, <1>9 DEF IInv, ServerInv, Answers, Answered
<1>13. Query' = Query
  BY <1>3 DEF Query
<1>14. ClientTypes'
  BY <1>3, <1>13 DEF IInv, ClientTypes
<1> QED BY <1>7, <1>8, <1>10, <1>11, <1>12, <1>14 DEF IInv, ServerInv

LEMMA ChatKeeps ==
  ASSUME IInv, NEW i \in Ids, Commits(i) \/ RollsBack(i) \/ \E u \in Users : Leave(u, i)
  PROVE  IInv'
<1>1. chats[i] \in Chat /\ chats \in Seq(Chat)
  BY DEF IInv, ServerInv, ChatTypes, Ids
<1>2. ASSUME NEW left \in Chat, left.type = chats[i].type, left.founders = chats[i].founders,
             left.members \subseteq chats[i].members, chats' = [chats EXCEPT ![i] = left],
             \/ leaves' = leaves /\ fails' = fails
             \/ leaves < MaxLeaves /\ leaves' = leaves + 1 /\ fails' = fails
             \/ fails < MaxFails /\ fails' = fails + 1 /\ leaves' = leaves,
             UNCHANGED <<request, use, posted, news, panel, open, list, due, contended>>
      PROVE  IInv'
  <2>1. leaves' \in Nat /\ leaves' <= MaxLeaves /\ fails' \in Nat /\ fails' <= MaxFails
    BY <1>2, Counters
  <2> QED BY <1>2, <2>1, ChatChanges
<1>3. CASE Commits(i)
  <2> DEFINE left == [chats[i] EXCEPT !.settled = TRUE]
  <2>1. left \in Chat /\ left.type = chats[i].type /\ left.founders = chats[i].founders
        /\ left.members \subseteq chats[i].members
    BY <1>1 DEF Chat
  <2>2. chats' = [chats EXCEPT ![i] = left] /\ leaves' = leaves /\ fails' = fails
        /\ UNCHANGED <<request, use, posted, news, panel, open, list, due, contended>>
    BY <1>1, <1>3 DEF Commits, counters
  <2> HIDE DEF left
  <2> QED BY <1>2, <2>1, <2>2
<1>4. CASE RollsBack(i)
  <2> DEFINE left == [chats[i] EXCEPT !.settled = TRUE, !.members = {}]
  <2>1. left \in Chat /\ left.type = chats[i].type /\ left.founders = chats[i].founders
        /\ left.members \subseteq chats[i].members
    BY <1>1 DEF Chat
  <2>2. chats' = [chats EXCEPT ![i] = left] /\ leaves' = leaves /\ fails < MaxFails /\ fails' = fails + 1
        /\ UNCHANGED <<request, use, posted, news, panel, open, list, due, contended>>
    BY <1>1, <1>4 DEF RollsBack
  <2> HIDE DEF left
  <2> QED BY <1>2, <2>1, <2>2
<1>5. ASSUME NEW u \in Users, Leave(u, i) PROVE IInv'
  <2> DEFINE left == [chats[i] EXCEPT !.members = chats[i].members \ {u}]
  <2>1. left \in Chat /\ left.type = chats[i].type /\ left.founders = chats[i].founders
        /\ left.members \subseteq chats[i].members
    BY <1>1 DEF Chat
  <2>2. chats' = [chats EXCEPT ![i] = left] /\ fails' = fails /\ leaves < MaxLeaves /\ leaves' = leaves + 1
        /\ UNCHANGED <<request, use, posted, news, panel, open, list, due, contended>>
    BY <1>1, <1>5 DEF Leave
  <2> HIDE DEF left
  <2> QED BY <1>2, <2>1, <2>2
<1> QED BY <1>3, <1>4, <1>5

-----------------------------------------------------------------------------
(* Steps                                                                   *)

LEMMA NextKeeps ==
  ASSUME IInv, [Next]_vars
  PROVE  IInv'
<1>1. use.clients \subseteq Clients
  BY UsesAssumption DEF IInv, ClientTypes
<1>2. ASSUME NEW c \in use.clients, Client(c) PROVE IInv'
  BY <1>1, <1>2, ClientKeeps
<1>3. ASSUME NEW r \in Requests, Server(r) PROVE IInv'
  BY <1>3, ServerKeeps
<1>4. ASSUME NEW i \in Ids, Commits(i) \/ RollsBack(i) \/ \E u \in Users : Leave(u, i) PROVE IInv'
  BY <1>4, ChatKeeps
<1>5. CASE UNCHANGED vars
  <2>1. UNCHANGED <<chats, request, contended, use, posted, news, leaves, fails, panel, open, list, due>>
    BY <1>5 DEF vars
  <2>2. ServerInv' /\ Ids' = Ids
    BY <2>1, ServerStays
  <2> QED BY <2>1, <2>2, ClientsStay DEF IInv
<1> QED BY <1>2, <1>3, <1>4, <1>5 DEF Next

\* The inductive invariant of the creations.
THEOREM Invariance == SafetySpec => []IInv
<1>1. Init => IInv
  BY InitIInv
<1>2. IInv /\ [Next]_vars => IInv'
  BY NextKeeps
<1> QED BY <1>1, <1>2, PTL DEF SafetySpec

\* However often and from whichever side two people ask for their chat, lose
\* the answer and leave, and in whichever order a creation is committed and
\* answered, they share one unless creations overlapped, and every answer is
\* the chat that was asked for (chats/service.py create_direct).
THEOREM OneDirectChat == SafetySpec => []UncontendedDirectOnce
<1>1. ASSUME IInv PROVE TypeOK
  <2>1. \A i \in Ids : chats[i] \in Chat
    BY <1>1 DEF IInv, ServerInv, ChatTypes, Ids
  <2>2. \A i \in Ids : /\ chats[i].type \in {"direct", "group"}
                       /\ chats[i].members \subseteq chats[i].founders
                       /\ chats[i].founders \subseteq Users /\ chats[i].settled \in BOOLEAN
    BY <1>1, <2>1 DEF Chat, IInv, ServerInv, ChatTypes
  <2>3. \A r \in Requests : request[r] = Idle \/
       /\ request[r].pc \in {"sent", "insert", "answered", "failed"}
       /\ request[r].client \in Clients /\ request[r].type \in {"direct", "group"}
       /\ request[r].who \subseteq Others(request[r].client) /\ request[r].who # {}
       /\ request[r].chat \in Ids \cup {None} /\ request[r].mounted \in BOOLEAN
    BY <1>1 DEF IInv, ServerInv, RequestTypes, Sensible, Creation
  <2>4. \A c \in Clients : /\ open[c] \in Ids \cup {None}
                           /\ list[c].fetch \in {"idle", "asked", "served"}
                           /\ list[c].data \cup list[c].answer \cup due[c] \subseteq Ids
    BY <1>1, QueryTypes, Counters
  <2> QED BY <1>1, <2>2, <2>3, <2>4 DEF IInv, ClientTypes, TypeOK
<1>2. ASSUME IInv, NEW i \in Ids, NEW j \in Ids, chats[i].type = "direct", chats[j].type = "direct", i # j,
             chats[i].members = chats[j].members, Cardinality(chats[i].members) = 2
      PROVE  chats[i].members \in contended
  <2>1. ASSUME NEW k \in Ids, chats[k].type = "direct", Cardinality(chats[k].members) = 2
        PROVE  chats[k].members = chats[k].founders
    <3>1. PICK x, y : chats[k].founders = {x, y} /\ chats[k].members \subseteq {x, y}
      BY <1>2, <2>1 DEF IInv, ServerInv, ChatTypes
    <3>2. \A z : Cardinality({z}) = 1
      BY FS_Singleton
    <3>3. Cardinality({}) = 0
      BY FS_EmptySet
    <3>4. chats[k].members # {} /\ \A z : chats[k].members # {z}
      BY <2>1, <3>2, <3>3
    <3> QED BY <3>1, <3>4
  <2>2. Full(i) /\ Full(j) /\ chats[i].founders = chats[j].founders
    BY <1>2, <2>1 DEF Full
  <2> QED BY <1>2, <2>2 DEF IInv, ServerInv, Once, Full
<1>3. ASSUME IInv, NEW r \in Requests, request[r] # Idle, request[r].pc = "answered"
      PROVE  /\ chats[request[r].chat].type = request[r].type
             /\ chats[request[r].chat].founders = Founders(r)
  BY <1>3 DEF IInv, ServerInv, Answers, Answered
<1>4. IInv => UncontendedDirectOnce
  BY <1>1, <1>2, <1>3 DEF UncontendedDirectOnce
<1> QED BY <1>4, Invariance, PTL
=============================================================================
