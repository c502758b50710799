------------------------------- MODULE NewChats -------------------------------
(***************************************************************************)
(* How chats come to be: the search panel and the group dialogue of the    *)
(* clients (web ChatsPage.tsx, mobile ChatListScreen.tsx), create_direct,  *)
(* create_group and the chat list of backend/app/modules/chats, and leave  *)
(* so far as it decides which direct chat is found.                        *)
(*                                                                         *)
(* The lookup of create_direct sees the committed rows, the new chat is    *)
(* visible at the commit, which comes before the answer or after it, and   *)
(* no unique key stands between the two.  Groups has the rest of a group's *)
(* life.  The cache of the chat list is react-query's, as in ChatClient.   *)
(***************************************************************************)
EXTENDS Naturals, Sequences, FiniteSets

CONSTANTS Users, Clients,
          Owner,        \* Owner[c]: who is logged in at client c
          MobileClients,
          None,
          Uses,         \* bound: the clients, dialogues and incidents one behaviour has
          MaxRequests,  \* bound on creations
          MaxNews,      \* bound on message.new events
          MaxLeaves,    \* bound on departures
          MaxFails      \* bound on lost requests and failed fetches

ASSUME OwnerAssumption == Owner \in [Clients -> Users] /\ MobileClients \subseteq Clients
Requests == 1..MaxRequests

ASSUME NoneAssumption == None \notin Nat
ASSUME UsesAssumption == \A use \in Uses : use.clients \subseteq Clients
ASSUME BoundsAssumption == {MaxRequests, MaxNews, MaxLeaves, MaxFails} \subseteq Nat

VARIABLES
  use,       \* what this behaviour has
  chats,     \* chats by their place: type, founders, members, and whether the
             \* transaction is over (a rolled back chat has no members)
  request,   \* request[r]: a creation, from the client's post to its answer
  posted, news, leaves, fails, \* how many of each so far
  panel,     \* panel[c]: what the client shows over the list
  open,      \* open[c]: the chat opened last
  list,      \* list[c]: the query ["chats"]
  due,       \* due[c]: chats committed and answered to c while it had a list
             \* and no fetch of the list failed (history)
  contended  \* pairs for whom a creation began before another's commit (history)

vars == <<use, chats, request, posted, news, leaves, fails, panel, open, list, due, contended>>
counters == <<use, posted, news, leaves, fails>>

Web(c) == c \notin MobileClients
Mobile(c) == c \in MobileClients
Others(c) == Users \ {Owner[c]}
Idle == [pc |-> "idle"]
Ids == 1..Len(chats)

TypeOK ==
  /\ \A i \in Ids : /\ chats[i].type \in {"direct", "group"}
                    /\ chats[i].members \subseteq chats[i].founders
                    /\ chats[i].founders \subseteq Users /\ chats[i].settled \in BOOLEAN
  /\ \A r \in Requests : request[r] = Idle \/
       /\ request[r].pc \in {"sent", "insert", "answered", "failed"}
       /\ request[r].client \in Clients /\ request[r].type \in {"direct", "group"}
       /\ request[r].who \subseteq Others(request[r].client) /\ request[r].who # {}
       /\ request[r].chat \in Ids \cup {None} /\ request[r].mounted \in BOOLEAN
  /\ panel \in [Clients -> {"closed", "direct", "group"}]
  /\ \A c \in Clients : /\ open[c] \in Ids \cup {None}
                        /\ list[c].fetch \in {"idle", "asked", "served"}
                        /\ list[c].data \cup list[c].answer \cup due[c] \subseteq Ids
  /\ use \in Uses /\ posted <= MaxRequests /\ news <= MaxNews
  /\ leaves <= MaxLeaves /\ fails <= MaxFails

\* The list is fetched when the page or screen is mounted.
Init ==
  /\ use \in Uses
  /\ chats = <<>> /\ request = [r \in Requests |-> Idle]
  /\ posted = 0 /\ news = 0 /\ leaves = 0 /\ fails = 0
  /\ panel = [c \in Clients |-> "closed"]
  /\ open = [c \in Clients |-> None]
  /\ list = [c \in Clients |-> [loaded |-> FALSE, fetch |-> "asked", data |-> {}, answer |-> {}]]
  /\ due = [c \in Clients |-> {}] /\ contended = {}

-----------------------------------------------------------------------------
(* The dialogues                                                           *)

\* From the header of the page, or from the menu of the floating button.
OpensPanel(c, p) ==
  /\ panel[c] = "closed" /\ p \in use.dialogues
  /\ panel' = [panel EXCEPT ![c] = p]
  /\ UNCHANGED <<chats, request, counters, open, list, due, contended>>

\* A request that is under way goes on.
Closed(c) == panel' = [panel EXCEPT ![c] = "closed"]

WebClosesPanel(c) ==
  /\ Web(c) /\ panel[c] # "closed" /\ Closed(c)
  /\ UNCHANGED <<chats, request, counters, open, list, due, contended>>

\* On the phone the mutation belongs to the dialogue.
MobileClosesPanel(c) ==
  /\ Mobile(c) /\ panel[c] # "closed" /\ Closed(c)
  /\ request' = [r \in Requests |-> IF request[r] # Idle /\ request[r].client = c
                                    THEN [request[r] EXCEPT !.mounted = FALSE] ELSE request[r]]
  /\ UNCHANGED <<chats, counters, open, list, due, contended>>

\* What toggle, of users the search found, can make of the selection: the
\* search does not find oneself, and an empty selection disables the button.
Selections(c) == (SUBSET Others(c)) \ {{}}

IsPending(c, type) ==
  \E r \in Requests : /\ request[r] # Idle /\ request[r].mounted
                      /\ request[r].client = c /\ request[r].type = type

Posts(c, type, who, field) ==
  /\ posted < MaxRequests /\ posted' = posted + 1
  /\ request' = [request EXCEPT ![posted'] =
       [pc |-> "sent", client |-> c, type |-> type, who |-> who, field |-> field,
        chat |-> None, mounted |-> TRUE]]
  /\ UNCHANGED <<use, chats, news, leaves, fails, panel, open, list, due, contended>>

WebPicks(c, u) ==
  /\ Web(c) /\ panel[c] = "direct" /\ ~IsPending(c, "direct")
  /\ Posts(c, "direct", {u}, "other_user_id")

\* Nothing is disabled while a request is under way.
MobilePicks(c, u) ==
  /\ Mobile(c) /\ panel[c] = "direct"
  /\ Posts(c, "direct", {u}, "target_user_id")

WebSubmits(c, selected) ==
  /\ Web(c) /\ panel[c] = "group" /\ ~IsPending(c, "group")
  /\ Posts(c, "group", selected, "member_ids")

MobileSubmits(c, selected) ==
  /\ Mobile(c) /\ panel[c] = "group" /\ ~IsPending(c, "group")
  /\ Posts(c, "group", selected, "member_user_ids")

-----------------------------------------------------------------------------
(* The server                                                              *)

\* DirectChatCreate and GroupChatCreate, where both fields are required.
Field(type) == IF type = "direct" THEN "other_user_id" ELSE "member_ids"
Valid(r) == request[r].field = Field(request[r].type)

Refused(r) ==
  /\ request[r].pc = "sent" /\ ~Valid(r)
  /\ request' = [request EXCEPT ![r].pc = "failed"]
  /\ UNCHANGED <<chats, counters, panel, open, list, due, contended>>

Founders(r) == {Owner[request[r].client]} \cup request[r].who

\* What another transaction reads.
MemberOf(u) == {i \in Ids : chats[i].settled /\ u \in chats[i].members}

\* DEFECT (mutant): the membership of the second user is not looked at.
get_directOfOne(user_a, user_b) == {i \in MemberOf(user_a) : chats[i].type = "direct"}

\* The direct chats that both are members of.
get_direct(user_a, user_b) ==
  {i \in MemberOf(user_a) \cap MemberOf(user_b) : chats[i].type = "direct"}

\* A creation for the pair that has not committed.
UnderWay(pair) ==
  \/ \E s \in Requests : request[s].pc = "insert" /\ Founders(s) = pair
  \/ \E i \in Ids : ~chats[i].settled /\ chats[i].type = "direct" /\ chats[i].founders = pair

\* create_direct looks for a chat: one of them, if there is one, is the answer.
LooksUp(r) ==
  /\ request[r].pc = "sent" /\ request[r].type = "direct" /\ Valid(r)
  /\ LET pair == Founders(r)
         found == UNION {get_direct(Owner[request[r].client], u) : u \in request[r].who}
     IN IF found # {}
        THEN /\ \E i \in found : request' = [request EXCEPT ![r].pc = "answered", ![r].chat = i]
             /\ UNCHANGED contended
        ELSE /\ request' = [request EXCEPT ![r].pc = "insert"]
             /\ contended' = IF UnderWay(pair) THEN contended \cup {pair} ELSE contended
  /\ UNCHANGED <<chats, counters, panel, open, list, due>>

\* The answer goes out, after the commit (settled) or before it: get_db commits
\* when FastAPI leaves it, which depends on the version.
Inserts(r, settled) ==
  /\ chats' = Append(chats, [type |-> request[r].type, founders |-> Founders(r),
                             members |-> Founders(r), settled |-> settled])
  /\ request' = [request EXCEPT ![r].pc = "answered", ![r].chat = Len(chats')]
  /\ UNCHANGED <<counters, panel, open, list, due, contended>>

CreateDirect(r, settled) == request[r].pc = "insert" /\ Inserts(r, settled)

\* create_group asks for nothing: two requests make two groups.
CreateGroup(r, settled) ==
  /\ request[r].pc = "sent" /\ request[r].type = "group" /\ Valid(r)
  /\ Inserts(r, settled)

\* The commit of a transaction that has been answered, or its loss.
Commits(i) ==
  /\ ~chats[i].settled /\ chats' = [chats EXCEPT ![i].settled = TRUE]
  /\ UNCHANGED <<request, counters, panel, open, list, due, contended>>

RollsBack(i) ==
  /\ ~chats[i].settled
  /\ "loss" \in use.incidents /\ fails < MaxFails /\ fails' = fails + 1
  /\ chats' = [chats EXCEPT ![i].settled = TRUE, ![i].members = {}]
  /\ UNCHANGED <<use, request, posted, news, leaves, panel, open, list, due, contended>>

\* The request or its transaction is lost, or its answer.
Lost(r) ==
  /\ request[r].pc \in {"sent", "insert", "answered"}
  /\ "loss" \in use.incidents /\ fails < MaxFails /\ fails' = fails + 1
  /\ request' = [request EXCEPT ![r].pc = "failed"]
  /\ UNCHANGED <<use, chats, posted, news, leaves, panel, open, list, due, contended>>

\* leave, which no client has a button for; it does not ask for the type.
Leave(u, i) ==
  /\ i \in MemberOf(u) /\ "leave" \in use.incidents /\ leaves < MaxLeaves /\ leaves' = leaves + 1
  /\ chats' = [chats EXCEPT ![i].members = @ \ {u}]
  /\ UNCHANGED <<request, use, posted, news, fails, panel, open, list, due, contended>>

-----------------------------------------------------------------------------
(* The list of chats                                                       *)

Asked(q) == [q EXCEPT !.fetch = "asked", !.answer = {}]

\* DEFECT (mutant): an invalidation joins the fetch in flight.
InvalidatedJoins(q) == IF q.fetch = "idle" THEN Asked(q) ELSE q

\* A fetch in flight is dropped for a new one, unless it is the first.
Invalidated(q) == IF q.loaded \/ q.fetch = "idle" THEN Asked(q) ELSE q

\* GET /chats: list_for_user.
ListServed(c) ==
  /\ list[c].fetch = "asked"
  /\ list' = [list EXCEPT ![c].fetch = "served",
                          ![c].answer = MemberOf(Owner[c])]
  /\ UNCHANGED <<chats, request, counters, panel, open, due, contended>>

ListEnds(c) ==
  /\ list[c].fetch = "served"
  /\ list' = [list EXCEPT ![c] = [loaded |-> TRUE, fetch |-> "idle", data |-> list[c].answer,
                                  answer |-> {}]]
  /\ UNCHANGED <<chats, request, counters, panel, open, due, contended>>

ListFails(c) ==
  /\ list[c].fetch = "asked"
  /\ "loss" \in use.incidents /\ fails < MaxFails /\ fails' = fails + 1
  /\ list' = [list EXCEPT ![c].fetch = "idle"]
  /\ due' = [due EXCEPT ![c] = {}]
  /\ UNCHANGED <<use, chats, request, posted, news, leaves, panel, open, contended>>

\* message.new of one of the user's chats: the page fetches the list again.
WebMessageNew(c) ==
  /\ Web(c) /\ "news" \in use.incidents /\ news < MaxNews /\ news' = news + 1
  /\ MemberOf(Owner[c]) # {}
  /\ list' = [list EXCEPT ![c] = Invalidated(@)]
  /\ UNCHANGED <<use, chats, request, posted, leaves, fails, panel, open, due, contended>>

\* onRefresh: the user pulls the list down.
MobileRefetches(c) ==
  /\ Mobile(c) /\ panel[c] = "closed" /\ list[c].loaded
  /\ list' = [list EXCEPT ![c] = Invalidated(@)]
  /\ UNCHANGED <<chats, request, counters, panel, open, due, contended>>

-----------------------------------------------------------------------------
(* The answer                                                              *)

\* onSuccess: the list is fetched again, the chat is opened, whatever the user
\* has opened meanwhile, and the dialogue of the request closes.
WebCreated(r) ==
  /\ request[r].pc = "answered"
  /\ LET c == request[r].client IN
       /\ list' = [list EXCEPT ![c] = Invalidated(@)]
       /\ open' = [open EXCEPT ![c] = request[r].chat]
       /\ due' = IF list[c].loaded /\ chats[request[r].chat].settled
                 THEN [due EXCEPT ![c] = @ \cup {request[r].chat}] ELSE due
       /\ IF panel[c] = request[r].type THEN Closed(c) ELSE UNCHANGED panel
  /\ request' = [request EXCEPT ![r] = Idle]
  /\ UNCHANGED <<chats, counters, contended>>

\* The page says nothing, the phone shows an alert; the dialogue stays.
CreationFailed(r) ==
  /\ request[r].pc = "failed"
  /\ request' = [request EXCEPT ![r] = Idle]
  /\ UNCHANGED <<chats, counters, panel, open, list, due, contended>>

\* A chat of the list is opened: a click beside the search closes that first,
\* and the dialogues of the phone lie over the list.
OpensListed(c, i) ==
  /\ panel[c] = "closed" /\ i \in list[c].data /\ open[c] # i
  /\ open' = [open EXCEPT ![c] = i]
  /\ UNCHANGED <<chats, request, counters, panel, list, due, contended>>

Client(c) ==
  \/ \E p \in {"direct", "group"} : OpensPanel(c, p)
  \/ WebClosesPanel(c) \/ MobileClosesPanel(c)
  \/ \E u \in Others(c) : WebPicks(c, u) \/ MobilePicks(c, u)
  \/ \E selected \in Selections(c) : WebSubmits(c, selected) \/ MobileSubmits(c, selected)
  \/ ListServed(c) \/ ListEnds(c) \/ ListFails(c)
  \/ WebMessageNew(c) \/ MobileRefetches(c)
  \/ \E i \in Ids : OpensListed(c, i)

Server(r) ==
  /\ request[r] # Idle
  /\ \/ Refused(r) \/ LooksUp(r) \/ Lost(r) \/ WebCreated(r) \/ CreationFailed(r)
     \/ \E settled \in BOOLEAN : CreateDirect(r, settled) \/ CreateGroup(r, settled)

Next ==
  \/ \E c \in use.clients : Client(c)
  \/ \E r \in Requests : Server(r)
  \/ \E i \in Ids : Commits(i) \/ RollsBack(i) \/ \E u \in Users : Leave(u, i)

\* A fetch of the list is served and its answer taken, or it fails.
Fairness == \A c \in Clients : WF_vars(c \in use.clients /\ ListServed(c)) /\ WF_vars(c \in use.clients /\ ListEnds(c))

SafetySpec == Init /\ [][Next]_vars
Spec == SafetySpec /\ Fairness

-----------------------------------------------------------------------------
(* Properties                                                              *)

\* Whoever asks, again after a lost answer or from the other side, is led to
\* the same chat: two people share at most one direct chat, unless one of two
\* creations for them began before the other's commit; and every answer is a
\* chat founded by just the people that were asked for, of the kind asked for.
UncontendedDirectOnce ==
  /\ TypeOK
  /\ \A i, j \in Ids :
       /\ chats[i].type = "direct" /\ chats[j].type = "direct" /\ i # j
       /\ chats[i].members = chats[j].members /\ Cardinality(chats[i].members) = 2
       => chats[i].members \in contended
  /\ \A r \in Requests : request[r] # Idle /\ request[r].pc = "answered" =>
       /\ chats[request[r].chat].type = request[r].type
       /\ chats[request[r].chat].founders = Founders(r)

\* A client that has a list gets to a state, always again, in which each chat
\* created or found for it is in the list, without which the page would not
\* show it: unless the user has left it, a fetch of the list failed, or the
\* answer was there before the commit.
OpenedIsListed ==
  []<>(\A c \in Clients : \A i \in due[c] :
         Owner[c] \in chats[i].members => i \in list[c].data)
=============================================================================
