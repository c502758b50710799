----------------------------- MODULE ChatClient -----------------------------
(***************************************************************************)
(* What one client shows of its chats: the chat store (shared/store/chat), *)
(* the message query of the open chat and its receipts, unread counters,   *)
(* typing indicators and the banner.  Web: pages/chats/ChatsPage.tsx;      *)
(* mobile: navigation/index.tsx, ChatScreen.tsx, InAppBanner.tsx.          *)
(*                                                                         *)
(* Events come over the socket as docs/WEBSOCKET.md describes them, in any *)
(* order, perhaps twice, and not at all while the socket is down.  The     *)
(* react-query cache is external: what its defaults do on a change of key, *)
(* an invalidation or a focus is modelled, retries are not.  The server    *)
(* answers with its newest page, and no client asks for an older one.      *)
(***************************************************************************)
EXTENDS Naturals, FiniteSets, Pages

CONSTANTS Messages,      \* numbered in the order of created_at
          ChatOf, Mine,  \* the chat of a message; the messages this user sent
          PageSize,      \* the limit of a page of messages, 50 in the code
          Feeds,         \* bound: the kinds of events one behaviour has
          MaxCopies,     \* bound on the copies of one message.new
          MaxDrops,      \* bound on losses of the connection and failed fetches
          MaxHides       \* bound on removals of the banner under way

ASSUME MessagesAssumption == Messages \subseteq Nat /\ IsFiniteSet(Messages)
ASSUME ChatOfAssumption == ChatOf \in [Messages -> Chats] /\ Mine \subseteq Messages
ASSUME PageAssumption == PageSize \in Nat
ASSUME BoundsAssumption == {MaxCopies, MaxDrops, MaxHides} \subseteq Nat

VARIABLES
  feed,
  stored,    \* messages the server has
  deleted,   \* those of them with deleted_at set
  copies,    \* copies[m]: message.new events for m published to this client
  onWay,     \* onWay[m]: those the socket has not handed over yet
  online,    \* the socket is open; ChatsPage (web) is rendered then
  drops,     \* losses and failures so far
  active,    \* activeChatId
  ref,       \* the chat whose effects have run: activeChatIdRef, and the chat
             \* whose query is observed
  visible,   \* the tab is visible, the app in the foreground
  query,     \* query[c]: the query ["messages", c]
  live,      \* mobile: liveMessages of the open chat
  marked,    \* markedReadRef
  posts,     \* receipts posted: <<kind, message>>
  unread,    \* unreadCounts
  status,    \* deliveryStatuses of own messages
  typing,    \* typing[c]: someone is shown as typing in c
  expiry,    \* expiry[c]: timers that will clear typing[c]
  banner,    \* the banner: its chat, timer and pending removals
  watched,   \* the open chat has been on the screen since it was opened, and
             \* no event of it came before the effects of that (history)
  noted      \* messages whose event came to the open, loaded chat, since it
             \* was opened and no fetch of it failed (history)

vars == <<platform, feed, stored, deleted, copies, onWay, online, drops, active, ref, visible,
          query, live, marked, posts, unread, status, typing, expiry, banner, watched, noted>>

world  == <<platform, feed, stored, deleted, copies, drops>>
screen == <<active, ref, visible, watched>>
list   == <<query, live, marked, posts, noted>>
signs  == <<status, typing, expiry>>

Foreign(m) == m \notin Mine
In(c) == {m \in Messages : ChatOf[m] = c}

\* The query of a chat never opened.
Unloaded == [loaded |-> FALSE, stale |-> TRUE, fetch |-> "idle", data |-> {}, answer |-> {}]

NoBanner == [chat |-> None, timer |-> FALSE, hides |-> 0]

TypeOK ==
  /\ platform \in Platforms /\ feed \in Feeds
  /\ stored \subseteq Messages /\ deleted \subseteq stored
  /\ copies \in [Messages -> 0..MaxCopies] /\ onWay \in [Messages -> 0..MaxCopies]
  /\ online \in BOOLEAN /\ drops \in 0..MaxDrops
  /\ {active, ref} \subseteq Chats \cup {None} /\ visible \in BOOLEAN
  /\ query \in [Chats -> [loaded : BOOLEAN, stale : BOOLEAN, fetch : {"idle", "asked", "served"},
                          data : SUBSET Messages, answer : SUBSET Messages]]
  /\ live \subseteq Messages /\ marked \subseteq Messages
  /\ posts \subseteq {"delivered", "read"} \X Messages
  /\ unread \in [Chats -> Nat]
  /\ status \in [Mine -> [delivered : BOOLEAN, read : BOOLEAN]]
  /\ typing \in [Chats -> BOOLEAN]
  /\ expiry \in [Chats -> [own : BOOLEAN, stray : 0..MaxDrops]]
  /\ banner \in [chat : Chats \cup {None}, timer : BOOLEAN, hides : 0..MaxHides]
  /\ watched \in BOOLEAN /\ noted \subseteq Messages

Init ==
  /\ platform \in Platforms /\ feed \in Feeds
  /\ stored = {} /\ deleted = {}
  /\ copies = [m \in Messages |-> 0] /\ onWay = [m \in Messages |-> 0]
  /\ online = TRUE /\ drops = 0
  /\ active = None /\ ref = None /\ visible = TRUE
  /\ query = [c \in Chats |-> Unloaded]
  /\ live = {} /\ marked = {} /\ posts = {}
  /\ unread = [c \in Chats |-> 0]
  /\ status = [m \in Mine |-> [delivered |-> FALSE, read |-> FALSE]]
  /\ typing = [c \in Chats |-> FALSE]
  /\ expiry = [c \in Chats |-> [own |-> FALSE, stray |-> 0]]
  /\ banner = NoBanner
  /\ watched = FALSE /\ noted = {}

-----------------------------------------------------------------------------
(* The server and the socket                                               *)

Stored(m) ==
  /\ "message.new" \in feed /\ m \notin stored
  /\ stored' = stored \cup {m}
  /\ UNCHANGED <<platform, feed, deleted, copies, onWay, online, drops, screen, list, unread,
                 signs, banner>>

\* A message is deleted over the API; no event tells the clients.
Deleted(m) ==
  /\ "deletion" \in feed /\ m \in stored \ deleted
  /\ deleted' = deleted \cup {m}
  /\ UNCHANGED <<platform, feed, stored, copies, onWay, online, drops, screen, list, unread,
                 signs, banner>>

\* The outbox publishes a stored message at least once; a client that is not
\* connected misses it.
Published(m) ==
  /\ m \in stored /\ copies[m] < MaxCopies
  /\ copies[m] = 0 \/ "twice" \in feed
  /\ copies' = [copies EXCEPT ![m] = @ + 1]
  /\ onWay' = IF online THEN [onWay EXCEPT ![m] = @ + 1] ELSE onWay
  /\ UNCHANGED <<platform, feed, stored, deleted, online, drops, screen, list, unread, signs,
                 banner>>

ConnectionLost ==
  /\ online /\ "loss" \in feed /\ drops < MaxDrops
  /\ online' = FALSE /\ drops' = drops + 1
  /\ onWay' = [m \in Messages |-> 0]
  /\ UNCHANGED <<platform, feed, stored, deleted, copies, screen, list, unread, signs, banner>>

\* onopen emits __connected, which nobody listens to.
ConnectionBack ==
  /\ ~online /\ online' = TRUE
  /\ UNCHANGED <<world, onWay, screen, list, unread, signs, banner>>

-----------------------------------------------------------------------------
(* The query of the messages of a chat                                     *)

Asked(q) == [q EXCEPT !.fetch = "asked", !.answer = {}]

\* A fetch that an observer wants: one in flight is joined.
Fetched(q) == IF q.fetch = "idle" THEN Asked(q) ELSE q

\* A chat is shown or its window focused: stale data is fetched again.
Observed(q) == IF ~q.loaded \/ q.stale THEN Fetched(q) ELSE q

\* DEFECT (mutant): an invalidation joins the fetch in flight.
InvalidatedJoins(q, shown) ==
  IF ~shown THEN [q EXCEPT !.stale = TRUE] ELSE Fetched([q EXCEPT !.stale = TRUE])

\* invalidateQueries: the data is stale, and if it is shown a fetch in flight
\* is dropped for a new one, unless it is the first.
Invalidated(q, shown) ==
  LET s == [q EXCEPT !.stale = TRUE]
  IN IF ~shown THEN s ELSE IF q.loaded THEN Asked(s) ELSE Fetched(s)

\* The messages of set s that are newer than m, and the newest page of s.
Newer(s, m) == {n \in s : n > m}
Newest(s) == {m \in s : Cardinality(Newer(s, m)) < PageSize}

\* list_by_chat, without before_id.
FetchServed(c) ==
  /\ query[c].fetch = "asked"
  /\ query' = [query EXCEPT ![c].fetch = "served",
                            ![c].answer = Newest((stored \ deleted) \cap In(c))]
  /\ UNCHANGED <<world, onWay, online, screen, live, marked, posts, noted, unread, signs, banner>>

\* DEFECT (mutant): what came live is dropped when the chat was fetched again.
LiveDropped(l) == {}

\* useQuery does not touch liveMessages.
LiveKept(l) == l

FetchEnds(c) ==
  /\ query[c].fetch = "served"
  /\ query' = [query EXCEPT ![c] = [loaded |-> TRUE, stale |-> FALSE, fetch |-> "idle",
                                    data |-> query[c].answer, answer |-> {}]]
  /\ live' = LiveKept(live)
  /\ UNCHANGED <<world, onWay, online, screen, marked, posts, noted, unread, signs, banner>>

\* The request and its retry fail: the data stays as it was.
FetchFails(c) ==
  /\ query[c].fetch = "asked" /\ "loss" \in feed /\ drops < MaxDrops
  /\ drops' = drops + 1
  /\ query' = [query EXCEPT ![c].fetch = "idle", ![c].stale = TRUE]
  /\ noted' = noted \ In(c)
  /\ UNCHANGED <<platform, feed, stored, deleted, copies, onWay, online, screen, live, marked,
                 posts, unread, signs, banner>>

\* staleTime is over.
Ages(c) ==
  /\ query[c].loaded /\ ~query[c].stale /\ "age" \in feed
  /\ query' = [query EXCEPT ![c].stale = TRUE]
  /\ UNCHANGED <<world, onWay, online, screen, live, marked, posts, noted, unread, signs, banner>>

-----------------------------------------------------------------------------
(* message.new                                                             *)

Take(m) == onWay' = [onWay EXCEPT ![m] = @ - 1]

Notes(m) == noted' = IF ref = ChatOf[m] /\ query[ref].loaded THEN noted \cup {m} ELSE noted

\* isActiveChat && isTabVisible
SeenAtOnce(m) == ref = ChatOf[m] /\ visible

\* The chat of m is the active one, and its effects have not run yet.
Early(m) == active = ChatOf[m] /\ ref # active

incUnread(c) == unread' = [unread EXCEPT ![c] = @ + 1]

WebMessageNew(m) ==
  /\ Web /\ online /\ onWay[m] > 0
  /\ Take(m) /\ Notes(m)
  /\ query' = [query EXCEPT ![ChatOf[m]] = Invalidated(@, ref = ChatOf[m])]
  /\ watched' = (watched /\ ~Early(m))
  /\ IF ~Foreign(m) THEN UNCHANGED <<posts, unread>>
     ELSE IF SeenAtOnce(m)
     THEN posts' = posts \cup {<<"delivered", m>>, <<"read", m>>} /\ UNCHANGED unread
     ELSE posts' = posts \cup {<<"delivered", m>>} /\ incUnread(ChatOf[m])
  /\ UNCHANGED <<world, online, active, ref, visible, live, marked, signs, banner>>

\* show(): the banner's timer starts again, a removal under way goes on.
BannerFor(c) == [banner EXCEPT !.chat = c, !.timer = TRUE]

\* The navigator counts and the banner shows what the open ChatScreen lists.
MobileMessageNew(m) ==
  /\ Mobile /\ online /\ onWay[m] > 0
  /\ Take(m) /\ Notes(m)
  /\ IF Foreign(m) THEN incUnread(ChatOf[m]) ELSE UNCHANGED unread
  /\ IF active = ChatOf[m]
     THEN /\ live' = live \cup {m}
          /\ IF Foreign(m)
             THEN /\ posts' = posts \cup {<<"delivered", m>>, <<"read", m>>}
                  /\ marked' = marked \cup {m}
             ELSE UNCHANGED <<posts, marked>>
     ELSE UNCHANGED <<live, posts, marked>>
  /\ banner' = IF Foreign(m) /\ active # ChatOf[m] THEN BannerFor(ChatOf[m]) ELSE banner
  /\ UNCHANGED <<world, online, screen, query, signs>>

-----------------------------------------------------------------------------
(* Chats opened and left                                                   *)

\* DEFECT (mutant): opening a chat leaves its counter.
ClearedNot(c) == unread

clearUnread(c) == [unread EXCEPT ![c] = 0]

\* What the effects of a newly rendered chat do, in one task: its query is
\* observed, the ref and the marks are set.
Effects(c) ==
  /\ ref' = c
  /\ IF ref = c THEN UNCHANGED <<query, marked, noted>>
     ELSE query' = [query EXCEPT ![c] = Observed(@)] /\ marked' = {} /\ noted' = {}

openChat(c) ==
  /\ active' = c /\ watched' = visible
  /\ unread' = clearUnread(c)

\* A click in the list: React runs the effects before the task ends.
WebPressesChat(c) ==
  /\ Web
  /\ openChat(c) /\ Effects(c)
  /\ UNCHANGED <<world, onWay, online, visible, live, posts, signs, banner>>

\* A notification, or the answer to the creation of a chat: the effects wait.
WebOpensChat(c) ==
  /\ Web
  /\ openChat(c)
  /\ UNCHANGED <<world, onWay, online, ref, visible, list, signs, banner>>

WebRunsEffects ==
  /\ Web /\ active # None /\ ref # active
  /\ Effects(active)
  /\ UNCHANGED <<world, onWay, online, active, visible, watched, live, posts, unread, signs, banner>>

\* The "back" of a narrow window hides the chat and leaves it the active one.
WebHidesChat ==
  /\ Web /\ watched
  /\ watched' = FALSE
  /\ UNCHANGED <<world, onWay, online, active, ref, visible, list, unread, signs, banner>>

\* DEFECT (mutant): ChatsPage clears its timers when it is unmounted.
TimersCleared(e) == [e EXCEPT !.own = FALSE]

\* The timers for typing indicators outlive the ChatsPage that set them, and
\* the next one does not know them.
TimersLeft(e) == [own |-> FALSE, stray |-> e.stray + (IF e.own THEN 1 ELSE 0)]

\* Another page: ChatsPage is unmounted and disconnects.
WebLeavesChats ==
  /\ Web
  /\ \A c \in Chats : expiry[c].own => expiry[c].stray < MaxDrops
  /\ active' = None /\ ref' = None /\ watched' = FALSE /\ online' = FALSE
  /\ onWay' = [m \in Messages |-> 0]
  /\ marked' = {} /\ noted' = {}
  /\ expiry' = [c \in Chats |-> TimersLeft(expiry[c])]
  /\ UNCHANGED <<world, visible, query, live, posts, unread, status, typing, banner>>

\* The tab is hidden, or shown again: the open chat is fetched if it is stale.
TabChanges ==
  /\ Web /\ "message.new" \in feed
  /\ visible' = ~visible /\ watched' = FALSE
  /\ query' = IF visible' /\ ref # None THEN [query EXCEPT ![ref] = Observed(@)] ELSE query
  /\ UNCHANGED <<world, onWay, online, active, ref, live, marked, posts, noted, unread, signs,
                 banner>>

\* ChatScreen is pushed; its effects set the active chat.
MobileOpensChat(c) ==
  /\ Mobile /\ active = None
  /\ active' = c /\ ref' = c /\ watched' = TRUE
  /\ unread' = clearUnread(c)
  /\ query' = [query EXCEPT ![c] = Observed(@)]
  /\ live' = {} /\ marked' = {} /\ noted' = {}
  /\ UNCHANGED <<world, onWay, online, visible, posts, signs, banner>>

MobileLeavesChat ==
  /\ Mobile /\ active # None
  /\ active' = None /\ ref' = None /\ watched' = FALSE
  /\ live' = {} /\ marked' = {} /\ noted' = {}
  /\ UNCHANGED <<world, onWay, online, visible, query, posts, unread, signs, banner>>

-----------------------------------------------------------------------------
(* What the open chat shows, and the receipts of it                        *)

\* The list of the web client: the answer of the server.
WebMessages(c) == query[c].data

\* allMessages of the mobile client: with what came since ChatScreen is open.
MobileMessages(c) == query[c].data \cup (live \cap In(c))

Shown(c) == IF Web THEN WebMessages(c) ELSE MobileMessages(c)

Unmarked(c) == {m \in Shown(c) : Foreign(m)} \ marked

\* The effect on the messages shown, in a hidden tab as well.
WebMarksRead ==
  /\ Web /\ ref # None /\ Unmarked(ref) # {}
  /\ marked' = marked \cup Unmarked(ref)
  /\ posts' = posts \cup ({"read"} \X Unmarked(ref))
  /\ UNCHANGED <<world, onWay, online, screen, query, live, noted, unread, signs, banner>>

MobileMarksRead ==
  /\ Mobile /\ ref # None /\ Unmarked(ref) # {}
  /\ marked' = marked \cup Unmarked(ref)
  /\ posts' = posts \cup ({"delivered", "read"} \X Unmarked(ref))
  /\ UNCHANGED <<world, onWay, online, screen, query, live, noted, unread, signs, banner>>

\* onSuccess of a message sent here: the server stored it.
OwnSent(m) ==
  /\ "message.new" \in feed /\ m \in Mine \ stored
  /\ stored' = stored \cup {m}
  /\ query' = [query EXCEPT ![ChatOf[m]] = Invalidated(@, ref = ChatOf[m])]
  /\ UNCHANGED <<platform, feed, deleted, copies, onWay, online, drops, screen, live, marked,
                 posts, noted, unread, signs, banner>>

-----------------------------------------------------------------------------
(* Receipts of own messages, typing indicators, the banner                 *)

setDelivered(s) == [delivered |-> TRUE, read |-> s.read]

setRead(s) == [delivered |-> TRUE, read |-> TRUE]

\* message.delivered and message.read, in any order and perhaps twice.
StatusEvent(m) ==
  /\ "status" \in feed /\ online
  /\ status' \in {[status EXCEPT ![m] = setDelivered(@)], [status EXCEPT ![m] = setRead(@)]}
  /\ UNCHANGED <<world, onWay, online, screen, list, unread, typing, expiry, banner>>

setTyping(c, isTyping) == typing' = [typing EXCEPT ![c] = isTyping]

WebTypingStarted(c) ==
  /\ Web /\ "typing" \in feed /\ online
  /\ setTyping(c, TRUE)
  /\ expiry' = [expiry EXCEPT ![c].own = TRUE]
  /\ UNCHANGED <<world, onWay, online, screen, list, unread, status, banner>>

WebTypingStopped(c) ==
  /\ Web /\ "typing" \in feed /\ online
  /\ setTyping(c, FALSE)
  /\ expiry' = [expiry EXCEPT ![c].own = FALSE]
  /\ UNCHANGED <<world, onWay, online, screen, list, unread, status, banner>>

WebTypingExpires(c) ==
  /\ expiry[c].own
  /\ setTyping(c, FALSE)
  /\ expiry' = [expiry EXCEPT ![c].own = FALSE]
  /\ UNCHANGED <<world, onWay, online, screen, list, unread, status, banner>>

\* The timer of a ChatsPage that is gone.
WebTypingStrayExpires(c) ==
  /\ expiry[c].stray > 0
  /\ setTyping(c, FALSE)
  /\ expiry' = [expiry EXCEPT ![c].stray = @ - 1]
  /\ UNCHANGED <<world, onWay, online, screen, list, unread, status, banner>>

\* The mobile client sets no timer.
MobileTyping(c, isTyping) ==
  /\ Mobile /\ "typing" \in feed /\ online
  /\ setTyping(c, isTyping)
  /\ UNCHANGED <<world, onWay, online, screen, list, unread, status, expiry, banner>>

\* dismiss(): out of sight, and removed a moment later.
Dismissed == [banner EXCEPT !.timer = FALSE, !.hides = @ + 1]

BannerTimerFires ==
  /\ banner.timer /\ banner.hides < MaxHides
  /\ banner' = Dismissed
  /\ UNCHANGED <<world, onWay, online, screen, list, unread, signs>>

\* Whatever the banner is by then.
BannerRemoved ==
  /\ banner.hides > 0
  /\ banner' = [banner EXCEPT !.chat = None, !.hides = @ - 1]
  /\ UNCHANGED <<world, onWay, online, screen, list, unread, signs>>

\* The x, or a press: navigate('Chats') names no route and leads nowhere.
BannerPressed ==
  /\ banner.chat # None /\ banner.hides < MaxHides
  /\ banner' = Dismissed
  /\ UNCHANGED <<world, onWay, online, screen, list, unread, signs>>

MarksRead == WebMarksRead \/ MobileMarksRead

Next ==
  \/ \E m \in Messages : \/ Stored(m) \/ Deleted(m) \/ Published(m)
                         \/ WebMessageNew(m) \/ MobileMessageNew(m)
  \/ \E m \in Mine : OwnSent(m) \/ StatusEvent(m)
  \/ ConnectionLost \/ ConnectionBack
  \/ \E c \in Chats : FetchServed(c) \/ FetchEnds(c) \/ FetchFails(c) \/ Ages(c)
  \/ \E c \in Chats : WebPressesChat(c) \/ WebOpensChat(c) \/ MobileOpensChat(c)
  \/ WebRunsEffects
  \/ WebHidesChat \/ WebLeavesChats \/ TabChanges \/ MobileLeavesChat
  \/ MarksRead
  \/ \E c \in Chats : \/ WebTypingStarted(c) \/ WebTypingStopped(c)
                      \/ WebTypingExpires(c) \/ WebTypingStrayExpires(c)
                      \/ \E isTyping \in BOOLEAN : MobileTyping(c, isTyping)
  \/ BannerTimerFires \/ BannerRemoved \/ BannerPressed

SafetySpec == Init /\ [][Next]_vars

\* Requests are answered, and React runs the effect of what it rendered.
Spec ==
  /\ SafetySpec
  /\ \A c \in Chats : WF_vars(FetchServed(c)) /\ WF_vars(FetchEnds(c))
  /\ WF_vars(MarksRead)

-----------------------------------------------------------------------------
(* Properties                                                              *)

\* A sign that something happens now goes away: whoever is shown as typing in
\* the web client (also after its page was left and entered again), and every
\* banner, has a timer or a removal that will clear it.
SignsWillEnd ==
  /\ TypeOK
  /\ Web => \A c \in Chats : typing[c] => expiry[c].own \/ expiry[c].stray > 0
  /\ banner.chat # None => banner.timer \/ banner.hides > 0

\* docs/WEBSOCKET.md:96-98: what is on the screen is not counted as unread.
\* The web client keeps that for a chat on the screen since it was opened,
\* also if an event comes twice, unless one came between the opening and the
\* effect that makes the chat known to the handler (activeChatIdRef).
WatchedChatHasNoUnread == Web /\ watched => unread[active] = 0

\* There are PageSize newer messages in the chat of m.
PushedOut(m) == Cardinality(Newer(stored \cap In(ChatOf[m]), m)) >= PageSize

\* What is on the screen is not taken back by the order events and answers
\* come in: a message leaves the open chat only if it was deleted or a page of
\* newer ones is stored, and no own message that was read is shown as less.
NothingTakenBack ==
  [][/\ \A c \in Chats : ref = c /\ ref' = c =>
          \A m \in Shown(c) \ Shown(c)' : m \in deleted \/ PushedOut(m)
     /\ \A m \in Mine : /\ status[m].delivered => status'[m].delivered
                        /\ status[m].read => status'[m].read]_vars

\* A message whose event came to the open chat is shown there and its read
\* receipt posted, unless the user leaves the chat or its fetch fails, or the
\* message is deleted or pushed out: also if an answer without it was already
\* on its way.
NewMessagesShownAndRead ==
  \A m \in Messages :
    m \in noted ~>
      \/ m \in Shown(ChatOf[m]) /\ (Foreign(m) => <<"read", m>> \in posts)
      \/ m \notin noted
      \/ m \in deleted \/ PushedOut(m)
=============================================================================
