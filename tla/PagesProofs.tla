----------------------------- MODULE PagesProofs -----------------------------
(***************************************************************************)
(* Proofs about the pages of the clients: ChatClient, for any chats and    *)
(* messages, and Composer, for any chats, files and bounds.                *)
(*                                                                         *)
(* In ChatClient nothing that is shown is taken back because the answer    *)
(* which is served to a query lacks of its list only what is deleted or a  *)
(* page behind (QueryFits), and stays so; a watched chat is on a visible   *)
(* screen, so its messages are not counted unless they came too early      *)
(* (Screen), and every sign on the screen keeps a timer that clears it.    *)
(*                                                                         *)
(* In Composer most of the work is about what is on its way.  A message is *)
(* sent once because what was posted can no longer be in the composer      *)
(* (Gone), what is under way is seen by isPending unless it is Overlooked, *)
(* and what failed is told by `doubled'.  A draft cleared unsent came late *)
(* because, while a message is on its way, the composer has what is in it, *)
(* nothing, or what came since (OwnedIs).  A file is the one named because *)
(* one upload at a time is that of the attachment (UploadsAre).            *)
(***************************************************************************)
EXTENDS Integers, ChatClient, Composer, FiniteSetTheorems, TLAPS

-----------------------------------------------------------------------------
(* ChatClient: the inductive invariant                                     *)

QueryType == [loaded : BOOLEAN, stale : BOOLEAN, fetch : {"idle", "asked", "served"},
              data : SUBSET Messages, answer : SUBSET Messages]

\* The server has the messages in s, those in d being deleted: m is deleted or
\* a page of its chat is newer.
Away(m, s, d) == m \in d \/ Cardinality(Newer(s \cap In(ChatOf[m]), m)) >= PageSize

\* A query of chat c: a new answer has what the list has and is not away.
QueryFits(q, c, s, d) ==
  /\ q \in QueryType
  /\ q.data \subseteq s \cap In(c) /\ q.answer \subseteq s \cap In(c)
  /\ q.fetch = "served" => \A m \in q.data \ q.answer : Away(m, s, d)

\* An event on its way to the client was published.
World ==
  /\ platform \in Platforms /\ feed \in Feeds
  /\ stored \subseteq Messages /\ deleted \subseteq stored
  /\ copies \in [Messages -> 0..MaxCopies] /\ onWay \in [Messages -> 0..MaxCopies]
  /\ online \in BOOLEAN /\ drops \in 0..MaxDrops
  /\ \A m \in Messages : onWay[m] <= copies[m]

Queries ==
  /\ query \in [Chats -> QueryType]
  /\ \A c \in Chats : QueryFits(query[c], c, stored, deleted)

List ==
  /\ live \subseteq Messages /\ marked \subseteq Messages
  /\ posts \subseteq {"delivered", "read"} \X Messages
  /\ noted \subseteq Messages

\* What is on the screen of the web client can be seen; the effects of the
\* mobile client come with its screens.
Screen ==
  /\ active \in Chats \cup {None} /\ ref \in Chats \cup {None}
  /\ visible \in BOOLEAN /\ watched \in BOOLEAN
  /\ unread \in [Chats -> Nat]
  /\ Web /\ watched => active \in Chats /\ visible /\ unread[active] = 0
  /\ Mobile => ref = active

Signs ==
  /\ status \in [Mine -> [delivered : BOOLEAN, read : BOOLEAN]]
  /\ typing \in [Chats -> BOOLEAN]
  /\ expiry \in [Chats -> [own : BOOLEAN, stray : 0..MaxDrops]]
  /\ Web => \A c \in Chats : typing[c] => expiry[c].own \/ expiry[c].stray > 0

\* Only the mobile client has a banner.
Banner ==
  /\ banner \in [chat : Chats \cup {None}, timer : BOOLEAN, hides : 0..MaxHides]
  /\ Web => banner = NoBanner
  /\ banner.chat # None => banner.timer \/ banner.hides > 0

PageInv == World /\ Queries /\ List /\ Screen /\ Signs /\ Banner

\* A list loses only what is away.
Remain == \A c \in Chats : \A m \in query[c].data \ query'[c].data : Away(m, stored, deleted)

\* What a step does to the list of the open chat and to the states of own
\* messages.
Keeps ==
  /\ platform' = platform
  /\ Remain
  /\ ref' = ref /\ ref # None => live \subseteq live'
  /\ \A m \in Mine : /\ status[m].delivered => status'[m].delivered
                     /\ status[m].read => status'[m].read

Steps == PageInv' /\ Keeps

LEMMA Bounds == MaxCopies \in Nat /\ MaxDrops \in Nat /\ MaxHides \in Nat
BY BoundsAssumption

LEMMA InitPageInv == Init => PageInv
<1> SUFFICES ASSUME Init PROVE PageInv
  OBVIOUS
<1>1. World
  BY Bounds DEF Init, World
<1>2. Queries
  BY DEF Init, Queries, QueryFits, QueryType, Unloaded
<1>3. List /\ Screen
  BY DEF Init, List, Screen
<1>4. Signs
  BY Bounds DEF Init, Signs
<1>5. Banner
  BY Bounds DEF Init, Banner, NoBanner
<1> QED BY <1>1, <1>2, <1>3, <1>4, <1>5 DEF PageInv

-----------------------------------------------------------------------------
(* ChatClient: what a step leaves alone                                    *)

LEMMA WorldStays ==
  ASSUME World, UNCHANGED <<platform, feed, stored, deleted, copies, onWay, online, drops>>
  PROVE  World'
BY DEF World

\* What is away stays so: a chat has ever more messages.
LEMMA AwayStays ==
  ASSUME NEW s, NEW t, NEW d, NEW e, NEW m \in Messages, s \subseteq t, d \subseteq e, Away(m, s, d)
  PROVE  Away(m, t, e)
<1> DEFINE S == Newer(s \cap In(ChatOf[m]), m)
           T == Newer(t \cap In(ChatOf[m]), m)
<1>1. S \subseteq T /\ T \subseteq Messages
  BY DEF Newer, In
<1>2. /\ Cardinality(S) \in Nat /\ Cardinality(T) \in Nat
      /\ Cardinality(S) <= Cardinality(T)
  <2>1. IsFiniteSet(T)
    BY <1>1, MessagesAssumption, FS_Subset
  <2>2. IsFiniteSet(S) /\ Cardinality(S) <= Cardinality(T)
    BY <1>1, <2>1, FS_Subset
  <2> QED BY <2>1, <2>2, FS_CardinalityType
<1>3. CASE m \in d
  BY <1>3 DEF Away
<1>4. CASE Cardinality(S) >= PageSize
  <2>1. Cardinality(T) >= PageSize
    BY <1>2, <1>4, PageAssumption
  <2> QED BY <2>1 DEF Away
<1> QED BY <1>3, <1>4 DEF Away

LEMMA FitsStays ==
  ASSUME NEW q, NEW c \in Chats, NEW s, NEW t, NEW d, NEW e, QueryFits(q, c, s, d),
         s \subseteq t, d \subseteq e
  PROVE  QueryFits(q, c, t, e)
<1>1. ASSUME q.fetch = "served", NEW m \in q.data \ q.answer PROVE Away(m, t, e)
  <2>1. m \in Messages /\ Away(m, s, d)
    BY <1>1 DEF QueryFits, In
  <2> QED BY <2>1, AwayStays
<1> QED BY <1>1 DEF QueryFits

LEMMA QueriesStay ==
  ASSUME Queries, UNCHANGED query, stored \subseteq stored', deleted \subseteq deleted'
  PROVE  Queries' /\ Remain
BY FitsStays DEF Queries, Remain

LEMMA ListStays ==
  ASSUME List, UNCHANGED <<live, marked, posts, noted>>
  PROVE  List'
BY DEF List

LEMMA ScreenStays ==
  ASSUME Screen, UNCHANGED <<platform, active, ref, visible, watched, unread>>
  PROVE  Screen'
BY DEF Screen, Web, Mobile

LEMMA SignsStay ==
  ASSUME Signs, UNCHANGED <<platform, status, typing, expiry>>
  PROVE  /\ Signs'
         /\ \A m \in Mine : /\ status[m].delivered => status'[m].delivered
                            /\ status[m].read => status'[m].read
BY DEF Signs, Web

LEMMA BannerStays ==
  ASSUME Banner, UNCHANGED <<platform, banner>>
  PROVE  Banner'
BY DEF Banner, Web

-----------------------------------------------------------------------------
(* ChatClient: the query of a chat                                         *)

LEMMA QueryOperations ==
  ASSUME NEW q, NEW c \in Chats, NEW s, NEW d, QueryFits(q, c, s, d), NEW shown \in BOOLEAN
  PROVE  /\ QueryFits(Asked(q), c, s, d) /\ Asked(q).data = q.data
         /\ QueryFits(Fetched(q), c, s, d) /\ Fetched(q).data = q.data
         /\ QueryFits(Observed(q), c, s, d) /\ Observed(q).data = q.data
         /\ QueryFits(Invalidated(q, shown), c, s, d) /\ Invalidated(q, shown).data = q.data
<1>1. ASSUME NEW r, QueryFits(r, c, s, d) PROVE QueryFits(Asked(r), c, s, d) /\ Asked(r).data = r.data
  BY <1>1 DEF QueryFits, QueryType, Asked
<1>2. ASSUME NEW r, QueryFits(r, c, s, d) PROVE QueryFits(Fetched(r), c, s, d) /\ Fetched(r).data = r.data
  BY <1>1, <1>2 DEF Fetched
<1>3. QueryFits(Observed(q), c, s, d) /\ Observed(q).data = q.data
  BY <1>2 DEF Observed
<1>4. QueryFits([q EXCEPT !.stale = TRUE], c, s, d) /\ [q EXCEPT !.stale = TRUE].data = q.data
  BY DEF QueryFits, QueryType
<1>5. QueryFits(Invalidated(q, shown), c, s, d) /\ Invalidated(q, shown).data = q.data
  <2> DEFINE r == [q EXCEPT !.stale = TRUE]
  <2>1. QueryFits(Asked(r), c, s, d) /\ Asked(r).data = r.data
    BY <1>1, <1>4
  <2>2. QueryFits(Fetched(r), c, s, d) /\ Fetched(r).data = r.data
    BY <1>2, <1>4
  <2> HIDE DEF r
  <2>3. Invalidated(q, shown) \in {r, Asked(r), Fetched(r)}
    BY DEF Invalidated, r
  <2> QED BY <1>4, <2>1, <2>2, <2>3 DEF r
<1> QED BY <1>1, <1>2, <1>3, <1>5

\* One query becomes another that fits.
LEMMA QueryPut ==
  ASSUME Queries, NEW c \in Chats, NEW q, query' = [query EXCEPT ![c] = q],
         stored \subseteq stored', deleted \subseteq deleted',
         QueryFits(q, c, stored', deleted'),
         \A m \in query[c].data \ q.data : Away(m, stored, deleted)
  PROVE  Queries' /\ Remain
<1>1. query'[c] = q /\ \A x \in Chats : x # c => query'[x] = query[x]
  BY DEF Queries
<1>2. query' \in [Chats -> QueryType]
  BY DEF Queries, QueryFits
<1>3. ASSUME NEW x \in Chats PROVE QueryFits(query'[x], x, stored', deleted')
  <2>1. CASE x = c
    BY <1>1, <2>1
  <2>2. CASE x # c
    <3>1. QueryFits(query[x], x, stored, deleted)
      BY DEF Queries
    <3> QED BY <1>1, <2>2, <3>1, FitsStays
  <2> QED BY <2>1, <2>2
<1>4. Remain
  BY <1>1 DEF Remain
<1> QED BY <1>2, <1>3, <1>4 DEF Queries

\* What the server has and does not answer with is away.
LEMMA NotInPage ==
  ASSUME NEW c \in Chats, NEW m \in stored \cap In(c), m \notin Newest((stored \ deleted) \cap In(c))
  PROVE  Away(m, stored, deleted)
<1> DEFINE S == Newer((stored \ deleted) \cap In(c), m)
           T == Newer(stored \cap In(c), m)
<1>1. ChatOf[m] = c /\ m \in Messages
  BY DEF In
<1>2. S \subseteq T /\ T \subseteq Messages
  BY DEF Newer, In
<1>3. /\ Cardinality(S) \in Nat /\ Cardinality(T) \in Nat
      /\ Cardinality(S) <= Cardinality(T)
  <2>1. IsFiniteSet(T)
    BY <1>2, MessagesAssumption, FS_Subset
  <2>2. IsFiniteSet(S) /\ Cardinality(S) <= Cardinality(T)
    BY <1>2, <2>1, FS_Subset
  <2> QED BY <2>1, <2>2, FS_CardinalityType
<1>4. m \in deleted \/ ~(Cardinality(S) < PageSize)
  BY DEF Newest
<1>5. m \in deleted \/ Cardinality(T) >= PageSize
  BY <1>3, <1>4, PageAssumption
<1> QED BY <1>1, <1>5 DEF Away

LEMMA FetchesKeep ==
  ASSUME PageInv, NEW c \in Chats, FetchServed(c) \/ FetchEnds(c) \/ FetchFails(c) \/ Ages(c)
  PROVE  Steps
<1>1. World /\ Queries /\ List /\ Screen /\ Signs /\ Banner
  BY DEF PageInv
<1>2. /\ UNCHANGED <<platform, feed, stored, deleted, copies, onWay, online, active, ref, visible, watched, live,
                     marked, posts, unread, status, typing, expiry, banner>>
      /\ drops' = drops \/ (drops < MaxDrops /\ drops' = drops + 1)
      /\ noted' = noted \/ noted' = noted \ In(c)
  <2>1. FetchServed(c) \/ Ages(c) => UNCHANGED <<world, onWay, online, screen, live, marked, posts, noted,
                                                unread, signs, banner>>
    BY DEF FetchServed, Ages
  <2>2. FetchEnds(c) => UNCHANGED <<world, onWay, online, screen, live, marked, posts, noted,
                                    unread, signs, banner>>
    BY DEF FetchEnds, LiveKept
  <2>3. FetchFails(c) => /\ UNCHANGED <<platform, feed, stored, deleted, copies, onWay, online, screen, live,
                                        marked, posts, unread, signs, banner>>
                         /\ drops < MaxDrops /\ drops' = drops + 1 /\ noted' = noted \ In(c)
    BY DEF FetchFails
  <2>4. CASE FetchServed(c) \/ Ages(c)
    BY <2>1, <2>4 DEF world, screen, signs
  <2>5. CASE FetchEnds(c)
    BY <2>2, <2>5 DEF world, screen, signs
  <2>6. CASE FetchFails(c)
    BY <2>3, <2>6 DEF screen, signs
  <2> QED BY <2>4, <2>5, <2>6
<1>3. QueryFits(query[c], c, stored, deleted) /\ query[c] \in QueryType /\ query \in [Chats -> QueryType]
  BY <1>1 DEF Queries
<1>4. World'
  BY <1>1, <1>2, Bounds DEF World
<1>5. List'
  BY <1>1, <1>2 DEF List
<1>6. Queries' /\ Remain
  <2>1. CASE FetchServed(c)
    <3> DEFINE page == Newest((stored \ deleted) \cap In(c))
               q == [query[c] EXCEPT !.fetch = "served", !.answer = page]
    <3>1. query' = [query EXCEPT ![c] = q]
      BY <1>3, <2>1 DEF FetchServed
    <3>2. page \subseteq stored \cap In(c)
      BY DEF Newest
    <3>3. \A m \in query[c].data \ page : Away(m, stored, deleted)
      BY <1>3, NotInPage DEF QueryFits
    <3> HIDE DEF page
    <3>4. q.data = query[c].data /\ q.answer = page /\ q \in QueryType
      BY <1>1, <1>3, <3>2 DEF QueryType, World
    <3>5. QueryFits(q, c, stored, deleted)
      BY <1>3, <3>2, <3>3, <3>4 DEF QueryFits
    <3> HIDE DEF q
    <3> QED BY <1>1, <1>2, <3>1, <3>4, <3>5, QueryPut
  <2>2. CASE FetchEnds(c)
    <3> DEFINE q == [loaded |-> TRUE, stale |-> FALSE, fetch |-> "idle",
                     data |-> query[c].answer, answer |-> {}]
    <3>1. query' = [query EXCEPT ![c] = q]
      BY <2>2 DEF FetchEnds
    <3>2. /\ QueryFits(q, c, stored, deleted)
          /\ \A m \in query[c].data \ q.data : Away(m, stored, deleted)
      BY <1>3, <2>2 DEF QueryFits, QueryType, FetchEnds
    <3> HIDE DEF q
    <3> QED BY <1>1, <1>2, <3>1, <3>2, QueryPut
  <2>3. CASE FetchFails(c)
    <3> DEFINE q == [query[c] EXCEPT !.fetch = "idle", !.stale = TRUE]
    <3>1. query' = [query EXCEPT ![c] = q]
      BY <1>3, <2>3 DEF FetchFails
    <3>2. QueryFits(q, c, stored, deleted) /\ q.data = query[c].data
      BY <1>3 DEF QueryFits, QueryType
    <3> HIDE DEF q
    <3> QED BY <1>1, <1>2, <3>1, <3>2, QueryPut
  <2>4. CASE Ages(c)
    <3> DEFINE q == [query[c] EXCEPT !.stale = TRUE]
    <3>1. query' = [query EXCEPT ![c] = q]
      BY <1>3, <2>4 DEF Ages
    <3>2. QueryFits(q, c, stored, deleted) /\ q.data = query[c].data
      BY <1>3 DEF QueryFits, QueryType
    <3> HIDE DEF q
    <3> QED BY <1>1, <1>2, <3>1, <3>2, QueryPut
  <2> QED BY <2>1, <2>2, <2>3, <2>4
<1> QED BY <1>1, <1>2, <1>4, <1>5, <1>6, ScreenStays, SignsStay, BannerStays DEF Steps, PageInv, Keeps

-----------------------------------------------------------------------------
(* ChatClient: the server and the socket                                   *)

LEMMA WorldKeeps ==
  ASSUME PageInv,
         (\E m \in Messages : Stored(m) \/ Deleted(m) \/ Published(m)) \/ ConnectionLost \/ ConnectionBack
  PROVE  Steps
<1>1. World /\ Queries /\ List /\ Screen /\ Signs /\ Banner
  BY DEF PageInv
<1>2. /\ UNCHANGED <<platform, feed, active, ref, visible, watched, query, live, marked, posts, noted,
                     unread, status, typing, expiry, banner>>
      /\ stored \subseteq stored' /\ deleted \subseteq deleted'
  BY DEF Stored, Deleted, Published, ConnectionLost, ConnectionBack, world, screen, list, signs
<1>3. World'
  <2>1. ASSUME NEW m \in Messages, Stored(m) PROVE World'
    BY <1>1, <2>1 DEF Stored, World
  <2>2. ASSUME NEW m \in Messages, Published(m) PROVE World'
    BY <1>1, <2>2, Bounds DEF Published, World
  <2>5. ASSUME NEW m \in Messages, Deleted(m) PROVE World'
    BY <1>1, <2>5 DEF Deleted, World
  <2>3. CASE ConnectionLost
    <3>1. /\ online' = FALSE /\ drops < MaxDrops /\ drops' = drops + 1 /\ UNCHANGED copies
          /\ onWay' = [n \in Messages |-> 0]
      BY <2>3 DEF ConnectionLost
    <3>2. onWay' \in [Messages -> 0..MaxCopies] /\ \A n \in Messages : onWay'[n] <= copies[n]
      BY <1>1, <3>1, Bounds DEF World
    <3>3. drops' \in 0..MaxDrops
      BY <1>1, <3>1, Bounds DEF World
    <3>4. UNCHANGED <<stored, deleted>>
      BY <2>3 DEF ConnectionLost
    <3> QED BY <1>1, <1>2, <3>1, <3>2, <3>3, <3>4 DEF World
  <2>4. CASE ConnectionBack
    BY <1>1, <2>4 DEF ConnectionBack, World, world
  <2> QED BY <2>1, <2>2, <2>3, <2>4, <2>5
<1> QED BY <1>1, <1>2, <1>3, QueriesStay, ListStays, ScreenStays, SignsStay, BannerStays
       DEF Steps, PageInv, Keeps

\* One copy of an event is taken.
LEMMA TakeKeeps ==
  ASSUME World, NEW m \in Messages, Take(m), onWay[m] > 0,
         UNCHANGED <<platform, feed, stored, deleted, copies, online, drops>>
  PROVE  World'
BY Bounds DEF World, Take

LEMMA OwnSentKeeps ==
  ASSUME PageInv, NEW m \in Mine, OwnSent(m)
  PROVE  Steps
<1>1. World /\ Queries /\ List /\ Screen /\ Signs /\ Banner
  BY DEF PageInv
<1>2. PICK c \in Chats : c = ChatOf[m] /\ m \in Messages
  BY ChatOfAssumption
<1>3. /\ UNCHANGED <<platform, feed, deleted, copies, onWay, online, drops, active, ref, visible, watched, live,
                     marked, posts, noted, unread, status, typing, expiry, banner>>
      /\ stored' = stored \cup {m}
      /\ query' = [query EXCEPT ![c] = Invalidated(query[c], ref = c)]
  BY <1>2 DEF OwnSent, screen, signs
<1>4. World'
  BY <1>1, <1>2, <1>3 DEF World
<1>5. Queries' /\ Remain
  <2>1. QueryFits(query[c], c, stored', deleted')
    BY <1>1, <1>3, FitsStays DEF Queries
  <2>2. /\ QueryFits(Invalidated(query[c], ref = c), c, stored', deleted')
        /\ Invalidated(query[c], ref = c).data = query[c].data
    BY <2>1, QueryOperations
  <2> QED BY <1>1, <1>3, <2>2, QueryPut
<1> QED BY <1>1, <1>3, <1>4, <1>5, ListStays, ScreenStays, SignsStay, BannerStays DEF Steps, PageInv, Keeps

-----------------------------------------------------------------------------
(* ChatClient: message.new                                                 *)

LEMMA WebMessageNewKeeps ==
  ASSUME PageInv, NEW m \in Messages, WebMessageNew(m)
  PROVE  Steps
<1>1. World /\ Queries /\ List /\ Screen /\ Signs /\ Banner
  BY DEF PageInv
<1>2. PICK c \in Chats : c = ChatOf[m]
  BY ChatOfAssumption
<1>3. /\ UNCHANGED <<platform, feed, stored, deleted, copies, online, drops, active, ref, visible, live,
                     marked, status, typing, expiry, banner>>
      /\ Take(m) /\ onWay[m] > 0 /\ Web /\ watched' = (watched /\ ~(active = c /\ ref # active))
      /\ query' = [query EXCEPT ![c] = Invalidated(query[c], ref = c)]
  BY <1>2 DEF WebMessageNew, world, signs, Early
<1>8. /\ noted' \subseteq noted \cup {m}
      /\ posts' \subseteq posts \cup {<<"delivered", m>>, <<"read", m>>}
      /\ unread' = unread \/ (~(ref = c /\ visible) /\ unread' = [unread EXCEPT ![c] = unread[c] + 1])
  <2>1. noted' \subseteq noted \cup {m}
    BY DEF WebMessageNew, Notes
  <2>2. \/ posts' = posts /\ unread' = unread
        \/ (ref = c /\ visible) /\ posts' = posts \cup {<<"delivered", m>>, <<"read", m>>} /\ unread' = unread
        \/ /\ ~(ref = c /\ visible) /\ posts' = posts \cup {<<"delivered", m>>}
           /\ unread' = [unread EXCEPT ![c] = unread[c] + 1]
    BY <1>2, Zenon DEF WebMessageNew, SeenAtOnce, incUnread
  <2>3. posts' \subseteq posts \cup {<<"delivered", m>>, <<"read", m>>}
    BY <2>2
  <2>4. unread' = unread \/ (~(ref = c /\ visible) /\ unread' = [unread EXCEPT ![c] = unread[c] + 1])
    BY <2>2
  <2> QED BY <2>1, <2>3, <2>4
<1>4. World'
  BY <1>1, <1>3, TakeKeeps
<1>5. Queries' /\ Remain
  <2>1. /\ QueryFits(Invalidated(query[c], ref = c), c, stored, deleted)
        /\ Invalidated(query[c], ref = c).data = query[c].data
    BY <1>1, QueryOperations DEF Queries
  <2> QED BY <1>1, <1>3, <2>1, QueryPut
<1>6. List'
  BY <1>1, <1>3, <1>8 DEF List
<1>7. Screen'
  <2>1. ~Mobile' /\ Web'
    BY <1>3, PlatformsAssumption DEF Web, Mobile
  <2>2. unread' \in [Chats -> Nat]
    BY <1>1, <1>8 DEF Screen
  <2>3. watched' => active' \in Chats /\ visible' /\ unread[active'] = 0
    BY <1>1, <1>3 DEF Screen
  <2>4. watched' => unread'[active'] = 0
    <3>1. CASE unread' = unread
      BY <2>3, <3>1
    <3>2. CASE ~(ref = c /\ visible) /\ unread' = [unread EXCEPT ![c] = unread[c] + 1]
      <4>1. watched' => active' # c
        BY <1>1, <1>3, <3>2 DEF Screen
      <4> QED BY <1>1, <2>3, <3>2, <4>1 DEF Screen
    <3> QED BY <1>8, <3>1, <3>2
  <2>5. active' \in Chats \cup {None} /\ ref' \in Chats \cup {None} /\ visible' \in BOOLEAN /\ watched' \in BOOLEAN
    BY <1>1, <1>3 DEF Screen
  <2> QED BY <2>1, <2>2, <2>3, <2>4, <2>5 DEF Screen
<1> QED BY <1>1, <1>3, <1>4, <1>5, <1>6, <1>7, SignsStay, BannerStays DEF Steps, PageInv, Keeps

LEMMA MobileMessageNewKeeps ==
  ASSUME PageInv, NEW m \in Messages, MobileMessageNew(m)
  PROVE  Steps
<1>1. World /\ Queries /\ List /\ Screen /\ Signs /\ Banner
  BY DEF PageInv
<1>2. PICK c \in Chats : c = ChatOf[m]
  BY ChatOfAssumption
<1>3. /\ UNCHANGED <<platform, feed, stored, deleted, copies, online, drops, active, ref, visible, watched, query,
                     status, typing, expiry>>
      /\ Take(m) /\ onWay[m] > 0 /\ Mobile
      /\ noted' \subseteq noted \cup {m}
      /\ posts' \subseteq posts \cup {<<"delivered", m>>, <<"read", m>>}
      /\ live' \in {live, live \cup {m}} /\ marked' \in {marked, marked \cup {m}}
      /\ unread' \in {unread, [unread EXCEPT ![c] = unread[c] + 1]}
      /\ banner' \in {banner, BannerFor(c)}
  BY <1>2 DEF MobileMessageNew, world, screen, signs, Notes, incUnread
<1>4. World'
  BY <1>1, <1>3, TakeKeeps
<1>5. List' /\ live \subseteq live'
  BY <1>1, <1>3 DEF List
<1>6. ~Web /\ ~Web'
  BY <1>3 DEF Web, Mobile
<1>7. Screen'
  BY <1>1, <1>3, <1>6 DEF Screen, Mobile
<1>8. Banner'
  BY <1>1, <1>3, <1>6 DEF Banner, BannerFor
<1> QED BY <1>1, <1>3, <1>4, <1>5, <1>7, <1>8, QueriesStay, SignsStay DEF Steps, PageInv, Keeps

-----------------------------------------------------------------------------
(* ChatClient: chats opened and left                                       *)

\* The open chat is fetched if its data is stale.
LEMMA ObservedKeeps ==
  ASSUME Queries, NEW c \in Chats, query' = [query EXCEPT ![c] = Observed(query[c])],
         UNCHANGED <<stored, deleted>>
  PROVE  Queries' /\ Remain
<1>1. QueryFits(Observed(query[c]), c, stored, deleted) /\ Observed(query[c]).data = query[c].data
  <2>1. QueryFits(query[c], c, stored, deleted) /\ TRUE \in BOOLEAN
    BY DEF Queries
  <2> QED BY <2>1, QueryOperations
<1> QED BY <1>1, QueryPut

\* The effects of a chat: it is the one whose query is shown.
LEMMA EffectsKeep ==
  ASSUME Queries, List, NEW c \in Chats, Effects(c), UNCHANGED <<stored, deleted, live, posts>>
  PROVE  Queries' /\ Remain /\ List' /\ ref' = c
<1>1. /\ ref' = c
      /\ UNCHANGED query \/ query' = [query EXCEPT ![c] = Observed(query[c])]
      /\ marked' \in {marked, {}} /\ noted' \in {noted, {}}
  BY DEF Effects
<1>2. Queries' /\ Remain
  BY <1>1, ObservedKeeps, QueriesStay
<1>3. List'
  BY <1>1 DEF List
<1> QED BY <1>1, <1>2, <1>3

\* A chat is opened, and its effects run at once or later.
LEMMA WebOpeningKeeps ==
  ASSUME PageInv, NEW c \in Chats, Web, openChat(c),
         \/ Effects(c) /\ UNCHANGED <<live, posts>>
         \/ UNCHANGED <<ref, query, live, marked, posts, noted>>,
         UNCHANGED <<world, onWay, online, visible, status, typing, expiry, banner>>
  PROVE  Steps
<1>1. World /\ Queries /\ List /\ Screen /\ Signs /\ Banner
  BY DEF PageInv
<1>2. /\ UNCHANGED <<platform, feed, stored, deleted, copies, onWay, online, drops, visible, live, posts,
                     status, typing, expiry, banner>>
      /\ active' = c /\ watched' = visible /\ unread' = [unread EXCEPT ![c] = 0]
  BY DEF world, openChat, clearUnread
<1>3. Queries' /\ Remain /\ List' /\ ref' \in {c, ref}
  BY <1>1, <1>2, EffectsKeep, QueriesStay, ListStays
<1>4. Screen'
  <2>1. ~Mobile'
    BY <1>2, PlatformsAssumption DEF Web, Mobile
  <2> QED BY <1>1, <1>2, <1>3, <2>1 DEF Screen
<1> QED BY <1>1, <1>2, <1>3, <1>4, WorldStays, SignsStay, BannerStays DEF Steps, PageInv, Keeps

LEMMA WebOpensChatKeeps ==
  ASSUME PageInv, NEW c \in Chats, WebPressesChat(c) \/ WebOpensChat(c)
  PROVE  Steps
<1>1. /\ Web /\ openChat(c)
      /\ \/ Effects(c) /\ UNCHANGED <<live, posts>>
         \/ UNCHANGED <<ref, query, live, marked, posts, noted>>
      /\ UNCHANGED <<world, onWay, online, visible, status, typing, expiry, banner>>
  BY DEF WebPressesChat, WebOpensChat, list, signs
<1> QED BY <1>1, WebOpeningKeeps

LEMMA WebRunsEffectsKeeps ==
  ASSUME PageInv, WebRunsEffects
  PROVE  Steps
<1>1. World /\ Queries /\ List /\ Screen /\ Signs /\ Banner
  BY DEF PageInv
<1>2. /\ UNCHANGED <<platform, feed, stored, deleted, copies, onWay, online, drops, active, visible, watched,
                     live, posts, unread, status, typing, expiry, banner>>
      /\ Web /\ active # None /\ Effects(active)
  BY DEF WebRunsEffects, world, signs
<1>3. active \in Chats
  BY <1>1, <1>2 DEF Screen
<1>4. Queries' /\ Remain /\ List' /\ ref' = active
  BY <1>1, <1>2, <1>3, EffectsKeep
<1>5. Screen'
  BY <1>1, <1>2, <1>4 DEF Screen, Web
<1> QED BY <1>1, <1>2, <1>4, <1>5, WorldStays, SignsStay, BannerStays DEF Steps, PageInv, Keeps

LEMMA WebHidesChatKeeps ==
  ASSUME PageInv, WebHidesChat
  PROVE  Steps
<1>1. World /\ Queries /\ List /\ Screen /\ Signs /\ Banner
  BY DEF PageInv
<1>2. /\ UNCHANGED <<platform, feed, stored, deleted, copies, onWay, online, drops, active, ref, visible, query, live,
                     marked, posts, noted, unread, status, typing, expiry, banner>>
      /\ watched' = FALSE
  BY DEF WebHidesChat, world, list, signs
<1>3. Screen'
  BY <1>1, <1>2 DEF Screen, Web, Mobile
<1> QED BY <1>1, <1>2, <1>3, WorldStays, QueriesStay, ListStays, SignsStay, BannerStays
       DEF Steps, PageInv, Keeps

LEMMA WebLeavesChatsKeeps ==
  ASSUME PageInv, WebLeavesChats
  PROVE  Steps
<1>1. World /\ Queries /\ List /\ Screen /\ Signs /\ Banner
  BY DEF PageInv
<1>2. /\ UNCHANGED <<platform, feed, stored, deleted, copies, drops, visible, query, live, posts, unread,
                     status, typing, banner>>
      /\ active' = None /\ ref' = None /\ watched' = FALSE /\ online' = FALSE /\ marked' = {} /\ noted' = {}
  BY DEF WebLeavesChats, world
<1>3. World'
  <2>1. onWay' = [m \in Messages |-> 0]
    BY DEF WebLeavesChats
  <2>2. onWay' \in [Messages -> 0..MaxCopies] /\ \A m \in Messages : onWay'[m] <= copies[m]
    BY <1>1, <2>1, Bounds DEF World
  <2> QED BY <1>1, <1>2, <2>2 DEF World
<1>4. List' /\ Screen'
  BY <1>1, <1>2 DEF List, Screen
<1>5. Signs'
  <2>1. /\ expiry' = [c \in Chats |-> TimersLeft(expiry[c])]
        /\ \A c \in Chats : expiry[c].own => expiry[c].stray < MaxDrops
    BY DEF WebLeavesChats
  <2>2. ASSUME NEW c \in Chats
        PROVE  /\ expiry'[c] \in [own : BOOLEAN, stray : 0..MaxDrops]
               /\ expiry[c].own \/ expiry[c].stray > 0 => expiry'[c].stray > 0
    <3>1. /\ expiry'[c].own = FALSE
          /\ expiry'[c].stray = expiry[c].stray + (IF expiry[c].own THEN 1 ELSE 0)
          /\ expiry'[c] = [own |-> FALSE, stray |-> expiry'[c].stray]
      BY <2>1 DEF TimersLeft
    <3>2. expiry[c].own \in BOOLEAN /\ expiry[c].stray \in 0..MaxDrops
      BY <1>1 DEF Signs
    <3>3. /\ expiry'[c].stray \in 0..MaxDrops
          /\ expiry[c].own \/ expiry[c].stray > 0 => expiry'[c].stray > 0
      BY <2>1, <3>1, <3>2, Bounds
    <3> QED BY <3>1, <3>3
  <2>3. expiry' \in [Chats -> [own : BOOLEAN, stray : 0..MaxDrops]]
    BY <2>1, <2>2
  <2> QED BY <1>1, <1>2, <2>2, <2>3 DEF Signs, Web
<1> QED BY <1>1, <1>2, <1>3, <1>4, <1>5, QueriesStay, BannerStays DEF Steps, PageInv, Keeps

LEMMA TabChangesKeeps ==
  ASSUME PageInv, TabChanges
  PROVE  Steps
<1>1. World /\ Queries /\ List /\ Screen /\ Signs /\ Banner
  BY DEF PageInv
<1>2. /\ UNCHANGED <<platform, feed, stored, deleted, copies, onWay, online, drops, active, ref, live, marked,
                     posts, noted, unread, status, typing, expiry, banner>>
      /\ visible' = ~visible /\ watched' = FALSE
      /\ UNCHANGED query \/ (ref # None /\ query' = [query EXCEPT ![ref] = Observed(query[ref])])
  BY DEF TabChanges, world, signs
<1>3. Queries' /\ Remain
  BY <1>1, <1>2, ObservedKeeps, QueriesStay DEF Screen
<1>4. Screen'
  BY <1>1, <1>2 DEF Screen, Web, Mobile
<1> QED BY <1>1, <1>2, <1>3, <1>4, WorldStays, ListStays, SignsStay, BannerStays DEF Steps, PageInv, Keeps

LEMMA MobileOpensChatKeeps ==
  ASSUME PageInv, NEW c \in Chats, MobileOpensChat(c)
  PROVE  Steps
<1>1. World /\ Queries /\ List /\ Screen /\ Signs /\ Banner
  BY DEF PageInv
<1>2. /\ UNCHANGED <<platform, feed, stored, deleted, copies, onWay, online, drops, visible, posts,
                     status, typing, expiry, banner>>
      /\ Mobile /\ active = None
      /\ active' = c /\ ref' = c /\ watched' = TRUE /\ unread' = [unread EXCEPT ![c] = 0]
      /\ query' = [query EXCEPT ![c] = Observed(query[c])]
      /\ live' = {} /\ marked' = {} /\ noted' = {}
  BY DEF MobileOpensChat, world, signs, clearUnread
<1>3. Queries' /\ Remain
  BY <1>1, <1>2, ObservedKeeps
<1>4. List'
  BY <1>1, <1>2 DEF List
<1>5. Screen' /\ ref' # ref
  <2>1. ~Web' /\ ref = None
    BY <1>1, <1>2, PlatformsAssumption DEF Web, Mobile, Screen
  <2> QED BY <1>1, <1>2, <2>1, ChatsAssumption DEF Screen
<1> QED BY <1>1, <1>2, <1>3, <1>4, <1>5, WorldStays, SignsStay, BannerStays DEF Steps, PageInv, Keeps

LEMMA MobileLeavesChatKeeps ==
  ASSUME PageInv, MobileLeavesChat
  PROVE  Steps
<1>1. World /\ Queries /\ List /\ Screen /\ Signs /\ Banner
  BY DEF PageInv
<1>2. /\ UNCHANGED <<platform, feed, stored, deleted, copies, onWay, online, drops, visible, query, posts, unread,
                     status, typing, expiry, banner>>
      /\ active' = None /\ ref' = None /\ watched' = FALSE /\ live' = {} /\ marked' = {} /\ noted' = {}
  BY DEF MobileLeavesChat, world, signs
<1>3. List' /\ Screen'
  BY <1>1, <1>2 DEF List, Screen
<1> QED BY <1>1, <1>2, <1>3, WorldStays, QueriesStay, SignsStay, BannerStays DEF Steps, PageInv, Keeps

-----------------------------------------------------------------------------
(* ChatClient: receipts, signs and the banner                              *)

LEMMA MarksReadKeeps ==
  ASSUME PageInv, MarksRead
  PROVE  Steps
<1>1. World /\ Queries /\ List /\ Screen /\ Signs /\ Banner
  BY DEF PageInv
<1>2. /\ UNCHANGED <<platform, feed, stored, deleted, copies, onWay, online, drops, active, ref, visible, watched, query,
                     live, noted, unread, status, typing, expiry, banner>>
      /\ marked' = marked \cup Unmarked(ref)
      /\ posts' \subseteq posts \cup ({"delivered", "read"} \X Unmarked(ref))
      /\ ref # None
  BY DEF MarksRead, WebMarksRead, MobileMarksRead, world, screen, signs
<1>3. Unmarked(ref) \subseteq Messages
  <2>1. ref \in Chats /\ query[ref].data \subseteq Messages
    BY <1>1, <1>2 DEF Screen, Queries, QueryFits, QueryType
  <2> QED BY <1>1, <2>1 DEF Unmarked, Shown, WebMessages, MobileMessages, In
<1>4. List'
  BY <1>1, <1>2, <1>3 DEF List
<1> QED BY <1>1, <1>2, <1>4, WorldStays, QueriesStay, ScreenStays, SignsStay, BannerStays
       DEF Steps, PageInv, Keeps

\* Steps of the signs only.
LEMMA SignStep ==
  ASSUME PageInv, Signs',
         \A m \in Mine : /\ status[m].delivered => status'[m].delivered
                         /\ status[m].read => status'[m].read,
         UNCHANGED <<world, onWay, online, screen, list, unread, banner>>
  PROVE  Steps
<1>1. World /\ Queries /\ List /\ Screen /\ Banner
  BY DEF PageInv
<1>2. UNCHANGED <<platform, feed, stored, deleted, copies, onWay, online, drops, active, ref, visible, watched, query,
                  live, marked, posts, noted, unread, banner>>
  BY DEF world, screen, list
<1> QED BY <1>1, <1>2, WorldStays, QueriesStay, ListStays, ScreenStays, BannerStays DEF Steps, PageInv, Keeps

LEMMA StatusEventKeeps ==
  ASSUME PageInv, NEW m \in Mine, StatusEvent(m)
  PROVE  Steps
<1>1. PICK s : s \in {setDelivered(status[m]), setRead(status[m])} /\ status' = [status EXCEPT ![m] = s]
  BY DEF StatusEvent
<1>2. Signs /\ status \in [Mine -> [delivered : BOOLEAN, read : BOOLEAN]]
  BY DEF PageInv, Signs
<1>3. /\ s \in [delivered : BOOLEAN, read : BOOLEAN] /\ s.delivered
      /\ status[m].read => s.read
  <2>1. status[m].read \in BOOLEAN
    BY <1>2
  <2>2. /\ setDelivered(status[m]) \in [delivered : BOOLEAN, read : BOOLEAN]
        /\ setDelivered(status[m]).delivered /\ setDelivered(status[m]).read = status[m].read
    BY <2>1 DEF setDelivered
  <2>3. /\ setRead(status[m]) \in [delivered : BOOLEAN, read : BOOLEAN]
        /\ setRead(status[m]).delivered /\ setRead(status[m]).read
    BY DEF setRead
  <2>4. CASE s = setDelivered(status[m])
    BY <2>2, <2>4
  <2>5. CASE s = setRead(status[m])
    BY <2>3, <2>5
  <2> QED BY <1>1, <2>4, <2>5
<1>4. /\ status' \in [Mine -> [delivered : BOOLEAN, read : BOOLEAN]]
      /\ \A n \in Mine : /\ status[n].delivered => status'[n].delivered
                         /\ status[n].read => status'[n].read
  BY <1>1, <1>2, <1>3
<1>5. UNCHANGED <<world, onWay, online, screen, list, unread, typing, expiry, banner>>
  BY DEF StatusEvent
<1>6. Signs'
  BY <1>2, <1>4, <1>5 DEF Signs, Web, world
<1> QED BY <1>4, <1>5, <1>6, SignStep

LEMMA TypingKeeps ==
  ASSUME PageInv, NEW c \in Chats, NEW types \in BOOLEAN,
         \/ WebTypingStarted(c) \/ WebTypingStopped(c) \/ WebTypingExpires(c) \/ WebTypingStrayExpires(c)
         \/ MobileTyping(c, types)
  PROVE  Steps
<1>1. /\ UNCHANGED <<world, onWay, online, screen, list, unread, status, banner>> /\ platform' = platform
  BY DEF WebTypingStarted, WebTypingStopped, WebTypingExpires, WebTypingStrayExpires, MobileTyping, world
<1>2. PICK t \in BOOLEAN : typing' = [typing EXCEPT ![c] = t]
  BY DEF WebTypingStarted, WebTypingStopped, WebTypingExpires, WebTypingStrayExpires, MobileTyping, setTyping
<1>3. Signs
  BY DEF PageInv
<1>4. typing' \in [Chats -> BOOLEAN] /\ typing'[c] = t /\ \A d \in Chats : d # c => typing'[d] = typing[d]
  BY <1>2, <1>3 DEF Signs
<1>5. /\ expiry' \in [Chats -> [own : BOOLEAN, stray : 0..MaxDrops]]
      /\ \A d \in Chats : d # c => expiry'[d] = expiry[d]
      /\ Web /\ typing'[c] => expiry'[c].own \/ expiry'[c].stray > 0
  <2>1. CASE WebTypingStarted(c)
    <3>1. expiry' = [expiry EXCEPT ![c].own = TRUE]
      BY <2>1 DEF WebTypingStarted
    <3> QED BY <1>3, <3>1 DEF Signs
  <2>2. CASE WebTypingStopped(c) \/ WebTypingExpires(c)
    <3>1. expiry' = [expiry EXCEPT ![c].own = FALSE] /\ typing' = [typing EXCEPT ![c] = FALSE]
      BY <2>2 DEF WebTypingStopped, WebTypingExpires, setTyping
    <3>2. ~typing'[c]
      BY <1>3, <3>1 DEF Signs
    <3> QED BY <1>3, <3>1, <3>2 DEF Signs
  <2>3. CASE WebTypingStrayExpires(c)
    <3>1. /\ expiry' = [expiry EXCEPT ![c].stray = expiry[c].stray - 1] /\ expiry[c].stray > 0
          /\ typing' = [typing EXCEPT ![c] = FALSE]
      BY <2>3 DEF WebTypingStrayExpires, setTyping
    <3>2. ~typing'[c]
      BY <1>3, <3>1 DEF Signs
    <3>3. expiry[c].stray - 1 \in 0..MaxDrops
      BY <1>3, <3>1, Bounds DEF Signs
    <3> QED BY <1>3, <3>1, <3>2, <3>3 DEF Signs
  <2>4. CASE MobileTyping(c, types)
    <3>1. UNCHANGED expiry /\ ~Web
      BY <2>4 DEF MobileTyping, Web, Mobile
    <3> QED BY <1>3, <3>1 DEF Signs
  <2> QED BY <2>1, <2>2, <2>3, <2>4
<1>6. Signs'
  BY <1>1, <1>3, <1>4, <1>5 DEF Signs, Web
<1> QED BY <1>1, <1>6, SignStep

\* dismiss() leaves a removal to come.
LEMMA DismissedFits ==
  ASSUME Banner, banner.hides < MaxHides
  PROVE  /\ Dismissed \in [chat : Chats \cup {None}, timer : BOOLEAN, hides : 0..MaxHides]
         /\ Dismissed.hides > 0
<1>1. /\ banner \in [chat : Chats \cup {None}, timer : BOOLEAN, hides : 0..MaxHides]
      /\ banner.chat \in Chats \cup {None} /\ banner.hides \in 0..MaxHides
  BY DEF Banner
<1>2. banner.hides + 1 \in 0..MaxHides /\ banner.hides + 1 > 0
  BY <1>1, Bounds
<1>3. Dismissed = [chat |-> banner.chat, timer |-> FALSE, hides |-> banner.hides + 1]
  <2>1. PICK n : n = banner.hides + 1
    OBVIOUS
  <2>2. Dismissed = [banner EXCEPT !.timer = FALSE, !.hides = n]
    BY <2>1 DEF Dismissed
  <2> QED BY <1>1, <2>1, <2>2
<1> QED BY <1>1, <1>2, <1>3

LEMMA BannerKeeps ==
  ASSUME PageInv, BannerTimerFires \/ BannerPressed \/ BannerRemoved
  PROVE  Steps
<1>1. World /\ Queries /\ List /\ Screen /\ Signs /\ Banner
  BY DEF PageInv
<1>2. UNCHANGED <<platform, feed, stored, deleted, copies, onWay, online, drops, active, ref, visible, watched, query,
                  live, marked, posts, noted, unread, status, typing, expiry>>
  BY DEF BannerTimerFires, BannerPressed, BannerRemoved, world, screen, list, signs
<1>3. Banner'
  <2>1. /\ banner \in [chat : Chats \cup {None}, timer : BOOLEAN, hides : 0..MaxHides]
        /\ banner.timer \/ banner.hides > 0
    BY <1>1, Bounds DEF Banner, BannerTimerFires, BannerPressed, BannerRemoved
  <2>2. ~Web /\ ~Web'
    BY <1>1, <1>2, <2>1, Bounds DEF Banner, NoBanner, Web
  <2>3. CASE BannerTimerFires \/ BannerPressed
    <3>1. banner' = Dismissed /\ banner.hides < MaxHides
      BY <2>3 DEF BannerTimerFires, BannerPressed
    <3> QED BY <1>1, <2>2, <3>1, DismissedFits DEF Banner
  <2>4. CASE BannerRemoved
    <3>1. /\ banner' = [banner EXCEPT !.chat = None, !.hides = banner.hides - 1]
          /\ banner.hides > 0
      BY <2>4 DEF BannerRemoved
    <3>2. banner.hides - 1 \in 0..MaxHides /\ banner.timer \in BOOLEAN
      BY <2>1, <3>1, Bounds
    <3>3. banner' = [chat |-> None, timer |-> banner.timer, hides |-> banner.hides - 1]
      BY <2>1, <3>1
    <3>4. /\ banner' \in [chat : Chats \cup {None}, timer : BOOLEAN, hides : 0..MaxHides]
          /\ banner'.chat = None
      BY <3>2, <3>3
    <3> QED BY <2>2, <3>4 DEF Banner
  <2> QED BY <2>3, <2>4
<1> QED BY <1>1, <1>2, <1>3, WorldStays, QueriesStay, ListStays, ScreenStays, SignsStay
       DEF Steps, PageInv, Keeps

-----------------------------------------------------------------------------
(* ChatClient: theorems                                                    *)

LEMMA PageSteps ==
  ASSUME PageInv, [Next]_vars
  PROVE  Steps
<1>1. ASSUME NEW m \in Messages,
             \/ Stored(m) \/ Deleted(m) \/ Published(m)
             \/ WebMessageNew(m) \/ MobileMessageNew(m)
      PROVE  Steps
  BY <1>1, WorldKeeps, WebMessageNewKeeps, MobileMessageNewKeeps
<1>2. ASSUME NEW m \in Mine, OwnSent(m) \/ StatusEvent(m) PROVE Steps
  BY <1>2, OwnSentKeeps, StatusEventKeeps
<1>3. ASSUME NEW c \in Chats,
             \/ FetchServed(c) \/ FetchEnds(c) \/ FetchFails(c) \/ Ages(c)
             \/ WebPressesChat(c) \/ WebOpensChat(c) \/ MobileOpensChat(c)
      PROVE  Steps
  BY <1>3, FetchesKeep, WebOpensChatKeeps, MobileOpensChatKeeps
<1>4. ASSUME NEW c \in Chats, NEW types \in BOOLEAN,
             \/ WebTypingStarted(c) \/ WebTypingStopped(c)
             \/ WebTypingExpires(c) \/ WebTypingStrayExpires(c) \/ MobileTyping(c, types)
      PROVE  Steps
  BY <1>4, TypingKeeps
<1>5. CASE \/ WebRunsEffects \/ WebHidesChat \/ WebLeavesChats \/ TabChanges
           \/ MobileLeavesChat \/ MarksRead
  BY <1>5, WebRunsEffectsKeeps, WebHidesChatKeeps, WebLeavesChatsKeeps, TabChangesKeeps, MobileLeavesChatKeeps, MarksReadKeeps
<1>6. CASE BannerTimerFires \/ BannerRemoved \/ BannerPressed
  BY <1>6, BannerKeeps
<1>7. CASE ConnectionLost \/ ConnectionBack
  BY <1>7, WorldKeeps
<1>8. CASE UNCHANGED vars
  <2>1. UNCHANGED <<world, onWay, online, screen, list, unread, status, typing, expiry, banner>>
    BY <1>8 DEF vars, world, screen, list
  <2>2. /\ Signs'
        /\ \A m \in Mine : /\ status[m].delivered => status'[m].delivered
                           /\ status[m].read => status'[m].read
    BY <1>8, SignsStay DEF PageInv, vars
  <2> QED BY <2>1, <2>2, SignStep
<1> QED BY <1>1, <1>2, <1>3, <1>4, <1>5, <1>6, <1>7, <1>8 DEF Next

\* The invariant holds of every run of the pages.
THEOREM PageInvariance == SafetySpec => []PageInv
<1>1. Init => PageInv
  BY InitPageInv
<1>2. PageInv /\ [Next]_vars => PageInv'
  BY PageSteps DEF Steps
<1> QED BY <1>1, <1>2, PTL DEF SafetySpec

\* Whatever is shown as happening now has something that will clear it
\* (ChatsPage.tsx typing timers, InAppBanner.tsx).
THEOREM SignsEnd == SafetySpec => []SignsWillEnd
<1>1. PageInv => SignsWillEnd
  BY DEF PageInv, World, Queries, QueryType, List, Screen, Signs, Banner, SignsWillEnd, TypeOK
<1> QED BY <1>1, PageInvariance, PTL

\* In the web client a chat that stays on the screen has no unread count,
\* unless an event came before the effects of its opening (ChatsPage.tsx
\* onMessageNew, openChat, activeChatIdRef).
THEOREM WatchedIsRead == SafetySpec => []WatchedChatHasNoUnread
<1>1. PageInv => WatchedChatHasNoUnread
  BY DEF PageInv, Screen, WatchedChatHasNoUnread
<1> QED BY <1>1, PageInvariance, PTL

\* While a chat is open its list loses only messages that were deleted or have
\* a page of newer ones, and no message loses its state (list_by_chat, the
\* react-query cache, ChatScreen.tsx liveMessages, store/chat.ts).
THEOREM ShownStays == SafetySpec => NothingTakenBack
<1> DEFINE Stays == /\ \A c \in Chats : ref = c /\ ref' = c =>
                          \A m \in Shown(c) \ Shown(c)' : m \in deleted \/ PushedOut(m)
                    /\ \A m \in Mine : /\ status[m].delivered => status'[m].delivered
                                       /\ status[m].read => status'[m].read
<1>1. Keeps => Stays
  <2> SUFFICES ASSUME Keeps, NEW c \in Chats, ref = c, ref' = c, NEW m \in Shown(c) \ Shown(c)'
               PROVE  m \in deleted \/ PushedOut(m)
    BY DEF Keeps
  <2>1. /\ \A n \in query[c].data \ query'[c].data : Away(n, stored, deleted)
        /\ live \subseteq live' /\ platform' = platform
    BY ChatsAssumption DEF Keeps, Remain
  <2>2. m \in query[c].data \ query'[c].data
    BY <2>1 DEF Shown, WebMessages, MobileMessages, Web
  <2> QED BY <2>1, <2>2 DEF Away, PushedOut
<1>2. PageInv /\ [Next]_vars => [Stays]_vars
  BY <1>1, PageSteps DEF Steps
<1>3. NothingTakenBack <=> [][Stays]_vars
  BY DEF NothingTakenBack
<1> HIDE DEF Stays
<1> QED BY <1>2, <1>3, PageInvariance, PTL DEF SafetySpec

-----------------------------------------------------------------------------
(* Composer: the inductive invariant                                       *)

KeyTypes == /\ chat \in Chats \cup {None} /\ key \in Direct \cup {None} /\ derives \subseteq Direct
            /\ derived \in BOOLEAN

DraftTypes == /\ text \in 0..edits /\ edits \in 0..MaxEdits
              /\ att \in [file : Files \cup {None}, id : Files \cup {None}, uploading : BOOLEAN]
              /\ uploads \subseteq Files

RequestTypes == /\ encrypting \subseteq Payload /\ sending \subseteq Payload /\ posted \subseteq Payload
                /\ latest \in 0..MaxSends /\ submits \in 0..MaxSends /\ fails \in 0..MaxFails

TypingTypes == /\ isTyping \in BOOLEAN /\ timer \in Chats \cup {None}
               /\ strays \subseteq Chats /\ announced \subseteq Chats /\ abandoned \subseteq Chats

HistoryTypes == /\ late \subseteq Drafts \cup Files /\ lost \subseteq Drafts \cup Files
                /\ removed \subseteq Files /\ overlap \in BOOLEAN /\ doubled \subseteq Contents

ComposerTypes == /\ platform \in Platforms /\ uses \in Uses
                 /\ KeyTypes /\ DraftTypes /\ RequestTypes /\ TypingTypes /\ HistoryTypes

\* The messages under way and stored; those this composer waits for.
Made == encrypting \cup sending \cup posted
Owned == {p \in encrypting \cup sending : p.own}

\* Whoever types has a timer, set in the chat or in one it was left for.
TypingTimed == isTyping => timer \in Chats /\ chat \in Chats /\ timer \in {chat} \cup abandoned

\* One derivation at most will store its result, and none after that of the
\* open chat has.
DerivesOne ==
  /\ \A c, d \in derives : c = d
  /\ Web => derives \subseteq {chat}
  /\ derived => key = chat /\ chat \in Direct /\ (Mobile => derives = {})

\* What KeyFits says of a stored message is so from its submission on.
KeyMatches(p) == ~p.crossed => /\ p.derived => p.key = p.to
                               /\ p.to \notin Direct => p.key = None

AttachmentIs ==
  /\ att = NoAttachment \/ att.file \in Files
  /\ ~att.uploading /\ att.id = None => att = NoAttachment
  /\ Web \/ ~overlap => att.id \in {None, att.file}
  /\ Mobile => att.file \notin removed
  /\ Web /\ att.id # None => att.file \notin uploads

\* An upload under way is that of the attachment, unless that was removed, or
\* cleared when a message was sent.
UploadsAre ==
  ~overlap =>
    /\ \A f, g \in uploads : f = g
    /\ \A f \in uploads : \/ att = [file |-> f, id |-> None, uploading |-> TRUE]
                          \/ att = NoAttachment /\ f \in late \cup removed

UploadsUnsent == Web \/ ~overlap => \A f \in uploads : \A p \in Made : f \notin {p.file, p.id}

FileNamed(p) ==
  /\ Web \/ ~overlap => p.id = p.file
  /\ Mobile => p.file \notin removed

\* While a message is on its way, the composer has what is in it, or nothing,
\* or what came since.
OwnedIs(p) ==
  /\ text \in {0, p.draft} \cup late
  /\ overlap \/ att.file \in {None, p.file} \cup late \cup removed

LostWasLate == lost \subseteq late \cup removed \cup (IF overlap THEN Files ELSE {})

Numbered ==
  /\ \A p, q \in Made : p.n = q.n => p = q
  /\ encrypting \cap sending = {} /\ encrypting \cap posted = {} /\ sending \cap posted = {}
  /\ latest <= submits /\ \A p \in encrypting : p.n # latest
  /\ \A p \in Made : p.n <= submits

\* The composer cannot come to have this content again.
Gone(p) == (p.draft # 0 /\ text # p.draft) \/ (p.file # None /\ att.file # p.file)

Filled(p) == (p.draft # 0 \/ p.file # None) /\ p.draft <= edits

\* Nobody waits for the message any more.
Retired(p) == p \in posted \/ ~p.own

GoneWhenRetired == \A p \in Made : Retired(p) => Content(p) \in doubled \/ Gone(p)

OnceEach == \A p, q \in Made : p.n # q.n /\ Content(p) = Content(q) => Content(p) \in doubled

TypingInv == TypingTimed /\ TypingWillStop
FilesInv  == AttachmentIs /\ UploadsAre /\ UploadsUnsent
DraftInv  == (\A p \in Owned : OwnedIs(p)) /\ LostWasLate
MadeInv   == \A p \in Made : KeyMatches(p) /\ FileNamed(p) /\ Filled(p)
SentInv   == Numbered /\ GoneWhenRetired /\ OnceEach

ComposerInv == ComposerTypes /\ TypingInv /\ DerivesOne /\ FilesInv /\ DraftInv /\ MadeInv /\ SentInv

LEMMA ComposerBound == MaxEdits \in Nat /\ MaxSends \in Nat /\ MaxFails \in Nat
BY ComposerBounds

LEMMA InitComposerInv == ComposerInit => ComposerInv
<1> SUFFICES ASSUME ComposerInit PROVE ComposerInv
  OBVIOUS
<1>1. ComposerTypes
  <2>1. KeyTypes /\ TypingTypes /\ HistoryTypes
    BY DEF ComposerInit, KeyTypes, TypingTypes, HistoryTypes
  <2>2. DraftTypes
    BY ComposerBound DEF ComposerInit, DraftTypes, NoAttachment
  <2>3. RequestTypes
    BY ComposerBound DEF ComposerInit, RequestTypes
  <2> QED BY <2>1, <2>2, <2>3 DEF ComposerInit, ComposerTypes
<1>2. Made = {} /\ Owned = {}
  BY DEF ComposerInit, Made, Owned
<1>3. TypingInv /\ DerivesOne
  BY DEF ComposerInit, TypingInv, TypingTimed, TypingWillStop, DerivesOne
<1>4. FilesInv
  BY DEF ComposerInit, FilesInv, AttachmentIs, UploadsAre, UploadsUnsent, NoAttachment
<1>5. DraftInv /\ MadeInv
  BY <1>2 DEF ComposerInit, DraftInv, LostWasLate, MadeInv
<1>6. SentInv
  BY <1>2 DEF ComposerInit, SentInv, Numbered, GoneWhenRetired, OnceEach, Made
<1> QED BY <1>1, <1>3, <1>4, <1>5, <1>6 DEF ComposerInv

-----------------------------------------------------------------------------
(* Composer: what a step leaves alone                                      *)

LEMMA PayloadParts ==
  ASSUME RequestTypes, NEW p \in Made
  PROVE  /\ p \in Payload /\ p.n \in 1..MaxSends /\ p.draft \in 0..MaxEdits
         /\ p.file \in Files \cup {None} /\ p.id \in Files \cup {None}
         /\ p.own \in BOOLEAN /\ p.derived \in BOOLEAN /\ p.crossed \in BOOLEAN
         /\ p.key \in Chats \cup {None} /\ p.to \in Chats
<1>1. p \in Payload
  BY DEF RequestTypes, Made
<1> QED BY <1>1 DEF Payload

LEMMA TypingStays ==
  ASSUME TypingTypes, TypingInv, UNCHANGED <<typing_vars, chat>>
  PROVE  TypingTypes' /\ TypingInv'
BY DEF TypingTypes, TypingInv, TypingTimed, TypingWillStop, typing_vars

LEMMA KeysStay ==
  ASSUME KeyTypes, DerivesOne, UNCHANGED <<platform, key_vars>>
  PROVE  KeyTypes' /\ DerivesOne'
BY DEF KeyTypes, DerivesOne, key_vars, Web, Mobile

LEMMA FilesStay ==
  ASSUME FilesInv, UNCHANGED <<platform, att, uploads, removed, overlap>>, Made' = Made, late \subseteq late'
  PROVE  FilesInv'
<1>1. (Web' <=> Web) /\ (Mobile' <=> Mobile)
  BY DEF Web, Mobile
<1>2. AttachmentIs' /\ UploadsAre' /\ UploadsUnsent'
  BY <1>1 DEF FilesInv, AttachmentIs, UploadsAre, UploadsUnsent
<1> QED BY <1>2 DEF FilesInv

\* Messages that only change hands, or are read.
LEMMA MadeStays ==
  ASSUME MadeInv, DraftTypes, RequestTypes, DraftTypes', Made' = Made, UNCHANGED <<platform, removed>>,
         edits <= edits', overlap => overlap'
  PROVE  MadeInv'
<1> SUFFICES ASSUME NEW p \in Made PROVE KeyMatches(p)' /\ FileNamed(p)' /\ Filled(p)'
  BY DEF MadeInv
<1>1. KeyMatches(p) /\ FileNamed(p) /\ Filled(p)
  BY DEF MadeInv
<1>2. KeyMatches(p)'
  BY <1>1 DEF KeyMatches
<1>3. FileNamed(p)'
  BY <1>1 DEF FileNamed, Web, Mobile
<1>4. Filled(p)'
  <2>1. edits \in Int /\ edits' \in Int /\ p.draft \in Int
    BY ComposerBound, PayloadParts DEF DraftTypes
  <2> QED BY <1>1, <2>1 DEF Filled
<1> QED BY <1>2, <1>3, <1>4

\* Steps of the key and of the typing signals only.
LEMMA OutsideStep ==
  ASSUME ComposerInv, KeyTypes', TypingTypes', TypingInv', DerivesOne',
         UNCHANGED <<client, draft, request, history>>
  PROVE  ComposerInv'
<1>1. /\ UNCHANGED <<platform, uses, text, edits, att, uploads>>
      /\ UNCHANGED <<encrypting, sending, latest, submits, fails, posted>>
      /\ UNCHANGED <<late, lost, removed, overlap, doubled>>
  BY DEF client, draft, request, history
<1>2. /\ ComposerTypes /\ DraftTypes /\ RequestTypes /\ HistoryTypes
      /\ FilesInv /\ DraftInv /\ MadeInv /\ SentInv
  BY DEF ComposerInv, ComposerTypes
<1>3. Made' = Made /\ Owned' = Owned
  BY <1>1 DEF Made, Owned
<1>4. DraftTypes' /\ RequestTypes' /\ HistoryTypes'
  BY <1>1, <1>2 DEF DraftTypes, RequestTypes, HistoryTypes
<1>5. ComposerTypes'
  BY <1>1, <1>2, <1>4 DEF ComposerTypes
<1>6. FilesInv' /\ MadeInv'
  BY <1>1, <1>2, <1>3, <1>4, FilesStay, MadeStays, ComposerBound DEF DraftTypes
<1>7. DraftInv'
  BY <1>1, <1>2, <1>3 DEF DraftInv, OwnedIs, LostWasLate
<1>8. SentInv'
  BY <1>1, <1>2, <1>3 DEF SentInv, Numbered, GoneWhenRetired, Retired, Gone, OnceEach
<1> QED BY <1>5, <1>6, <1>7, <1>8 DEF ComposerInv

\* Steps of the draft and its attachment: no message changes hands, and what
\* was sent does not come back.
LEMMA DraftStep ==
  ASSUME ComposerInv, DraftTypes', HistoryTypes', TypingTypes', TypingInv', FilesInv', DraftInv',
         \A p \in Made : FileNamed(p)', \A p \in Made : Gone(p) => Gone(p)', edits <= edits',
         fails' \in 0..MaxFails,
         UNCHANGED <<client, key_vars, encrypting, sending, latest, submits, posted, doubled>>
  PROVE  ComposerInv'
<1>1. /\ UNCHANGED <<platform, uses>>
  BY DEF client
<1>2. /\ ComposerTypes /\ KeyTypes /\ DraftTypes /\ RequestTypes
      /\ DerivesOne /\ MadeInv /\ SentInv
  BY DEF ComposerInv, ComposerTypes
<1>3. Made' = Made
  BY DEF Made
<1>4. KeyTypes' /\ DerivesOne'
  BY <1>1, <1>2, KeysStay
<1>5. RequestTypes'
  BY <1>2 DEF RequestTypes
<1>6. ComposerTypes'
  BY <1>1, <1>2, <1>4, <1>5 DEF ComposerTypes
<1>7. MadeInv'
  <2> SUFFICES ASSUME NEW p \in Made PROVE KeyMatches(p)' /\ FileNamed(p)' /\ Filled(p)'
    BY <1>3 DEF MadeInv
  <2>1. KeyMatches(p) /\ Filled(p)
    BY <1>2 DEF MadeInv
  <2>2. KeyMatches(p)'
    BY <2>1 DEF KeyMatches
  <2>3. Filled(p)'
    <3>1. edits \in Int /\ edits' \in Int /\ p.draft \in Int
      BY <1>2, ComposerBound, PayloadParts DEF DraftTypes
    <3> QED BY <2>1, <3>1 DEF Filled
  <2> QED BY <2>2, <2>3
<1>8. SentInv'
  BY <1>2, <1>3 DEF SentInv, Numbered, GoneWhenRetired, Retired, OnceEach
<1> QED BY <1>4, <1>6, <1>7, <1>8 DEF ComposerInv

-----------------------------------------------------------------------------
(* Composer: the key                                                       *)

LEMMA MobileOpensKeeps ==
  ASSUME ComposerInv, NEW c \in Chats, MobileOpens(c)
  PROVE  ComposerInv'
<1>1. KeyTypes /\ TypingTypes /\ TypingInv /\ DerivesOne
  BY DEF ComposerInv, ComposerTypes
<1>2. /\ UNCHANGED <<client, draft, request, history>>
      /\ chat' = c /\ derived' = FALSE /\ Mobile /\ chat = None
      /\ UNCHANGED <<key, isTyping, timer, strays, announced, abandoned>>
      /\ derives' = {c} \cap Direct
  BY DEF MobileOpens, typing_vars
<1>3. ~Web'
  BY <1>2 DEF Web, Mobile, client
<1>4. KeyTypes' /\ DerivesOne'
  BY <1>1, <1>2, <1>3 DEF KeyTypes, DerivesOne
<1>5. TypingTypes' /\ TypingInv'
  BY <1>1, <1>2, ChatsAssumption DEF KeyTypes, TypingTypes, TypingInv, TypingTimed, TypingWillStop
<1> QED BY <1>2, <1>4, <1>5, OutsideStep

LEMMA KeyStepKeeps ==
  ASSUME ComposerInv, NEW c \in Direct, WebKeyDerived(c) \/ MobileKeyDerived(c) \/ KeyNotDerived(c)
  PROVE  ComposerInv'
<1>1. KeyTypes /\ TypingTypes /\ TypingInv /\ DerivesOne /\ platform \in Platforms
  BY DEF ComposerInv, ComposerTypes
<1>2. /\ UNCHANGED <<client, draft, request, history, typing_vars, chat>>
      /\ c \in derives /\ derives' = derives \ {c}
      /\ \/ UNCHANGED <<key, derived>>
         \/ key' = c /\ derived' = (derived \/ c = chat)
  BY DEF WebKeyDerived, MobileKeyDerived, KeyNotDerived
<1>3. Web \/ Mobile
  BY <1>1, PlatformsAssumption DEF Web, Mobile
<1>4. ~(Web /\ Mobile) /\ (Web' <=> Web) /\ (Mobile' <=> Mobile)
  BY <1>2 DEF Web, Mobile, client
<1>5. KeyTypes'
  BY <1>1, <1>2 DEF KeyTypes
<1>6. DerivesOne'
  BY <1>1, <1>2, <1>3, <1>4 DEF KeyTypes, DerivesOne
<1>7. TypingTypes' /\ TypingInv'
  BY <1>1, <1>2, TypingStays
<1> QED BY <1>2, <1>5, <1>6, <1>7, OutsideStep

LEMMA TimersKeep ==
  ASSUME ComposerInv, TypingTimerFires \/ \E c \in Chats : StrayFires(c)
  PROVE  ComposerInv'
<1>1. KeyTypes /\ TypingTypes /\ TypingInv /\ DerivesOne
  BY DEF ComposerInv, ComposerTypes
<1>2. UNCHANGED <<client, key_vars, draft, request, history>>
  BY DEF TypingTimerFires, StrayFires
<1>3. KeyTypes' /\ DerivesOne'
  BY <1>1, <1>2, KeysStay DEF client
<1>4. CASE TypingTimerFires
  <2>1. TypingTypes' /\ TypingInv'
    BY <1>1, <1>4 DEF TypingTimerFires, TypingTypes, TypingInv, TypingTimed, TypingWillStop
  <2> QED BY <1>2, <1>3, <2>1, OutsideStep
<1>5. ASSUME NEW c \in Chats, StrayFires(c) PROVE ComposerInv'
  <2>1. UNCHANGED chat
    BY <1>2 DEF key_vars
  <2>2. TypingTypes' /\ TypingInv'
    BY <1>1, <1>5, <2>1 DEF StrayFires, TypingTypes, TypingInv, TypingTimed, TypingWillStop
  <2> QED BY <1>2, <1>3, <2>2, OutsideStep
<1> QED BY <1>4, <1>5

-----------------------------------------------------------------------------
(* Composer: the draft and its attachment                                  *)

LEMMA ComposerParts ==
  ASSUME ComposerInv
  PROVE  /\ KeyTypes /\ DraftTypes /\ RequestTypes /\ TypingTypes /\ HistoryTypes
         /\ platform \in Platforms /\ uses \in Uses
         /\ TypingInv /\ DerivesOne /\ FilesInv /\ DraftInv /\ MadeInv /\ SentInv
BY DEF ComposerInv, ComposerTypes

LEMMA OnePlatform ==
  ASSUME platform \in Platforms
  PROVE  (Web \/ Mobile) /\ ~(Web /\ Mobile)
BY PlatformsAssumption DEF Web, Mobile

LEMMA TypesKeeps ==
  ASSUME ComposerInv, Types
  PROVE  ComposerInv'
<1> USE ComposerParts
<1>1. /\ chat \in Chats /\ edits < MaxEdits /\ edits' = edits + 1 /\ text' = edits + 1
      /\ announced' = IF isTyping THEN announced ELSE announced \cup {chat}
      /\ isTyping' = TRUE /\ timer' = chat
      /\ late' = IF Busy THEN late \cup {edits + 1} ELSE late
  <2>1. chat \in Chats
    BY DEF Types, KeyTypes
  <2>2. announced' = IF isTyping THEN announced ELSE announced \cup {chat}
    BY DEF Types, Signals
  <2> QED BY <2>1, <2>2 DEF Types
<1>2. /\ UNCHANGED <<client, key_vars, att, uploads, encrypting, sending, latest, submits, fails, posted>>
      /\ UNCHANGED <<strays, abandoned, lost, removed, overlap, doubled>>
  BY DEF Types, request
<1>3. UNCHANGED <<platform, chat>>
  BY <1>2 DEF client, key_vars
<1>4. /\ edits \in Nat /\ edits' \in 1..MaxEdits /\ edits <= edits' /\ MaxEdits \in Nat
      /\ edits' = edits + 1
  BY <1>1, ComposerBound DEF DraftTypes
<1>5. DraftTypes'
  <2>1. text' \in 0..edits' /\ edits' \in 0..MaxEdits
    BY <1>1, <1>4
  <2> QED BY <1>2, <2>1 DEF DraftTypes
<1>6. HistoryTypes'
  <2>1. edits + 1 \in Drafts
    BY <1>4 DEF Drafts
  <2> QED BY <1>1, <1>2, <2>1 DEF HistoryTypes
<1>7. TypingTypes' /\ TypingInv'
  BY <1>1, <1>2, <1>3 DEF TypingTypes, TypingInv, TypingTimed, TypingWillStop
<1>8. Made' = Made /\ Owned' = Owned /\ late \subseteq late'
  BY <1>1, <1>2 DEF Made, Owned
<1>9. FilesInv'
  BY <1>2, <1>3, <1>8, FilesStay
<1>10. DraftInv'
  <2>1. ASSUME NEW p \in Owned PROVE OwnedIs(p)'
    <3>1. text' \in late'
      BY <1>1 DEF Owned, Busy
    <3>2. OwnedIs(p)
      BY DEF DraftInv
    <3> QED BY <1>2, <1>8, <3>1, <3>2 DEF OwnedIs
  <2>2. LostWasLate'
    BY <1>2, <1>8 DEF DraftInv, LostWasLate
  <2> QED BY <1>8, <2>1, <2>2 DEF DraftInv
<1>11. ASSUME NEW p \in Made PROVE FileNamed(p)' /\ (Gone(p) => Gone(p)')
  <2>1. FileNamed(p) /\ Filled(p)
    BY DEF MadeInv
  <2>2. FileNamed(p)'
    BY <1>2, <1>3, <2>1 DEF FileNamed, Web, Mobile
  <2>3. text' # p.draft
    <3>1. p.draft \in Int
      BY ComposerBound, PayloadParts
    <3> QED BY <1>1, <1>4, <2>1, <3>1 DEF Filled
  <2>4. Gone(p) => Gone(p)'
    BY <1>2, <2>3 DEF Gone
  <2> QED BY <2>2, <2>4
<1>12. fails' \in 0..MaxFails
  BY <1>2 DEF RequestTypes
<1> QED BY <1>2, <1>4, <1>5, <1>6, <1>7, <1>9, <1>10, <1>11, <1>12, DraftStep

LEMMA EmptiesKeeps ==
  ASSUME ComposerInv, Empties
  PROVE  ComposerInv'
<1> USE ComposerParts
<1>1. chat \in Chats /\ text' = 0 /\ timer' = chat /\ text # 0
  BY DEF Empties, KeyTypes
<1>2. /\ UNCHANGED <<client, key_vars, att, uploads, encrypting, sending, latest, submits, fails, posted>>
      /\ UNCHANGED <<edits, isTyping, announced, strays, abandoned, late, lost, removed, overlap, doubled>>
  BY DEF Empties, request, history
<1>3. UNCHANGED <<platform, chat>>
  BY <1>2 DEF client, key_vars
<1>4. edits \in Nat /\ edits <= edits'
  BY <1>2, ComposerBound DEF DraftTypes
<1>5. DraftTypes' /\ HistoryTypes'
  BY <1>1, <1>2, <1>4 DEF DraftTypes, HistoryTypes
<1>6. TypingTypes' /\ TypingInv'
  BY <1>1, <1>2, <1>3 DEF TypingTypes, TypingInv, TypingTimed, TypingWillStop
<1>7. Made' = Made /\ Owned' = Owned
  BY <1>2 DEF Made, Owned
<1>8. FilesInv'
  BY <1>2, <1>3, <1>7, FilesStay
<1>9. DraftInv'
  BY <1>1, <1>2, <1>7 DEF DraftInv, OwnedIs, LostWasLate
<1>10. ASSUME NEW p \in Made PROVE FileNamed(p)' /\ (Gone(p) => Gone(p)')
  <2>1. FileNamed(p)
    BY DEF MadeInv
  <2>2. FileNamed(p)'
    BY <1>2, <1>3, <2>1 DEF FileNamed, Web, Mobile
  <2>3. Gone(p) => Gone(p)'
    BY <1>1, <1>2 DEF Gone
  <2> QED BY <2>2, <2>3
<1>11. fails' \in 0..MaxFails
  BY <1>2 DEF RequestTypes
<1> QED BY <1>2, <1>4, <1>5, <1>6, <1>8, <1>9, <1>10, <1>11, DraftStep

\* Steps that change the attachment and its uploads; the draft is as it was.
LEMMA FileStep ==
  ASSUME ComposerInv, HistoryTypes', AttachmentIs', UploadsAre', UploadsUnsent',
         att' \in [file : Files \cup {None}, id : Files \cup {None}, uploading : BOOLEAN],
         uploads' \subseteq Files, late \subseteq late', removed \subseteq removed',
         overlap => overlap', fails' \in 0..MaxFails,
         \A p \in Made : FileNamed(p)', \A p \in Made : Gone(p) => Gone(p)',
         \A p \in Owned : overlap' \/ att'.file \in {None, p.file} \cup late' \cup removed',
         UNCHANGED <<client, key_vars, typing_vars, text, edits>>,
         UNCHANGED <<encrypting, sending, latest, submits, posted, lost, doubled>>
  PROVE  ComposerInv'
<1> USE ComposerParts
<1>1. DraftTypes' /\ edits <= edits'
  BY ComposerBound DEF DraftTypes
<1>2. TypingTypes' /\ TypingInv'
  BY TypingStays DEF key_vars
<1>3. Owned' = Owned
  BY DEF Owned
<1>4. DraftInv'
  <2>1. ASSUME NEW p \in Owned PROVE OwnedIs(p)'
    BY DEF DraftInv, OwnedIs
  <2>2. LostWasLate'
    BY DEF DraftInv, LostWasLate
  <2> QED BY <1>3, <2>1, <2>2 DEF DraftInv
<1> QED BY <1>1, <1>2, <1>4, DraftStep DEF FilesInv

LEMMA NotInMessages ==
  ASSUME NEW f, ~InMessages(f), NEW p \in Made
  PROVE  f # p.file /\ f # p.id
BY DEF InMessages, Made

LEMMA PicksKeeps ==
  ASSUME ComposerInv, NEW f \in Files, Picks(f)
  PROVE  ComposerInv'
<1> USE ComposerParts
<1>1. /\ att' = [file |-> f, id |-> None, uploading |-> TRUE]
      /\ uploads' = uploads \cup {f} /\ overlap' = (overlap \/ uploads # {})
      /\ late' = IF Busy THEN late \cup {f} ELSE late
      /\ f \notin removed /\ ~InMessages(f)
  BY DEF Picks
<1>2. /\ UNCHANGED <<client, key_vars, typing_vars, text, edits>>
      /\ UNCHANGED <<encrypting, sending, latest, submits, posted, lost, doubled, fails, removed>>
  BY DEF Picks, request
<1>3. /\ att'.file = f /\ att'.id = None /\ att'.uploading = TRUE
      /\ att' \in [file : Files \cup {None}, id : Files \cup {None}, uploading : BOOLEAN]
  BY <1>1
<1>4. (Web' <=> Web) /\ (Mobile' <=> Mobile) /\ Made' = Made
  BY <1>2 DEF Web, Mobile, client, Made
<1>5. HistoryTypes' /\ uploads' \subseteq Files
  BY <1>1, <1>2 DEF HistoryTypes, DraftTypes
<1>6. AttachmentIs'
  BY <1>1, <1>2, <1>3 DEF AttachmentIs
<1>7. UploadsAre'
  BY <1>1 DEF UploadsAre
<1>8. UploadsUnsent'
  BY <1>1, <1>4, NotInMessages DEF FilesInv, UploadsUnsent
<1>9. ASSUME NEW p \in Made PROVE FileNamed(p)' /\ (Gone(p) => Gone(p)')
  <2>1. FileNamed(p)'
    BY <1>1, <1>2, <1>4 DEF MadeInv, FileNamed
  <2>2. Gone(p) => Gone(p)'
    BY <1>1, <1>2, <1>3, NotInMessages DEF Gone
  <2> QED BY <2>1, <2>2
<1>10. ASSUME NEW p \in Owned PROVE att'.file \in late'
  BY <1>1, <1>3 DEF Owned, Busy
<1> QED BY <1>1, <1>2, <1>3, <1>5, <1>6, <1>7, <1>8, <1>9, <1>10, FileStep DEF RequestTypes

LEMMA UploadedKeeps ==
  ASSUME ComposerInv, NEW f \in Files, WebUploaded(f) \/ MobileUploaded(f)
  PROVE  ComposerInv'
<1> USE ComposerParts
<1>1. /\ f \in uploads /\ uploads' = uploads \ {f}
      /\ \/ Web /\ att' = [file |-> f, id |-> f, uploading |-> FALSE]
         \/ Mobile /\ att' = WithId(f)
  BY DEF WebUploaded, MobileUploaded
<1>2. /\ UNCHANGED <<client, key_vars, typing_vars, text, edits>>
      /\ UNCHANGED <<encrypting, sending, latest, submits, posted, lost, doubled, fails>>
      /\ UNCHANGED <<removed, late, overlap>>
  BY DEF WebUploaded, MobileUploaded, request, history
<1>3. (Web' <=> Web) /\ (Mobile' <=> Mobile) /\ Made' = Made
  BY <1>2 DEF Web, Mobile, client, Made
<1>4. ~(Web /\ Mobile)
  BY OnePlatform
<1>5. PICK af \in Files \cup {None}, ai \in Files \cup {None}, au \in BOOLEAN :
        att = [file |-> af, id |-> ai, uploading |-> au]
  BY DEF DraftTypes
<1>6. HistoryTypes' /\ uploads' \subseteq Files
  BY <1>1, <1>2 DEF HistoryTypes, DraftTypes
<1>7. /\ ~overlap => uploads = {f}
      /\ ~overlap => \/ att = [file |-> f, id |-> None, uploading |-> TRUE]
                     \/ att = NoAttachment /\ f \in late \cup removed
  BY <1>1 DEF FilesInv, UploadsAre
<1>8. UploadsAre'
  BY <1>1, <1>2, <1>7 DEF UploadsAre
<1>9. UploadsUnsent'
  BY <1>1, <1>2, <1>3 DEF FilesInv, UploadsUnsent
<1>10. ASSUME NEW p \in Made PROVE FileNamed(p)'
  BY <1>2, <1>3 DEF MadeInv, FileNamed
<1>11. fails' \in 0..MaxFails
  BY <1>2 DEF RequestTypes
<1>12. CASE Web
  <2>1. att' = [file |-> f, id |-> f, uploading |-> FALSE]
    BY <1>1, <1>4, <1>12
  <2>2. /\ att'.file = f /\ att'.id = f /\ att'.uploading = FALSE
        /\ att' \in [file : Files \cup {None}, id : Files \cup {None}, uploading : BOOLEAN]
    BY <2>1
  <2>3. AttachmentIs'
    BY <1>1, <1>3, <1>4, <1>12, <2>2, FilesAssumption DEF AttachmentIs
  <2>4. ASSUME NEW p \in Made PROVE Gone(p) => Gone(p)'
    <3>1. f # p.file
      BY <1>1, <1>12 DEF FilesInv, UploadsUnsent
    <3> QED BY <1>2, <2>2, <3>1 DEF Gone
  <2>5. ASSUME NEW p \in Owned PROVE overlap' \/ att'.file \in {None, p.file} \cup late' \cup removed'
    <3>1. CASE overlap
      BY <1>2, <3>1
    <3>2. CASE ~overlap /\ att.file = f
      BY <1>2, <2>2, <3>2 DEF DraftInv, OwnedIs
    <3>3. CASE ~overlap /\ att.file # f
      BY <1>2, <1>7, <2>2, <3>3
    <3> QED BY <3>1, <3>2, <3>3
  <2> QED BY <1>2, <1>6, <1>8, <1>9, <1>10, <1>11, <2>2, <2>3, <2>4, <2>5, FileStep
<1>13. CASE Mobile
  <2>1. att' = WithId(f)
    BY <1>1, <1>4, <1>13
  <2>2. /\ att'.file = att.file
        /\ att' \in [file : Files \cup {None}, id : Files \cup {None}, uploading : BOOLEAN]
    BY <1>5, <2>1 DEF WithId
  <2>3. AttachmentIs'
    <3>1. CASE att = NoAttachment
      BY <1>2, <1>3, <1>4, <1>13, <2>1, <3>1 DEF FilesInv, AttachmentIs, WithId, NoAttachment
    <3>2. CASE att # NoAttachment
      <4>1. att' = [file |-> af, id |-> f, uploading |-> FALSE]
        BY <1>5, <2>1, <3>2 DEF WithId
      <4>2. /\ att'.file = af /\ att'.id = f /\ att'.uploading = FALSE /\ att.file = af
        BY <1>5, <4>1
      <4>3. af \in Files /\ af \notin removed
        BY <1>13, <3>2, <4>2 DEF FilesInv, AttachmentIs
      <4>4. ~overlap => af = f
        BY <1>7, <3>2, <4>2
      <4> QED BY <1>2, <1>3, <1>4, <1>13, <4>2, <4>3, <4>4, FilesAssumption DEF AttachmentIs
    <3> QED BY <3>1, <3>2
  <2>4. ASSUME NEW p \in Made PROVE Gone(p) => Gone(p)'
    BY <1>2, <2>2 DEF Gone
  <2>5. ASSUME NEW p \in Owned PROVE overlap' \/ att'.file \in {None, p.file} \cup late' \cup removed'
    BY <1>2, <2>2 DEF DraftInv, OwnedIs
  <2> QED BY <1>2, <1>6, <1>8, <1>9, <1>10, <1>11, <2>2, <2>3, <2>4, <2>5, FileStep
<1> QED BY <1>12, <1>13, OnePlatform

LEMMA Emptied ==
  /\ NoAttachment.file = None /\ NoAttachment.id = None /\ NoAttachment.uploading = FALSE
  /\ NoAttachment \in [file : Files \cup {None}, id : Files \cup {None}, uploading : BOOLEAN]
BY DEF NoAttachment

LEMMA UploadFailsKeeps ==
  ASSUME ComposerInv, NEW f \in Files, UploadFails(f)
  PROVE  ComposerInv'
<1> USE ComposerParts
<1>1. /\ f \in uploads /\ uploads' = uploads \ {f} /\ att' = NoAttachment
      /\ fails' = fails + 1 /\ fails < MaxFails
  BY DEF UploadFails
<1>2. /\ UNCHANGED <<client, key_vars, typing_vars, text, edits>>
      /\ UNCHANGED <<encrypting, sending, latest, submits, posted, lost, doubled>>
      /\ UNCHANGED <<removed, late, overlap>>
  BY DEF UploadFails, history
<1>3. (Web' <=> Web) /\ (Mobile' <=> Mobile) /\ Made' = Made
  BY <1>2 DEF Web, Mobile, client, Made
<1>4. HistoryTypes' /\ uploads' \subseteq Files
  BY <1>1, <1>2 DEF HistoryTypes, DraftTypes
<1>5. AttachmentIs'
  BY <1>1, <1>2, Emptied, FilesAssumption DEF AttachmentIs, HistoryTypes
<1>6. UploadsAre'
  BY <1>1, <1>2 DEF FilesInv, UploadsAre
<1>7. UploadsUnsent'
  BY <1>1, <1>2, <1>3 DEF FilesInv, UploadsUnsent
<1>8. ASSUME NEW p \in Made PROVE FileNamed(p)' /\ (Gone(p) => Gone(p)')
  <2>1. FileNamed(p)'
    BY <1>2, <1>3 DEF MadeInv, FileNamed
  <2>2. Gone(p) => Gone(p)'
    BY <1>1, <1>2, Emptied DEF Gone
  <2> QED BY <2>1, <2>2
<1>9. fails' \in 0..MaxFails
  BY <1>1, ComposerBound DEF RequestTypes
<1> QED BY <1>1, <1>2, <1>4, <1>5, <1>6, <1>7, <1>8, <1>9, Emptied, FileStep

LEMMA RemovesKeeps ==
  ASSUME ComposerInv, Removes
  PROVE  ComposerInv'
<1> USE ComposerParts
<1>1. /\ att # NoAttachment /\ att' = NoAttachment
      /\ removed' = IF InMessages(att.file) THEN removed ELSE removed \cup {att.file}
  BY DEF Removes
<1>2. /\ UNCHANGED <<client, key_vars, typing_vars, text, edits, uploads, late, overlap, fails>>
      /\ UNCHANGED <<encrypting, sending, latest, submits, posted, lost, doubled>>
  BY DEF Removes, request
<1>3. (Web' <=> Web) /\ (Mobile' <=> Mobile) /\ Made' = Made
  BY <1>2 DEF Web, Mobile, client, Made
<1>4. att.file \in Files
  BY <1>1 DEF FilesInv, AttachmentIs
<1>5. HistoryTypes' /\ uploads' \subseteq Files /\ removed \subseteq removed'
  BY <1>1, <1>2, <1>4 DEF HistoryTypes, DraftTypes
<1>6. AttachmentIs'
  BY <1>1, <1>5, Emptied, FilesAssumption DEF AttachmentIs, HistoryTypes
<1>7. UploadsUnsent'
  BY <1>2, <1>3 DEF FilesInv, UploadsUnsent
<1>8. UploadsAre'
  <2> SUFFICES ASSUME ~overlap, NEW f \in uploads PROVE f \in late \cup removed'
    BY <1>1, <1>2 DEF FilesInv, UploadsAre
  <2>1. CASE att = NoAttachment /\ f \in late \cup removed
    BY <1>1, <2>1
  <2>2. CASE att = [file |-> f, id |-> None, uploading |-> TRUE]
    <3>1. att.file = f
      BY <2>2
    <3>2. ~InMessages(f)
      BY DEF FilesInv, UploadsUnsent, InMessages, Made
    <3> QED BY <1>1, <3>1, <3>2
  <2> QED BY <2>1, <2>2 DEF FilesInv, UploadsAre
<1>9. ASSUME NEW p \in Made PROVE FileNamed(p)' /\ (Gone(p) => Gone(p)')
  <2>1. FileNamed(p)
    BY DEF MadeInv
  <2>2. p.file \notin removed => p.file \notin removed'
    BY <1>1 DEF InMessages, Made
  <2>3. FileNamed(p)'
    BY <1>2, <1>3, <2>1, <2>2 DEF FileNamed
  <2>4. Gone(p) => Gone(p)'
    BY <1>1, <1>2, Emptied DEF Gone
  <2> QED BY <2>3, <2>4
<1>10. fails' \in 0..MaxFails
  BY <1>2 DEF RequestTypes
<1> QED BY <1>1, <1>2, <1>5, <1>6, <1>7, <1>8, <1>9, <1>10, Emptied, FileStep

-----------------------------------------------------------------------------
(* Composer: a chat is opened or left, messages on their way change        *)

\* What becomes of a message that is on its way.
Becomes(p, q) ==
  /\ q.n = p.n /\ q.draft = p.draft /\ q.file = p.file /\ q.id = p.id
  /\ q.key = p.key /\ q.derived = p.derived
  /\ ~q.crossed => ~p.crossed /\ q.to = p.to
  /\ q.own = p.own \/ Gone(q)'

Follow ==
  /\ \A q \in encrypting' : \E p \in encrypting : Becomes(p, q)
  /\ \A q \in sending' : \E p \in sending : Becomes(p, q)
  /\ \A q, r \in encrypting' : q.n = r.n => q = r
  /\ \A q, r \in sending' : q.n = r.n => q = r

LEMMA Origins ==
  ASSUME Follow, UNCHANGED posted, NEW q \in Made'
  PROVE  \E p \in Made : /\ \/ q \in encrypting' /\ p \in encrypting /\ Becomes(p, q)
                            \/ q \in sending' /\ p \in sending /\ Becomes(p, q)
                            \/ q \in posted /\ q \in posted' /\ p = q
                         /\ q.n = p.n /\ q.draft = p.draft /\ q.file = p.file /\ q.id = p.id
                         /\ q.key = p.key /\ q.derived = p.derived
                         /\ ~q.crossed => ~p.crossed /\ q.to = p.to
                         /\ \/ q.own = p.own
                            \/ Gone(q)'
<1>1. CASE q \in encrypting'
  BY <1>1 DEF Follow, Becomes, Made
<1>2. CASE q \in sending'
  BY <1>2 DEF Follow, Becomes, Made
<1>3. CASE q \in posted'
  BY <1>3 DEF Made
<1> QED BY <1>1, <1>2, <1>3 DEF Made

LEMMA FollowKeeps ==
  ASSUME ComposerInv, Follow, UNCHANGED <<platform, posted, submits, doubled, removed, overlap, edits>>,
         latest' \in {0, latest},
         \A p \in Made : Gone(p) => Gone(p)'
  PROVE  MadeInv' /\ SentInv'
<1> USE ComposerParts
<1>1. MadeInv'
  <2> SUFFICES ASSUME NEW q \in Made' PROVE KeyMatches(q)' /\ FileNamed(q)' /\ Filled(q)'
    BY DEF MadeInv
  <2>1. PICK p \in Made : /\ q.draft = p.draft /\ q.file = p.file /\ q.id = p.id
                          /\ q.key = p.key /\ q.derived = p.derived
                          /\ ~q.crossed => ~p.crossed /\ q.to = p.to
    BY Origins
  <2>2. KeyMatches(p) /\ FileNamed(p) /\ Filled(p)
    BY DEF MadeInv
  <2>3. KeyMatches(q)'
    BY <2>1, <2>2 DEF KeyMatches
  <2>4. FileNamed(q)'
    BY <2>1, <2>2 DEF FileNamed, Web, Mobile
  <2>5. Filled(q)'
    BY <2>1, <2>2 DEF Filled
  <2> QED BY <2>3, <2>4, <2>5
<1>2. Numbered'
  <2>1. ASSUME NEW q \in Made', NEW r \in Made', q.n = r.n
        PROVE  /\ q = r
               /\ ~(q \in encrypting' /\ r \in sending')
               /\ ~(q \in encrypting' /\ r \in posted')
               /\ ~(q \in sending' /\ r \in posted')
    <3>1. PICK p \in Made : /\ q.n = p.n
                            /\ \/ q \in encrypting' /\ p \in encrypting
                               \/ q \in sending' /\ p \in sending
                               \/ q \in posted' /\ p \in posted /\ p = q
      BY Origins
    <3>2. PICK s \in Made : /\ r.n = s.n
                            /\ \/ r \in encrypting' /\ s \in encrypting
                               \/ r \in sending' /\ s \in sending
                               \/ r \in posted' /\ s \in posted /\ s = r
      BY Origins
    <3>3. p = s
      BY <2>1, <3>1, <3>2 DEF SentInv, Numbered
    <3>4. q = r
      BY <2>1, <3>1, <3>2, <3>3 DEF SentInv, Numbered, Follow
    <3>5. ASSUME NEW t \in Made'
          PROVE  /\ ~(t \in encrypting' /\ t \in sending') /\ ~(t \in encrypting' /\ t \in posted')
                 /\ ~(t \in sending' /\ t \in posted')
      <4>1. ASSUME t \in encrypting' PROVE \E u \in encrypting : u.n = t.n
        BY <4>1 DEF Follow, Becomes
      <4>2. ASSUME t \in sending' PROVE \E u \in sending : u.n = t.n
        BY <4>2 DEF Follow, Becomes
      <4>3. ASSUME t \in posted' PROVE \E u \in posted : u.n = t.n
        BY <4>3
      <4> QED BY <4>1, <4>2, <4>3 DEF SentInv, Numbered, Made
    <3> QED BY <3>4, <3>5
  <2>2. ASSUME NEW q \in Made' PROVE q.n <= submits'
    <3>1. PICK p \in Made : q.n = p.n
      BY Origins
    <3> QED BY <3>1 DEF SentInv, Numbered
  <2>3. encrypting' \cap sending' = {} /\ encrypting' \cap posted' = {} /\ sending' \cap posted' = {}
    BY <2>1 DEF Made
  <2>4. latest' <= submits' /\ \A q \in encrypting' : q.n # latest'
    <3>1. ASSUME NEW q \in encrypting' PROVE q.n # latest'
      <4>1. PICK p \in encrypting : q.n = p.n
        BY DEF Follow, Becomes
      <4>2. p.n # latest /\ p.n # 0
        BY PayloadParts, ComposerBound DEF SentInv, Numbered, Made
      <4> QED BY <4>1, <4>2
    <3>2. latest' <= submits'
      BY ComposerBound DEF SentInv, Numbered, RequestTypes
    <3> QED BY <3>1, <3>2
  <2> QED BY <2>1, <2>2, <2>3, <2>4 DEF Numbered
<1>3. GoneWhenRetired'
  <2> SUFFICES ASSUME NEW q \in Made', Retired(q)' PROVE Content(q) \in doubled \/ Gone(q)'
    BY DEF GoneWhenRetired, Content
  <2>1. PICK p \in Made : /\ q.draft = p.draft /\ q.file = p.file
                          /\ q \in posted' => p = q /\ p \in posted
                          /\ q.own = p.own \/ Gone(q)'
    <3>1. CASE q \in posted'
      BY <3>1 DEF Made
    <3>2. CASE q \notin posted'
      BY <3>2, Origins
    <3> QED BY <3>1, <3>2
  <2>2. CASE Gone(q)'
    BY <2>2
  <2>3. CASE q.own = p.own
    <3>1. Retired(p)
      BY <2>1, <2>3 DEF Retired
    <3>2. Content(p) \in doubled \/ Gone(p)'
      BY <3>1 DEF SentInv, GoneWhenRetired
    <3> QED BY <2>1, <3>2 DEF Content, Gone
  <2> QED BY <2>1, <2>2, <2>3
<1>4. OnceEach'
  <2> SUFFICES ASSUME NEW q \in Made', NEW r \in Made', q.n # r.n, Content(q) = Content(r)
               PROVE  Content(q) \in doubled
    BY DEF OnceEach, Content
  <2>1. PICK p \in Made : q.n = p.n /\ q.draft = p.draft /\ q.file = p.file
    BY Origins
  <2>2. PICK s \in Made : r.n = s.n /\ r.draft = s.draft /\ r.file = s.file
    BY Origins
  <2> QED BY <2>1, <2>2 DEF SentInv, OnceEach, Content
<1> QED BY <1>1, <1>2, <1>3, <1>4 DEF SentInv

\* A message that is being encrypted, once chat c is open.
Moved(p, c) == IF p.own THEN [p EXCEPT !.to = c, !.crossed = TRUE] ELSE p

LEMMA FollowsParts ==
  ASSUME NEW c \in Chats, NEW p \in Payload
  PROVE  Moved(p, c) \in Payload /\ Becomes(p, Moved(p, c)) /\ Moved(p, c).own = p.own
<1>1. CASE p.own
  <2>1. Moved(p, c) = [p EXCEPT !.to = c, !.crossed = TRUE]
    BY <1>1 DEF Moved
  <2> DEFINE q == [p EXCEPT !.to = c, !.crossed = TRUE]
  <2>2. q \in Payload
    BY DEF Payload
  <2>3. /\ q.n = p.n /\ q.draft = p.draft /\ q.file = p.file /\ q.id = p.id
        /\ q.key = p.key /\ q.derived = p.derived /\ q.crossed = TRUE /\ q.own = p.own
    BY DEF Payload
  <2> QED BY <2>1, <2>2, <2>3 DEF Becomes
<1>2. CASE ~p.own
  BY <1>2 DEF Becomes, Moved
<1> QED BY <1>1, <1>2

LEMMA WebOpensKeeps ==
  ASSUME ComposerInv, NEW c \in Chats, WebOpens(c)
  PROVE  ComposerInv'
<1> USE ComposerParts
<1>1. /\ Web /\ chat' = c /\ derived' = FALSE
      /\ derives' = {c} \cap Direct
      /\ key' = (IF c \in Direct THEN key ELSE None)
      /\ encrypting' = Follows(c)
      /\ abandoned' = (IF chat # None /\ isTyping THEN abandoned \cup {chat} ELSE abandoned)
  BY DEF WebOpens, WebDerives, Cancelled
<1>2. /\ UNCHANGED <<platform, uses, text, edits, att, uploads>>
      /\ UNCHANGED <<sending, latest, submits, fails, posted, isTyping, timer, strays, announced>>
      /\ UNCHANGED <<late, lost, removed, overlap, doubled>>
  BY DEF WebOpens, client, draft, history
<1>3. ASSUME NEW q \in encrypting'
      PROVE  \E p \in encrypting : q \in Payload /\ Becomes(p, q) /\ q.own = p.own
  <2>1. PICK p \in encrypting : q = Moved(p, c)
    BY <1>1 DEF Follows, Moved
  <2>2. p \in Payload
    BY DEF RequestTypes
  <2> QED BY <2>1, <2>2, FollowsParts
<1>4. ASSUME NEW q \in encrypting', NEW r \in encrypting', q.n = r.n PROVE q = r
  <2>1. PICK p \in encrypting : q = Moved(p, c)
    BY <1>1 DEF Follows, Moved
  <2>2. PICK s \in encrypting : r = Moved(s, c)
    BY <1>1 DEF Follows, Moved
  <2>3. p \in Payload /\ s \in Payload
    BY DEF RequestTypes
  <2>4. Becomes(p, q) /\ Becomes(s, r)
    BY <2>1, <2>2, <2>3, FollowsParts
  <2>5. p = s
    BY <1>4, <2>4 DEF SentInv, Numbered, Made, Becomes
  <2> QED BY <2>1, <2>2, <2>5
<1>5. Follow
  <2>1. \A q \in sending' : \E p \in sending : Becomes(p, q)
    BY <1>2 DEF Becomes
  <2>2. \A q, r \in sending' : q.n = r.n => q = r
    BY <1>2 DEF SentInv, Numbered, Made
  <2> QED BY <1>3, <1>4, <2>1, <2>2 DEF Follow
<1>6. MadeInv' /\ SentInv'
  <2>1. \A p \in Made : Gone(p) => Gone(p)'
    BY <1>2 DEF Gone
  <2> QED BY <1>2, <1>5, <2>1, FollowKeeps
<1>7. ComposerTypes'
  <2>1. KeyTypes'
    BY <1>1 DEF KeyTypes
  <2>2. DraftTypes' /\ HistoryTypes'
    BY <1>2 DEF DraftTypes, HistoryTypes
  <2>3. RequestTypes'
    BY <1>2, <1>3 DEF RequestTypes
  <2>4. TypingTypes'
    BY <1>1, <1>2 DEF TypingTypes, KeyTypes
  <2> QED BY <1>2, <2>1, <2>2, <2>3, <2>4 DEF ComposerTypes
<1>8. TypingInv'
  BY <1>1, <1>2, ChatsAssumption DEF TypingInv, TypingTimed, TypingWillStop
<1>9. DerivesOne'
  <2>1. ~Mobile'
    BY <1>1, <1>2 DEF Web, Mobile
  <2> QED BY <1>1, <2>1 DEF DerivesOne
<1>10. FilesInv'
  <2>1. AttachmentIs' /\ UploadsAre'
    BY <1>2 DEF FilesInv, AttachmentIs, UploadsAre, Web, Mobile
  <2>2. UploadsUnsent'
    <3> SUFFICES ASSUME Web \/ ~overlap, NEW f \in uploads, NEW q \in Made' PROVE f \notin {q.file, q.id}
      BY <1>2 DEF UploadsUnsent, Web
    <3>1. PICK p \in Made : q.file = p.file /\ q.id = p.id
      BY <1>2, <1>5, Origins
    <3> QED BY <3>1 DEF FilesInv, UploadsUnsent
  <2> QED BY <2>1, <2>2 DEF FilesInv
<1>11. DraftInv'
  <2>1. ASSUME NEW q \in Owned' PROVE OwnedIs(q)'
    <3>1. \E p \in Owned : q.draft = p.draft /\ q.file = p.file
      BY <1>2, <1>3 DEF Owned, Becomes
    <3> QED BY <1>2, <3>1 DEF DraftInv, OwnedIs
  <2>2. LostWasLate'
    BY <1>2 DEF DraftInv, LostWasLate
  <2> QED BY <2>1, <2>2 DEF DraftInv
<1> QED BY <1>6, <1>7, <1>8, <1>9, <1>10, <1>11 DEF ComposerInv

LEMMA LeavesKeeps ==
  ASSUME ComposerInv, Leaves
  PROVE  ComposerInv'
<1> USE ComposerParts
<1>1. /\ chat # None /\ chat' = None /\ key' = None /\ derives' = {} /\ derived' = FALSE
      /\ text' = 0 /\ att' = NoAttachment /\ uploads' = {}
      /\ encrypting' = {[p EXCEPT !.own = FALSE] : p \in encrypting}
      /\ sending' = {[p EXCEPT !.own = FALSE] : p \in sending}
      /\ latest' = 0
      /\ isTyping' = FALSE /\ timer' = None /\ strays' = StraysLeft
  BY DEF Leaves
<1>2. /\ UNCHANGED <<platform, uses, edits, submits, fails, posted, announced, abandoned>>
      /\ UNCHANGED <<late, lost, removed, overlap, doubled>>
  BY DEF Leaves, client, history
<1>3. ASSUME NEW p \in Made PROVE Gone(p)'
  <2>1. Filled(p)
    BY DEF MadeInv
  <2> QED BY <1>1, <2>1, Emptied DEF Gone, Filled
<1>4. ASSUME NEW p \in Payload, NEW q, q = [p EXCEPT !.own = FALSE]
      PROVE  /\ q \in Payload /\ q.own = FALSE
             /\ q.n = p.n /\ q.draft = p.draft /\ q.file = p.file /\ q.id = p.id
             /\ q.key = p.key /\ q.derived = p.derived /\ q.crossed = p.crossed /\ q.to = p.to
  BY <1>4 DEF Payload
<1>5. encrypting \subseteq Payload /\ sending \subseteq Payload
  BY DEF RequestTypes
<1>6. ASSUME NEW p \in encrypting \cup sending, NEW q, q = [p EXCEPT !.own = FALSE]
      PROVE  Becomes(p, q) /\ q \in Payload /\ q.own = FALSE
  <2>1. /\ q \in Payload /\ q.own = FALSE
        /\ q.n = p.n /\ q.draft = p.draft /\ q.file = p.file /\ q.id = p.id
        /\ q.key = p.key /\ q.derived = p.derived /\ q.crossed = p.crossed /\ q.to = p.to
    BY <1>4, <1>5, <1>6
  <2>2. Gone(q)'
    BY <1>3, <2>1 DEF Gone, Made
  <2> QED BY <2>1, <2>2 DEF Becomes
<1>7. Follow
  <2>1. \A q \in encrypting' : \E p \in encrypting : Becomes(p, q)
    BY <1>1, <1>6
  <2>2. \A q \in sending' : \E p \in sending : Becomes(p, q)
    BY <1>1, <1>6
  <2>3. ASSUME NEW q \in encrypting', NEW r \in encrypting', q.n = r.n PROVE q = r
    <3>1. PICK p \in encrypting : q = [p EXCEPT !.own = FALSE]
      BY <1>1
    <3>2. PICK s \in encrypting : r = [s EXCEPT !.own = FALSE]
      BY <1>1
    <3>3. p.n = s.n
      BY <1>6, <2>3, <3>1, <3>2 DEF Becomes
    <3> QED BY <3>1, <3>2, <3>3 DEF SentInv, Numbered, Made
  <2>4. ASSUME NEW q \in sending', NEW r \in sending', q.n = r.n PROVE q = r
    <3>1. PICK p \in sending : q = [p EXCEPT !.own = FALSE]
      BY <1>1
    <3>2. PICK s \in sending : r = [s EXCEPT !.own = FALSE]
      BY <1>1
    <3>3. p.n = s.n
      BY <1>6, <2>4, <3>1, <3>2 DEF Becomes
    <3> QED BY <3>1, <3>2, <3>3 DEF SentInv, Numbered, Made
  <2> QED BY <2>1, <2>2, <2>3, <2>4 DEF Follow
<1>8. MadeInv' /\ SentInv'
  BY <1>1, <1>2, <1>3, <1>7, FollowKeeps
<1>9. ComposerTypes'
  <2>1. KeyTypes'
    BY <1>1 DEF KeyTypes
  <2>2. DraftTypes'
    BY <1>1, <1>2, Emptied, ComposerBound DEF DraftTypes
  <2>3. RequestTypes'
    <3>1. encrypting' \subseteq Payload /\ sending' \subseteq Payload
      BY <1>1, <1>6
    <3> QED BY <1>1, <1>2, <3>1, ComposerBound DEF RequestTypes
  <2>4. TypingTypes'
    BY <1>1, <1>2 DEF TypingTypes, StraysLeft
  <2>5. HistoryTypes'
    BY <1>2 DEF HistoryTypes
  <2> QED BY <1>2, <2>1, <2>2, <2>3, <2>4, <2>5 DEF ComposerTypes
<1>10. TypingInv'
  BY <1>1, <1>2, ChatsAssumption DEF TypingInv, TypingTimed, TypingWillStop, StraysLeft
<1>11. DerivesOne'
  BY <1>1 DEF DerivesOne
<1>12. FilesInv'
  BY <1>1, <1>2, Emptied, FilesAssumption DEF FilesInv, AttachmentIs, UploadsAre, UploadsUnsent, HistoryTypes
<1>13. DraftInv'
  <2>1. Owned' = {}
    BY <1>1, <1>6 DEF Owned
  <2> QED BY <1>2, <2>1 DEF DraftInv, LostWasLate
<1> QED BY <1>8, <1>9, <1>10, <1>11, <1>12, <1>13 DEF ComposerInv

-----------------------------------------------------------------------------
(* Composer: a message is submitted                                        *)

LEMMA DraftParts ==
  /\ Draft.n = submits + 1 /\ Draft.draft = text
  /\ Draft.file = (IF att.id = None THEN None ELSE att.file) /\ Draft.id = att.id
  /\ Draft.key = (IF chat \in Direct THEN key ELSE None) /\ Draft.to = chat
  /\ Draft.own = TRUE /\ Draft.derived = derived /\ Draft.crossed = FALSE
BY DEF Draft

LEMMA SendsBound ==
  ASSUME ComposerInv, submits < uses.sends
  PROVE  submits < MaxSends
<1>1. submits \in Int /\ uses.sends \in Int /\ uses.sends <= MaxSends
  BY ComposerBounds, ComposerBound, ComposerParts DEF RequestTypes
<1> QED BY <1>1, ComposerBound

\* What is submitted is what the composer says, and fits it.
LEMMA DraftFits ==
  ASSUME ComposerInv, Submitted
  PROVE  /\ Draft \in Payload
         /\ KeyMatches(Draft) /\ FileNamed(Draft) /\ Filled(Draft) /\ OwnedIs(Draft) /\ ~Gone(Draft)
         /\ Web \/ ~overlap => \A f \in uploads : f \notin {Draft.file, Draft.id}
<1> USE ComposerParts
<1>1. chat \in Chats /\ CanSend /\ submits < MaxSends
  BY SendsBound DEF Submitted, KeyTypes
<1>2. PICK af \in Files \cup {None}, ai \in Files \cup {None}, au \in BOOLEAN :
        att = [file |-> af, id |-> ai, uploading |-> au]
  BY DEF DraftTypes
<1>3. att.file = af /\ att.id = ai /\ att.uploading = au /\ au = FALSE
  BY <1>1, <1>2 DEF CanSend
<1>4. /\ ai = None => att = NoAttachment /\ af = None
      /\ ai # None => af \in Files /\ af # None
      /\ Web \/ ~overlap => ai \in {None, af}
      /\ Mobile => af \notin removed
  <2>1. ai = None => att = NoAttachment
    BY <1>3 DEF FilesInv, AttachmentIs
  <2>2. ai # None => att # NoAttachment
    BY <1>3, Emptied
  <2>3. af \in Files => af # None
    BY FilesAssumption
  <2> QED BY <1>3, <2>1, <2>2, <2>3, Emptied DEF FilesInv, AttachmentIs
<1>5. Draft \in Payload
  <2>1. submits + 1 \in 1..MaxSends
    BY <1>1, ComposerBound DEF RequestTypes
  <2>2. text \in 0..MaxEdits
    BY ComposerBound DEF DraftTypes
  <2>3. (IF att.id = None THEN None ELSE att.file) \in Files \cup {None} /\ att.id \in Files \cup {None}
    BY <1>3
  <2>4. (IF chat \in Direct THEN key ELSE None) \in Chats \cup {None}
    BY DirectAssumption DEF KeyTypes
  <2> QED BY <1>1, <2>1, <2>2, <2>3, <2>4 DEF Draft, Payload, KeyTypes
<1>6. KeyMatches(Draft)
  BY DraftParts DEF KeyMatches, DerivesOne
<1>7. FileNamed(Draft)
  <2>1. None \notin removed
    BY FilesAssumption DEF HistoryTypes
  <2> QED BY <1>3, <1>4, <2>1, DraftParts DEF FileNamed
<1>8. Filled(Draft)
  BY <1>1, <1>3, <1>4, DraftParts, ComposerBound DEF Filled, DraftTypes, CanSend
<1>9. OwnedIs(Draft)
  BY <1>3, <1>4, DraftParts DEF OwnedIs
<1>10. ~Gone(Draft)
  BY <1>3, DraftParts DEF Gone
<1>11. ASSUME Web \/ ~overlap, NEW f \in uploads PROVE f \notin {Draft.file, Draft.id}
  <2>1. f # None
    BY FilesAssumption DEF DraftTypes
  <2>2. CASE ai = None
    BY <1>3, <2>1, <2>2, DraftParts
  <2>3. CASE ai # None
    <3>1. ai = af /\ Draft.file = af /\ Draft.id = af
      BY <1>3, <1>4, <1>11, <2>3, DraftParts
    <3>2. f # af
      <4>1. CASE Web
        BY <1>3, <2>3, <3>1, <4>1 DEF FilesInv, AttachmentIs
      <4>2. CASE ~overlap
        <5>1. \/ att = [file |-> f, id |-> None, uploading |-> TRUE]
              \/ att = NoAttachment
          BY <4>2 DEF FilesInv, UploadsAre
        <5>2. att.id = None
          BY <5>1, Emptied
        <5> QED BY <1>3, <2>3, <5>2
      <4> QED BY <1>11, <4>1, <4>2
    <3> QED BY <3>1, <3>2
  <2> QED BY <2>2, <2>3
<1> QED BY <1>5, <1>6, <1>7, <1>8, <1>9, <1>10, <1>11

LEMMA SubmitsKeeps ==
  ASSUME ComposerInv, WebSubmits \/ MobileSubmits
  PROVE  ComposerInv'
<1> USE ComposerParts
<1>1. /\ Submitted
      /\ \/ sending' = sending \cup {Draft} /\ latest' = Draft.n /\ encrypting' = encrypting
         \/ encrypting' = encrypting \cup {Draft} /\ sending' = sending /\ latest' = latest
  BY DEF WebSubmits, MobileSubmits
<1>2. /\ chat \in Chats /\ submits < MaxSends /\ submits' = submits + 1 /\ ~IsPending
      /\ timer' = None /\ isTyping' = FALSE
      /\ announced' = (IF isTyping THEN announced \ {chat} ELSE announced)
      /\ doubled' = IF \E p \in encrypting \cup sending : Overlooked(p) /\ Content(p) = Content(Draft)
                    THEN doubled \cup {Content(Draft)} ELSE doubled
  BY <1>1, SendsBound DEF Submitted, StopsTyping, CanSend, KeyTypes
<1>3. UNCHANGED <<client, key_vars, draft, fails, posted, strays, abandoned, late, lost, removed, overlap>>
  BY <1>1 DEF Submitted
<1>4. /\ UNCHANGED <<platform, uses, chat, key, derives, derived, text, edits, att, uploads>>
      /\ UNCHANGED <<fails, posted, strays, abandoned, late, lost, removed, overlap>>
  BY <1>3 DEF client, key_vars, draft
<1> DEFINE d == Draft
<1>5. /\ d \in Payload /\ KeyMatches(d) /\ FileNamed(d) /\ Filled(d) /\ OwnedIs(d) /\ ~Gone(d)
      /\ Web \/ ~overlap => \A f \in uploads : f \notin {d.file, d.id}
  BY <1>1, DraftFits
<1>6. d.n = submits + 1 /\ d.own = TRUE
  BY DraftParts
<1>7. /\ \/ sending' = sending \cup {d} /\ latest' = d.n /\ encrypting' = encrypting
         \/ encrypting' = encrypting \cup {d} /\ sending' = sending /\ latest' = latest
      /\ doubled' = IF \E p \in encrypting \cup sending : Overlooked(p) /\ Content(p) = Content(d)
                    THEN doubled \cup {Content(d)} ELSE doubled
  BY <1>1, <1>2
<1> HIDE DEF d
<1>8. Made' = Made \cup {d} /\ Owned' = Owned \cup {d}
  BY <1>4, <1>6, <1>7 DEF Made, Owned
<1>9. submits \in Nat /\ submits' \in 1..MaxSends /\ d.n \in 1..MaxSends /\ d.n = submits'
  BY <1>2, <1>6, ComposerBound DEF RequestTypes
<1>10. ASSUME NEW p \in Made PROVE p.n \in Nat /\ p.n <= submits /\ p.n < d.n
  BY <1>6, <1>9, PayloadParts DEF SentInv, Numbered
<1>11. d \notin Made
  BY <1>9, <1>10
<1>12. ComposerTypes'
  <2>1. KeyTypes' /\ DraftTypes'
    BY <1>4 DEF KeyTypes, DraftTypes
  <2>2. RequestTypes'
    BY <1>4, <1>5, <1>7, <1>9 DEF RequestTypes
  <2>3. TypingTypes'
    BY <1>2, <1>4 DEF TypingTypes
  <2>4. Content(d) \in Contents
    BY <1>5 DEF Content, Contents, Payload
  <2>5. HistoryTypes'
    BY <1>4, <1>7, <2>4 DEF HistoryTypes
  <2> QED BY <1>4, <2>1, <2>2, <2>3, <2>5 DEF ComposerTypes
<1>13. TypingInv'
  BY <1>2, <1>4 DEF TypingInv, TypingTimed, TypingWillStop
<1>14. DerivesOne'
  BY <1>3, <1>4, KeysStay
<1>15. FilesInv'
  <2>1. AttachmentIs' /\ UploadsAre'
    BY <1>4 DEF FilesInv, AttachmentIs, UploadsAre, Web, Mobile
  <2>2. UploadsUnsent'
    BY <1>4, <1>5, <1>8 DEF FilesInv, UploadsUnsent, Web
  <2> QED BY <2>1, <2>2 DEF FilesInv
<1>16. DraftInv'
  BY <1>4, <1>5, <1>8 DEF DraftInv, OwnedIs, LostWasLate
<1>17. MadeInv'
  BY <1>4, <1>5, <1>8 DEF MadeInv, KeyMatches, FileNamed, Filled, Web, Mobile
<1>18. Numbered'
  <2>1. \A p, q \in Made' : p.n = q.n => p = q
    BY <1>8, <1>9, <1>10 DEF SentInv, Numbered
  <2>2. encrypting' \cap sending' = {} /\ encrypting' \cap posted' = {} /\ sending' \cap posted' = {}
    BY <1>4, <1>7, <1>11 DEF SentInv, Numbered, Made
  <2>3. \A p \in Made' : p.n <= submits'
    BY <1>8, <1>9, <1>10
  <2>4. latest' <= submits'
    BY <1>2, <1>7, <1>9 DEF SentInv, Numbered, RequestTypes
  <2>5. ASSUME NEW p \in encrypting' PROVE p.n # latest'
    <3>1. CASE latest' = d.n /\ encrypting' = encrypting
      BY <1>9, <1>10, <2>5, <3>1 DEF Made
    <3>2. CASE encrypting' = encrypting \cup {d} /\ latest' = latest
      <4>1. latest <= submits /\ latest \in Int
        BY ComposerBound DEF SentInv, Numbered, RequestTypes
      <4>2. d.n # latest
        BY <1>6, <1>9, <4>1
      <4> QED BY <2>5, <3>2, <4>2 DEF SentInv, Numbered
    <3> QED BY <1>7, <3>1, <3>2
  <2> QED BY <2>1, <2>2, <2>3, <2>4, <2>5 DEF Numbered
<1>19. doubled \subseteq doubled'
  BY <1>7
<1>20. GoneWhenRetired'
  <2> SUFFICES ASSUME NEW p \in Made', Retired(p)' PROVE Content(p) \in doubled' \/ Gone(p)'
    BY DEF GoneWhenRetired, Content
  <2>1. p \in Made /\ Retired(p)
    BY <1>4, <1>6, <1>8, <1>11 DEF Retired, Made
  <2>2. Content(p) \in doubled \/ Gone(p)
    BY <2>1 DEF SentInv, GoneWhenRetired
  <2> QED BY <1>4, <1>19, <2>2 DEF Gone
<1>21. ASSUME NEW p \in Made, Content(p) = Content(d) PROVE Content(p) \in doubled'
  <2>1. p.draft = d.draft /\ p.file = d.file
    BY <1>21 DEF Content
  <2>2. ~Gone(p)
    BY <1>5, <2>1 DEF Gone
  <2>3. CASE Retired(p)
    BY <1>19, <2>2, <2>3 DEF SentInv, GoneWhenRetired
  <2>4. CASE ~Retired(p)
    <3>1. p \in encrypting \cup sending /\ p.own
      BY <2>4 DEF Retired, Made
    <3>2. p.n # latest
      BY <1>2, <3>1 DEF IsPending, SentInv, Numbered
    <3> QED BY <1>7, <1>21, <3>1, <3>2 DEF Overlooked
  <2> QED BY <2>3, <2>4
<1>22. OnceEach'
  <2> SUFFICES ASSUME NEW p \in Made', NEW q \in Made', p.n # q.n, Content(p) = Content(q)
               PROVE  Content(p) \in doubled'
    BY DEF OnceEach, Content
  <2>1. CASE p \in Made /\ q \in Made
    BY <1>19, <2>1 DEF SentInv, OnceEach
  <2>2. CASE p \in Made /\ q = d
    BY <1>21, <2>2
  <2>3. CASE p = d /\ q \in Made
    BY <1>21, <2>3
  <2> QED BY <1>8, <2>1, <2>2, <2>3
<1> QED BY <1>12, <1>13, <1>14, <1>15, <1>16, <1>17, <1>18, <1>20, <1>22 DEF ComposerInv, SentInv

-----------------------------------------------------------------------------
(* Composer: the requests end                                              *)

LEMMA EncryptedKeeps ==
  ASSUME ComposerInv, NEW p \in encrypting, Encrypted(p)
  PROVE  ComposerInv'
<1> USE ComposerParts
<1>1. /\ encrypting' = encrypting \ {p} /\ sending' = sending \cup {p}
      /\ latest' = IF p.own THEN p.n ELSE latest
  BY DEF Encrypted
<1>2. /\ UNCHANGED <<client, key_vars, typing_vars, submits, fails, posted>>
      /\ UNCHANGED <<platform, uses, chat, text, edits, att, uploads>>
      /\ UNCHANGED <<late, lost, removed, overlap, doubled>>
  BY DEF Encrypted, client, draft, history, key_vars
<1>3. Made' = Made /\ Owned' = Owned /\ p \in Made
  BY <1>1, <1>2 DEF Made, Owned
<1>4. p.n \in 1..MaxSends /\ p.n <= submits /\ p \in Payload
  BY <1>3, PayloadParts DEF SentInv, Numbered
<1>5. DraftTypes' /\ HistoryTypes' /\ edits <= edits'
  BY <1>2, ComposerBound DEF DraftTypes, HistoryTypes
<1>6. RequestTypes'
  BY <1>1, <1>2, <1>4, ComposerBound DEF RequestTypes
<1>7. KeyTypes' /\ DerivesOne' /\ TypingTypes' /\ TypingInv'
  BY <1>2, KeysStay, TypingStays
<1>8. ComposerTypes'
  BY <1>2, <1>5, <1>6, <1>7 DEF ComposerTypes
<1>9. FilesInv' /\ MadeInv'
  BY <1>2, <1>3, <1>5, FilesStay, MadeStays
<1>10. DraftInv'
  BY <1>2, <1>3 DEF DraftInv, OwnedIs, LostWasLate
<1>11. Numbered'
  <2>1. encrypting' \cap sending' = {} /\ encrypting' \cap posted' = {} /\ sending' \cap posted' = {}
    BY <1>1, <1>2 DEF SentInv, Numbered
  <2>2. latest' <= submits' /\ \A q \in encrypting' : q.n # latest'
    BY <1>1, <1>2, <1>4 DEF SentInv, Numbered, Made
  <2> QED BY <1>2, <1>3, <2>1, <2>2 DEF SentInv, Numbered
<1>12. GoneWhenRetired' /\ OnceEach'
  BY <1>2, <1>3 DEF SentInv, GoneWhenRetired, Retired, Gone, OnceEach
<1> QED BY <1>7, <1>8, <1>9, <1>10, <1>11, <1>12 DEF ComposerInv, SentInv

LEMMA SendSucceedsKeeps ==
  ASSUME ComposerInv, NEW p \in sending, SendSucceeds(p)
  PROVE  ComposerInv'
<1> USE ComposerParts
<1>1. /\ sending' = sending \ {p} /\ posted' = posted \cup {p}
      /\ p.own => /\ text' = 0 /\ att' = NoAttachment
                  /\ lost' = lost \cup ({text} \ {0, p.draft}) \cup ({att.file} \ {None, p.file})
      /\ ~p.own => UNCHANGED <<text, att, lost>>
  BY DEF SendSucceeds
<1>2. /\ UNCHANGED <<client, key_vars, typing_vars, submits, fails, latest, encrypting>>
      /\ UNCHANGED <<platform, uses, chat, edits, uploads, late, removed, overlap, doubled>>
  BY DEF SendSucceeds, client, key_vars
<1>3. Made' = Made /\ Owned' \subseteq Owned /\ p \in Made
  BY <1>1, <1>2 DEF Made, Owned
<1>4. p.own \in BOOLEAN /\ p \in Payload
  BY <1>3, PayloadParts
<1>5. ASSUME p.own PROVE OwnedIs(p)
  BY <1>5 DEF DraftInv, Owned
<1>6. DraftTypes' /\ edits <= edits'
  BY <1>1, <1>2, <1>4, Emptied, ComposerBound DEF DraftTypes
<1>7. HistoryTypes'
  <2>1. {text} \ {0, p.draft} \subseteq Drafts
    BY ComposerBound DEF DraftTypes, Drafts
  <2>2. {att.file} \ {None, p.file} \subseteq Files
    BY DEF DraftTypes
  <2>3. lost' \subseteq Drafts \cup Files
    BY <1>1, <1>4, <2>1, <2>2 DEF HistoryTypes
  <2> QED BY <1>2, <2>3 DEF HistoryTypes
<1>8. RequestTypes'
  BY <1>1, <1>2, <1>4 DEF RequestTypes
<1>9. KeyTypes' /\ DerivesOne' /\ TypingTypes' /\ TypingInv'
  BY <1>2, KeysStay, TypingStays
<1>10. ComposerTypes'
  BY <1>2, <1>6, <1>7, <1>8, <1>9 DEF ComposerTypes
<1>11. MadeInv'
  BY <1>2, <1>3, <1>6, MadeStays
<1>12. Numbered'
  <2>1. encrypting' \cap sending' = {} /\ encrypting' \cap posted' = {} /\ sending' \cap posted' = {}
    BY <1>1, <1>2 DEF SentInv, Numbered
  <2> QED BY <1>2, <1>3, <2>1 DEF SentInv, Numbered
<1>13. OnceEach'
  BY <1>2, <1>3 DEF SentInv, OnceEach
<1>14. CASE ~p.own
  <2>1. UNCHANGED <<text, att, lost>>
    BY <1>1, <1>14
  <2>2. FilesInv'
    BY <1>2, <1>3, <2>1, FilesStay
  <2>3. DraftInv'
    BY <1>2, <1>3, <2>1 DEF DraftInv, OwnedIs, LostWasLate
  <2>4. ASSUME NEW q \in Made, Retired(q)' PROVE Retired(q)
    BY <1>1, <1>14, <2>4 DEF Retired
  <2>5. GoneWhenRetired'
    BY <1>2, <1>3, <2>1, <2>4 DEF SentInv, GoneWhenRetired, Gone
  <2> QED BY <1>9, <1>10, <1>11, <1>12, <1>13, <2>2, <2>3, <2>5 DEF ComposerInv, SentInv
<1>15. CASE p.own
  <2>1. /\ text' = 0 /\ att' = NoAttachment
        /\ lost' = lost \cup ({text} \ {0, p.draft}) \cup ({att.file} \ {None, p.file})
    BY <1>1, <1>15
  <2>2. AttachmentIs'
    BY <2>1, <1>2, Emptied, FilesAssumption DEF AttachmentIs, HistoryTypes
  <2>3. UploadsUnsent'
    BY <1>2, <1>3 DEF FilesInv, UploadsUnsent, Web
  <2>4. UploadsAre'
    <3> SUFFICES ASSUME ~overlap, NEW f \in uploads PROVE f \in late \cup removed
      BY <1>2, <2>1 DEF FilesInv, UploadsAre
    <3>1. CASE att = NoAttachment /\ f \in late \cup removed
      BY <3>1
    <3>2. CASE att = [file |-> f, id |-> None, uploading |-> TRUE]
      <4>1. att.file = f /\ f # None
        BY <3>2, FilesAssumption DEF DraftTypes
      <4>2. f # p.file
        BY <1>3 DEF FilesInv, UploadsUnsent
      <4> QED BY <1>5, <1>15, <4>1, <4>2 DEF OwnedIs
    <3> QED BY <3>1, <3>2 DEF FilesInv, UploadsAre
  <2>5. DraftInv'
    <3>1. ASSUME NEW q \in Owned' PROVE OwnedIs(q)'
      BY <2>1, Emptied DEF OwnedIs
    <3>2. {text} \ {0, p.draft} \subseteq late
      BY <1>5, <1>15 DEF OwnedIs
    <3>3. {att.file} \ {None, p.file} \subseteq late \cup removed \cup (IF overlap THEN Files ELSE {})
      BY <1>5, <1>15 DEF OwnedIs, DraftTypes
    <3>4. LostWasLate'
      BY <1>2, <2>1, <3>2, <3>3 DEF DraftInv, LostWasLate
    <3> QED BY <3>1, <3>4 DEF DraftInv
  <2>6. ASSUME NEW q \in Made PROVE Gone(q)'
    <3>1. Filled(q)
      BY DEF MadeInv
    <3> QED BY <2>1, <3>1, Emptied DEF Gone, Filled
  <2>7. GoneWhenRetired'
    BY <1>3, <2>6 DEF GoneWhenRetired
  <2> QED BY <1>9, <1>10, <1>11, <1>12, <1>13, <2>2, <2>3, <2>4, <2>5, <2>7 DEF ComposerInv, SentInv, FilesInv
<1> QED BY <1>4, <1>14, <1>15

LEMMA SendFailsKeeps ==
  ASSUME ComposerInv, NEW p \in sending, NEW arrived \in BOOLEAN, SendFails(p, arrived)
  PROVE  ComposerInv'
<1> USE ComposerParts
<1>1. /\ sending' = sending \ {p} /\ fails' = fails + 1 /\ fails < MaxFails
      /\ posted' = (IF arrived THEN posted \cup {p} ELSE posted)
      /\ doubled' = (IF arrived THEN doubled \cup {Content(p)} ELSE doubled)
  BY DEF SendFails
<1>2. /\ UNCHANGED <<client, key_vars, typing_vars, submits, latest, encrypting>>
      /\ UNCHANGED <<platform, uses, chat, text, edits, att, uploads, late, lost, removed, overlap>>
  BY DEF SendFails, client, key_vars, draft
<1>3. Made' \subseteq Made /\ Owned' \subseteq Owned /\ p \in Made /\ doubled \subseteq doubled'
  BY <1>1, <1>2 DEF Made, Owned
<1>4. p \in Payload
  BY <1>3, PayloadParts
<1>5. DraftTypes' /\ edits <= edits'
  BY <1>2, ComposerBound DEF DraftTypes
<1>6. HistoryTypes'
  <2>1. Content(p) \in Contents
    BY <1>4 DEF Content, Contents, Payload
  <2> QED BY <1>1, <1>2, <2>1 DEF HistoryTypes
<1>7. RequestTypes'
  BY <1>1, <1>2, <1>4, ComposerBound DEF RequestTypes
<1>8. KeyTypes' /\ DerivesOne' /\ TypingTypes' /\ TypingInv'
  BY <1>2, KeysStay, TypingStays
<1>9. ComposerTypes'
  BY <1>2, <1>5, <1>6, <1>7, <1>8 DEF ComposerTypes
<1>10. FilesInv'
  <2>1. AttachmentIs' /\ UploadsAre'
    BY <1>2 DEF FilesInv, AttachmentIs, UploadsAre, Web, Mobile
  <2>2. UploadsUnsent'
    BY <1>2, <1>3 DEF FilesInv, UploadsUnsent, Web
  <2> QED BY <2>1, <2>2 DEF FilesInv
<1>11. MadeInv'
  BY <1>2, <1>3 DEF MadeInv, KeyMatches, FileNamed, Filled, Web, Mobile
<1>12. DraftInv'
  BY <1>2, <1>3 DEF DraftInv, OwnedIs, LostWasLate
<1>13. Numbered'
  <2>1. encrypting' \cap sending' = {} /\ encrypting' \cap posted' = {} /\ sending' \cap posted' = {}
    BY <1>1, <1>2 DEF SentInv, Numbered
  <2> QED BY <1>2, <1>3, <2>1 DEF SentInv, Numbered
<1>14. GoneWhenRetired'
  <2> SUFFICES ASSUME NEW q \in Made', Retired(q)' PROVE Content(q) \in doubled' \/ Gone(q)'
    BY DEF GoneWhenRetired, Content
  <2>1. CASE q = p /\ arrived
    BY <1>1, <2>1
  <2>2. CASE ~(q = p /\ arrived)
    <3>1. Retired(q)
      BY <1>1, <2>2 DEF Retired
    <3>2. Content(q) \in doubled \/ Gone(q)
      BY <1>3, <3>1 DEF SentInv, GoneWhenRetired
    <3> QED BY <1>2, <1>3, <3>2 DEF Gone
  <2> QED BY <2>1, <2>2
<1>15. OnceEach'
  BY <1>3 DEF SentInv, OnceEach, Content
<1> QED BY <1>8, <1>9, <1>10, <1>11, <1>12, <1>13, <1>14, <1>15 DEF ComposerInv, SentInv

-----------------------------------------------------------------------------
(* Composer: the theorems                                                  *)

LEMMA ComposerNextKeeps == ComposerInv /\ [ComposerNext]_composer_vars => ComposerInv'
<1> SUFFICES ASSUME ComposerInv, [ComposerNext]_composer_vars PROVE ComposerInv'
  OBVIOUS
<1>1. ASSUME NEW c \in Chats, WebOpens(c) PROVE ComposerInv'
  BY <1>1, WebOpensKeeps
<1>2. ASSUME NEW c \in Chats, MobileOpens(c) PROVE ComposerInv'
  BY <1>2, MobileOpensKeeps
<1>3. CASE Leaves
  BY <1>3, LeavesKeeps
<1>4. ASSUME NEW c \in Direct, WebKeyDerived(c) \/ MobileKeyDerived(c) \/ KeyNotDerived(c) PROVE ComposerInv'
  BY <1>4, KeyStepKeeps
<1>5. CASE Types \/ Empties
  BY <1>5, TypesKeeps, EmptiesKeeps
<1>6. CASE TypingTimerFires \/ \E c \in Chats : StrayFires(c)
  BY <1>6, TimersKeep
<1>7. ASSUME NEW f \in Files, Picks(f) \/ WebUploaded(f) \/ MobileUploaded(f) \/ UploadFails(f)
      PROVE  ComposerInv'
  BY <1>7, PicksKeeps, UploadedKeeps, UploadFailsKeeps
<1>8. CASE Removes
  BY <1>8, RemovesKeeps
<1>9. CASE WebSubmits \/ MobileSubmits
  BY <1>9, SubmitsKeeps
<1>10. ASSUME NEW p \in encrypting, Encrypted(p) PROVE ComposerInv'
  BY <1>10, EncryptedKeeps
<1>11. ASSUME NEW p \in sending, SendSucceeds(p) PROVE ComposerInv'
  BY <1>11, SendSucceedsKeeps
<1>12. ASSUME NEW p \in sending, NEW arrived \in BOOLEAN, SendFails(p, arrived) PROVE ComposerInv'
  BY <1>12, SendFailsKeeps
<1>13. CASE UNCHANGED composer_vars
  BY <1>13, OutsideStep, KeysStay, TypingStays, ComposerParts DEF composer_vars, client, key_vars
<1>14. CASE ComposerNext
  BY <1>1, <1>2, <1>3, <1>4, <1>5, <1>6, <1>7, <1>8, <1>9, <1>10, <1>11, <1>12, <1>14 DEF ComposerNext
<1> QED BY <1>13, <1>14

\* The invariant holds of every run of the composer.
THEOREM ComposerInvariance == ComposerSpec => []ComposerInv
BY InitComposerInv, ComposerNextKeeps, PTL DEF ComposerSpec

LEMMA TypesAreRight ==
  ASSUME ComposerInv
  PROVE  ComposerTypeOK
<1> USE ComposerParts
<1>1. text \in 0..MaxEdits
  BY ComposerBound DEF DraftTypes
<1> QED BY <1>1 DEF ComposerTypeOK, KeyTypes, DraftTypes, RequestTypes, TypingTypes, HistoryTypes

\* What is posted fits its chat, its key and its attachment (handleSubmit of
\* ChatsPage.tsx and ChatScreen.tsx).
THEOREM PayloadsFit == ComposerSpec => []PayloadFits
<1>1. ComposerInv => PayloadFits
  <2> SUFFICES ASSUME ComposerInv PROVE PayloadFits
    OBVIOUS
  <2> USE ComposerParts
  <2>1. KeyFits
    BY DEF KeyFits, DerivesOne, MadeInv, KeyMatches, Made
  <2>2. AttachmentFits
    BY DEF AttachmentFits, MadeInv, FileNamed, Made
  <2> QED BY <2>1, <2>2, TypesAreRight DEF PayloadFits
<1> QED BY <1>1, ComposerInvariance, PTL

\* A draft stays until it is sent and is sent once, but for the cases named
\* there (onSuccess, isPending).
THEOREM DraftsAreSentOnce == ComposerSpec => []DraftsSentOnce
<1>1. ComposerInv => DraftsSentOnce
  <2> SUFFICES ASSUME ComposerInv PROVE DraftsSentOnce
    OBVIOUS
  <2> USE ComposerParts
  <2>1. ASSUME NEW p \in posted, NEW q \in posted, p # q, Content(p) = Content(q) PROVE Content(p) \in doubled
    BY <2>1 DEF SentInv, Numbered, OnceEach, Made
  <2> QED BY <2>1 DEF DraftsSentOnce, DraftInv, LostWasLate
<1> QED BY <1>1, ComposerInvariance, PTL

\* Whoever was told that the user types will be told that it stopped, unless
\* the chat was switched meanwhile (handleTyping and its timer).
THEOREM TypingStops == ComposerSpec => []TypingWillStop
<1>1. ComposerInv => TypingWillStop
  BY DEF ComposerInv, TypingInv
<1> QED BY <1>1, ComposerInvariance, PTL
=============================================================================
