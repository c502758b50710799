---------------------------- MODULE ClientProofs ----------------------------
(***************************************************************************)
(* Proofs about what a client keeps from one page to the next: WsClient,   *)
(* for any sockets and any bounds, and Onboarding, for any users, keys and *)
(* forms.                                                                  *)
(*                                                                         *)
(* Each property rests on a fact about what is under way.  TokensMatchUser *)
(* needs to know whose token a refresh in flight carries, FreshHandshakes  *)
(* that a continuation told of a token still finds it fresh, TimerWanted   *)
(* that a client that wants to reconnect has its page, and                 *)
(* UncontendedOneSocket that while open() awaits a token there is no       *)
(* socket, and while a socket reports its close there is no other.         *)
(* KeyMatchesDevice speaks of a session, but what makes it true happens    *)
(* before there is one: a form that has a key to present has found it      *)
(* first in the store or has put it there (Presented), and until the form  *)
(* ends nothing is stored before it if no other form is under way (Alone). *)
(***************************************************************************)
EXTENDS WsClient, Onboarding, FiniteSetTheorems, TLAPS

ClientType ==
  [ws : Sockets \cup {None}, should : BOOLEAN, connecting : BOOLEAN, timer : BOOLEAN,
   opens : 0..Cardinality(Sockets), sock : [Sockets -> SocketStates]]

StoreType ==
  [access : {"none", "fresh", "stale"}, refresh : 0..MaxLogins, user : 0..MaxLogins,
   initialized : BOOLEAN]

\* A form that was sent counts as a login already.
FormCounted == form = "sent" => logins < MaxLogins

\* A client that wants to be connected, or will reconnect, has its page.
PageWants == (client.should => mounted) /\ (client.timer => client.should)

\* A refresh under way posted the token of the user who is logged in.
InflightMatches == ~crossed /\ inflight # 0 => inflight = store.refresh

\* What a continuation is about to be told is still so.
AnswerFresh == answer = "token" => store.access = "fresh"

\* While a socket is closing there is no live one, and while open() awaits a
\* token there is no socket at all, nor a second open().
OneSocket(c) ==
  /\ Live(c) \subseteq {c.ws}
  /\ (\E s \in Sockets : c.sock[s] = "closing") => Live(c) = {}
  /\ c.opens > 0 => /\ c.opens = 1 /\ c.should /\ c.connecting
                    /\ \A s \in Sockets : c.sock[s] = "free"

OneAtATime == ~overlapped => OneSocket(client)

IInv == /\ TypeOK /\ FormCounted /\ PageWants /\ AnswerFresh
        /\ TokensMatchUser /\ InflightMatches /\ OneAtATime

-----------------------------------------------------------------------------
(* What the operations of wsClient do                                      *)

\* There are at most as many free sockets as sockets.
LEMMA Frees ==
  ASSUME NEW c \in ClientType
  PROVE  Cardinality(Free(c)) \in Nat /\ Cardinality(Free(c)) <= Cardinality(Sockets)
         /\ Cardinality(Sockets) \in Nat
<1>1. Free(c) \subseteq Sockets
  BY DEF Free
<1> QED BY <1>1, FS_Subset, FS_CardinalityType, SocketsAssumption

\* close() marks one live socket.
LEMMA CloseDoes ==
  ASSUME NEW c \in ClientType, NEW s \in Live(c)
  PROVE  Close(c, s) = [c EXCEPT !.sock = [c.sock EXCEPT ![s] = "closing"]]
         /\ Close(c, s) \in ClientType
<1> DEFINE f == [c.sock EXCEPT ![s] = "closing"]
<1>1. f \in [Sockets -> SocketStates]
  BY DEF ClientType, SocketStates, Live
<1>2. Close(c, s) = [c EXCEPT !.sock = f]
  BY DEF Close, ClientType
<1> QED BY <1>1, <1>2 DEF ClientType

\* disconnect() closes this.ws and no other socket.
LEMMA DisconnectDoes ==
  ASSUME NEW c \in ClientType
  PROVE  /\ Disconnect(c) \in ClientType
         /\ ~Disconnect(c).should /\ ~Disconnect(c).timer /\ Disconnect(c).ws = None
         /\ Disconnect(c).opens = c.opens /\ Disconnect(c).connecting = c.connecting
         /\ \A s \in Sockets : Disconnect(c).sock[s] =
              IF s = c.ws /\ s \in Live(c) THEN "closing" ELSE c.sock[s]
<1>1. CASE c.ws \in Live(c)
  <2>1. Close(c, c.ws) \in ClientType /\ c.sock \in [Sockets -> SocketStates]
        /\ Close(c, c.ws) = [c EXCEPT !.sock = [c.sock EXCEPT ![c.ws] = "closing"]]
    BY <1>1, CloseDoes DEF ClientType
  <2> QED BY <1>1, <2>1 DEF Disconnect, ClientType
<1>2. CASE c.ws \notin Live(c)
  BY <1>2 DEF Disconnect, Close, ClientType
<1> QED BY <1>1, <1>2

\* new WebSocket() makes one free socket the client's.
LEMMA CreatesDoes ==
  ASSUME NEW c \in ClientType, NEW s \in Free(c)
  PROVE  /\ Creates(c, s) \in ClientType
         /\ Creates(c, s) = [c EXCEPT !.ws = s, !.sock = [c.sock EXCEPT ![s] = "connecting"]]
BY DEF Creates, Free, ClientType, SocketStates

\* The outcomes of connect(): it has a connection or gives up, or it opens a
\* socket with a fresh token, or it awaits a refresh.
LEMMA ConnectDoes ==
  ASSUME NEW c \in ClientType, NEW d \in Connect(c)
  PROVE  /\ d \in ClientType /\ d.should /\ d.timer = c.timer
         /\ \/ /\ d.ws = c.ws /\ d.sock = c.sock /\ d.opens = c.opens
               /\ c.connecting => d.connecting
            \/ /\ ~c.connecting /\ c.ws \notin Live(c) /\ Fresh /\ d.opens = c.opens
               /\ \E s \in Free(c) : d.ws = s /\ d.sock = [c.sock EXCEPT ![s] = "connecting"]
            \/ /\ ~c.connecting /\ c.ws \notin Live(c) /\ d.opens = c.opens + 1
               /\ d.ws = c.ws /\ d.sock = c.sock /\ d.connecting
<1> DEFINE w == [c EXCEPT !.should = TRUE]
           v == [w EXCEPT !.connecting = TRUE]
<1>1. w \in ClientType /\ v \in ClientType
  BY DEF ClientType
<1>2. CASE Busy(c)
  BY <1>1, <1>2 DEF Connect, ClientType
<1>3. CASE ~Busy(c)
  <2>1. d \in Open(w)
    BY <1>3 DEF Connect
  <2>2. CASE ~Fresh /\ store.refresh = 0
    <3>1. d = [w EXCEPT !.connecting = FALSE]
      BY <2>1, <2>2 DEF Open
    <3> QED BY <1>3, <3>1 DEF ClientType, Busy
  <2>3. CASE ~(~Fresh /\ store.refresh = 0) /\ Room(w) /\ Fresh
    <3>1. PICK s \in Free(w) : d = Creates(v, s)
      BY <2>1, <2>3 DEF Open
    <3>2. s \in Free(v) /\ s \in Free(c)
      BY <3>1 DEF Free, ClientType
    <3>3. d \in ClientType /\ d = [v EXCEPT !.ws = s, !.sock = [v.sock EXCEPT ![s] = "connecting"]]
      BY <1>1, <3>1, <3>2, CreatesDoes
    <3> QED BY <1>1, <1>3, <2>3, <3>2, <3>3 DEF ClientType, Busy
  <2>4. CASE ~(~Fresh /\ store.refresh = 0) /\ Room(w) /\ ~Fresh
    <3>1. d = [w EXCEPT !.connecting = TRUE, !.opens = w.opens + 1]
      BY <2>1, <2>4 DEF Open
    <3>2. w.opens + 1 \in 0..Cardinality(Sockets)
      BY <1>1, <2>4, Frees DEF Room, ClientType
    <3> QED BY <1>1, <1>3, <3>1, <3>2 DEF ClientType, Busy
  <2>5. CASE ~(~Fresh /\ store.refresh = 0) /\ ~Room(w)
    BY <2>1, <2>5 DEF Open
  <2> QED BY <2>2, <2>3, <2>4, <2>5
<1> QED BY <1>2, <1>3

\* onclose frees one socket.
LEMMA AfterCloseFrees ==
  ASSUME NEW c \in ClientType, NEW s \in Sockets
  PROVE  /\ AfterClose(c, s) \in ClientType /\ AfterClose(c, s).ws = None
         /\ AfterClose(c, s).opens = c.opens
         /\ AfterClose(c, s).should = c.should /\ AfterClose(c, s).timer = c.timer
         /\ AfterClose(c, s).sock = [c.sock EXCEPT ![s] = "free"]
<1> DEFINE f == [c.sock EXCEPT ![s] = "free"]
<1>1. f \in [Sockets -> SocketStates]
  BY DEF ClientType, SocketStates
<1>2. AfterClose(c, s) = [c EXCEPT !.sock = f, !.ws = None, !.connecting = FALSE]
  BY DEF AfterClose, ClientType
<1> QED BY <1>1, <1>2 DEF ClientType

\* The end of a socket frees it, and may close the one that is this.ws.
LEMMA SocketEnds ==
  ASSUME NEW c \in ClientType, NEW s \in Sockets, NEW failed \in BOOLEAN,
         NEW d, d = AfterClose(IF failed THEN Errs(c, s) ELSE c, s)
  PROVE  /\ d \in ClientType /\ d.ws = None /\ d.opens = c.opens
         /\ d.should = c.should /\ d.timer = c.timer
         /\ d.sock[s] = "free"
         /\ \A t \in Sockets \ {s} : \/ d.sock[t] = c.sock[t]
                                     \/ t \in Live(c) /\ t = c.ws /\ d.sock[t] = "closing"
<1>1. CASE failed /\ c.ws # s /\ c.ws \in Live(c)
  <2>1. PICK e : e = Close(c, c.ws)
    OBVIOUS
  <2>2. d = AfterClose(e, s)
    BY <1>1, <2>1 DEF Errs
  <2>3. /\ e \in ClientType /\ e = [c EXCEPT !.sock = [c.sock EXCEPT ![c.ws] = "closing"]]
        /\ c.sock \in [Sockets -> SocketStates]
    BY <1>1, <2>1, CloseDoes DEF ClientType
  <2>4. /\ e.opens = c.opens /\ e.should = c.should /\ e.timer = c.timer
        /\ e.sock = [c.sock EXCEPT ![c.ws] = "closing"]
    BY <2>3 DEF ClientType
  <2>5. /\ d \in ClientType /\ d.ws = None /\ d.opens = e.opens
        /\ d.should = e.should /\ d.timer = e.timer
        /\ d.sock = [e.sock EXCEPT ![s] = "free"]
    <3>1. e \in ClientType
      BY <2>3
    <3> QED BY <2>2, <3>1, AfterCloseFrees
  <2>6. \A t \in Sockets : e.sock[t] = IF t = c.ws THEN "closing" ELSE c.sock[t]
    BY <2>3, <2>4
  <2>7. e.sock \in [Sockets -> SocketStates]
    BY <2>3 DEF ClientType
  <2> QED BY <1>1, <2>4, <2>5, <2>6, <2>7
<1>2. CASE ~(failed /\ c.ws # s /\ c.ws \in Live(c))
  <2>1. d = AfterClose(c, s)
    BY <1>2 DEF Errs, Close
  <2>2. d.sock = [c.sock EXCEPT ![s] = "free"] /\ c.sock \in [Sockets -> SocketStates]
    BY <2>1, AfterCloseFrees DEF ClientType
  <2> QED BY <2>1, <2>2, AfterCloseFrees
<1> QED BY <1>1, <1>2

\* scheduleReconnect only sets the timer, and only of a client that wants it.
LEMMA ScheduledDoes ==
  ASSUME NEW c \in ClientType
  PROVE  /\ Scheduled(c) \in ClientType
         /\ Scheduled(c).ws = c.ws /\ Scheduled(c).opens = c.opens
         /\ Scheduled(c).sock = c.sock /\ Scheduled(c).connecting = c.connecting
         /\ Scheduled(c).should = c.should
         /\ Scheduled(c).timer => c.timer \/ c.should
BY DEF Scheduled, ClientType

-----------------------------------------------------------------------------
(* How they keep one socket at a time                                      *)

\* A creation adds one live socket.
LEMMA CreationLives ==
  ASSUME NEW c \in ClientType, NEW d \in ClientType, NEW s \in Free(c),
         d.sock = [c.sock EXCEPT ![s] = "connecting"]
  PROVE  Live(d) = Live(c) \cup {s} /\ s \notin Live(c)
         /\ \A t \in Sockets : d.sock[t] = "closing" <=> c.sock[t] = "closing"
<1>1. c.sock \in [Sockets -> SocketStates] /\ s \in Sockets /\ c.sock[s] = "free"
  BY DEF ClientType, Free
<1>2. \A t \in Sockets : d.sock[t] = IF t = s THEN "connecting" ELSE c.sock[t]
  BY <1>1
<1> QED BY <1>1, <1>2 DEF Live

LEMMA ConnectKeepsOne ==
  ASSUME NEW c \in ClientType, OneSocket(c), NEW d \in Connect(c),
         (\E s \in Sockets : d.sock[s] = "closing") => d.opens = c.opens /\ Live(d) \subseteq Live(c)
  PROVE  OneSocket(d)
<1>1. /\ d \in ClientType /\ d.should
      /\ \/ /\ d.ws = c.ws /\ d.sock = c.sock /\ d.opens = c.opens
            /\ c.connecting => d.connecting
         \/ /\ ~c.connecting /\ c.ws \notin Live(c) /\ d.opens = c.opens
            /\ \E s \in Free(c) : d.ws = s /\ d.sock = [c.sock EXCEPT ![s] = "connecting"]
         \/ /\ ~c.connecting /\ c.ws \notin Live(c) /\ d.opens = c.opens + 1
            /\ d.ws = c.ws /\ d.sock = c.sock /\ d.connecting
  BY ConnectDoes
<1>2. c.opens \in Nat /\ c.sock \in [Sockets -> SocketStates]
  BY Frees DEF ClientType
<1>3. CASE d.ws = c.ws /\ d.sock = c.sock /\ d.opens = c.opens /\ (c.connecting => d.connecting)
  BY <1>1, <1>3 DEF OneSocket, Live
<1>4. ASSUME ~c.connecting, c.ws \notin Live(c), d.opens = c.opens,
             NEW s \in Free(c), d.ws = s, d.sock = [c.sock EXCEPT ![s] = "connecting"]
      PROVE  OneSocket(d)
  <2>1. /\ Live(d) = Live(c) \cup {s} /\ s \notin Live(c)
        /\ \A t \in Sockets : d.sock[t] = "closing" <=> c.sock[t] = "closing"
    BY <1>1, <1>4, CreationLives
  <2>2. Live(c) = {} /\ ~(c.opens > 0)
    BY <1>4 DEF OneSocket
  <2>3. ~\E t \in Sockets : d.sock[t] = "closing"
    BY <2>1, <2>2
  <2> QED BY <1>4, <2>1, <2>2, <2>3 DEF OneSocket
<1>5. CASE ~c.connecting /\ c.ws \notin Live(c) /\ d.opens = c.opens + 1 /\ d.ws = c.ws
           /\ d.sock = c.sock /\ d.connecting
  <2>1. Live(c) = {} /\ c.opens = 0 /\ Live(d) = {}
    BY <1>2, <1>5 DEF OneSocket, Live
  <2>2. \A s \in Sockets : c.sock[s] # "closing"
    BY <1>2, <1>5
  <2>3. \A s \in Sockets : c.sock[s] = "free"
    BY <1>2, <2>1, <2>2 DEF Live, SocketStates
  <2> QED BY <1>1, <1>5, <2>1, <2>3 DEF OneSocket
<1> QED BY <1>1, <1>3, <1>4, <1>5

LEMMA DisconnectKeepsOne ==
  ASSUME NEW c \in ClientType, OneSocket(c), ~(c.should /\ c.opens > 0)
  PROVE  OneSocket(Disconnect(c))
<1>1. PICK d : d = Disconnect(c)
  OBVIOUS
<1>2. /\ d \in ClientType /\ d.ws = None /\ d.opens = c.opens
      /\ \A s \in Sockets : d.sock[s] = IF s = c.ws /\ s \in Live(c) THEN "closing" ELSE c.sock[s]
  BY <1>1, DisconnectDoes
<1>3. ~(c.opens > 0)
  BY DEF OneSocket
<1>4. Live(d) = {}
  BY <1>2 DEF OneSocket, Live
<1> QED BY <1>1, <1>2, <1>3, <1>4 DEF OneSocket

LEMMA SocketEndKeepsOne ==
  ASSUME NEW c \in ClientType, OneSocket(c), NEW s \in Sockets, c.sock[s] # "free",
         NEW failed \in BOOLEAN, NEW d, d = AfterClose(IF failed THEN Errs(c, s) ELSE c, s)
  PROVE  OneSocket(d)
<1>1. /\ d \in ClientType /\ d.ws = None /\ d.opens = c.opens /\ d.sock[s] = "free"
      /\ \A t \in Sockets \ {s} : \/ d.sock[t] = c.sock[t]
                                  \/ t \in Live(c) /\ t = c.ws /\ d.sock[t] = "closing"
  BY SocketEnds
<1>2. ~(c.opens > 0)
  BY DEF OneSocket
<1>3. c.sock[s] \in SocketStates
  BY DEF ClientType
<1>4. Live(c) \subseteq {s}
  BY <1>3 DEF OneSocket, Live, SocketStates
<1>5. Live(d) = {}
  BY <1>1, <1>4 DEF Live
<1> QED BY <1>1, <1>2, <1>5 DEF OneSocket

-----------------------------------------------------------------------------
(* The invariant                                                           *)

LEMMA Types ==
  ASSUME TypeOK
  PROVE  client \in ClientType /\ store \in StoreType
BY DEF TypeOK, ClientType, StoreType

LEMMA InitIInv == Init => IInv
<1> SUFFICES ASSUME Init PROVE IInv
  OBVIOUS
<1>1. client \in ClientType
  BY Frees, FS_CardinalityType, SocketsAssumption DEF Init, NewClient, ClientType, SocketStates
<1>2. 0 \in 0..MaxLogins /\ 0 \in 0..MaxExpiries /\ 0 \in 0..MaxAwaiting
  BY BoundsAssumption
<1>3. store \in StoreType
  BY <1>2 DEF Init, StoreType
<1>4. TypeOK
  BY <1>1, <1>2, <1>3 DEF Init, TypeOK, ClientType, StoreType
<1>5. OneSocket(client)
  BY DEF Init, NewClient, OneSocket, Live
<1> QED BY <1>4, <1>5 DEF Init, IInv, FormCounted, PageWants, AnswerFresh, TokensMatchUser,
           InflightMatches, OneAtATime, NewClient

\* A step that leaves wsClient as it is keeps what is known of it.
LEMMA SameClient ==
  ASSUME IInv, UNCHANGED <<client, overlapped>>
  PROVE  OneAtATime' /\ client' \in ClientType
BY Types DEF IInv, OneAtATime, OneSocket, Live

LEMMA RefreshAnsweredKeeps ==
  ASSUME IInv, NEW ok \in BOOLEAN, RefreshAnswered(ok)
  PROVE  IInv'
<1>1. OneAtATime' /\ client' \in ClientType
  BY SameClient DEF RefreshAnswered, history
<1>2. store \in StoreType /\ inflight \in 0..MaxLogins /\ 0 \in 0..MaxLogins
  BY Types, BoundsAssumption DEF IInv, TypeOK
<1>3. CASE ok
  <2>1. store' = [store EXCEPT !.access = "fresh", !.refresh = inflight, !.initialized = TRUE]
    BY <1>3 DEF RefreshAnswered, Answered, setTokens
  <2>2. store' \in StoreType /\ store'.refresh = inflight /\ store'.user = store.user
        /\ store'.access = "fresh"
    BY <1>2, <2>1 DEF StoreType
  <2>3. TypeOK'
    BY <1>1, <1>2, <2>2 DEF IInv, TypeOK, RefreshAnswered, page, history, ClientType, StoreType
  <2> QED BY <1>1, <2>2, <2>3 DEF IInv, RefreshAnswered, page, history, FormCounted, PageWants,
             AnswerFresh, TokensMatchUser, InflightMatches
<1>4. CASE ~ok
  <2>1. store' = LoggedOut
    BY <1>4 DEF RefreshAnswered, Answered
  <2>2. store' \in StoreType /\ store'.refresh = 0 /\ store'.user = 0
    BY <1>2, <2>1 DEF StoreType, LoggedOut
  <2>3. TypeOK'
    BY <1>1, <1>2, <2>2 DEF IInv, TypeOK, RefreshAnswered, page, history, ClientType, StoreType
  <2> QED BY <1>1, <1>4, <2>2, <2>3 DEF IInv, RefreshAnswered, page, history, FormCounted, PageWants,
             AnswerFresh, TokensMatchUser, InflightMatches
<1> QED BY <1>3, <1>4

\* A refresh is posted with the token of the store, if none is under way.
LEMMA PostsDoes ==
  ASSUME IInv, UNCHANGED inflight \/ (inflight = 0 /\ inflight' = store.refresh)
  PROVE  /\ inflight' \in 0..MaxLogins
         /\ ~crossed /\ inflight' # 0 => inflight' = store.refresh
<1>1. store \in StoreType /\ inflight \in 0..MaxLogins
  BY Types DEF IInv, TypeOK
<1> QED BY <1>1 DEF IInv, InflightMatches, StoreType

\* Requests, expiries and the store's initialization change no token's owner.
LEMMA SameOwnerKeeps ==
  ASSUME IInv,
         UNCHANGED <<platform, client, closers, mounted, dirty, logins, answer, crossed, overlapped>>,
         store' \in StoreType, store'.refresh = store.refresh, store'.user = store.user,
         store'.access = store.access \/ answer = "none",
         form' \in {"idle", "sent"}, form' = "sent" => form = "sent" \/ logins < MaxLogins,
         expiries' \in 0..MaxExpiries,
         inflight' \in 0..MaxLogins, ~crossed /\ inflight' # 0 => inflight' = store.refresh
  PROVE  IInv'
<1>1. OneAtATime' /\ client' \in ClientType
  BY SameClient
<1>2. TypeOK'
  BY <1>1 DEF IInv, TypeOK, ClientType, StoreType
<1> QED BY <1>1, <1>2 DEF IInv, FormCounted, PageWants, AnswerFresh, TokensMatchUser, InflightMatches

LEMMA RequestsKeep ==
  ASSUME IInv, ApiUnauthorized \/ TokenExpires \/ Rehydrated \/ Bootstrap \/ SubmitForm \/ LoginFails
  PROVE  IInv'
<1>1. store \in StoreType /\ TypeOK
  BY Types DEF IInv
<1>2. ~crossed /\ inflight # 0 => inflight = store.refresh
  BY DEF IInv, InflightMatches
<1>3. CASE ApiUnauthorized
  BY <1>1, <1>3, PostsDoes, SameOwnerKeeps DEF ApiUnauthorized, Posts, page, history, TypeOK
<1>4. CASE TokenExpires
  <2>1. store' \in StoreType /\ store'.refresh = store.refresh /\ store'.user = store.user
    BY <1>1, <1>4 DEF TokenExpires, StoreType
  <2>2. expiries' \in 0..MaxExpiries
    BY <1>1, <1>4, BoundsAssumption DEF TokenExpires, TypeOK
  <2> QED BY <1>1, <1>2, <1>4, <2>1, <2>2, SameOwnerKeeps DEF TokenExpires, page, Idle, TypeOK
<1>5. ASSUME store' = setInitialized(store)
      PROVE  /\ store' \in StoreType /\ store'.refresh = store.refresh
             /\ store'.user = store.user /\ store'.access = store.access
  BY <1>1, <1>5 DEF setInitialized, StoreType
<1>6. CASE Rehydrated
  BY <1>1, <1>2, <1>5, <1>6, SameOwnerKeeps DEF Rehydrated, page, history, TypeOK
<1>7. CASE Bootstrap
  <2>1. CASE store' = setInitialized(store) /\ UNCHANGED inflight
    BY <1>1, <1>2, <1>5, <1>7, <2>1, SameOwnerKeeps DEF Bootstrap, page, history, TypeOK
  <2>2. CASE Posts(TRUE) /\ UNCHANGED store
    BY <1>1, <1>7, <2>2, PostsDoes, SameOwnerKeeps DEF Bootstrap, Posts, page, history, TypeOK
  <2> QED BY <1>7, <2>1, <2>2 DEF Bootstrap
<1>8. CASE SubmitForm
  BY <1>1, <1>2, <1>8, SameOwnerKeeps DEF SubmitForm, history, TypeOK
<1>9. CASE LoginFails
  <2>1. /\ inflight' \in 0..MaxLogins
        /\ ~crossed /\ inflight' # 0 => inflight' = store.refresh
    BY <1>9, PostsDoes DEF LoginFails, Posts
  <2> QED BY <1>1, <1>9, <2>1, SameOwnerKeeps DEF LoginFails, history, TypeOK
<1> QED BY <1>3, <1>4, <1>6, <1>7, <1>8, <1>9

LEMMA LoginSucceedsKeeps == IInv /\ LoginSucceeds => IInv'
<1> SUFFICES ASSUME IInv, LoginSucceeds PROVE IInv'
  OBVIOUS
<1>1. OneAtATime' /\ client' \in ClientType
  BY SameClient DEF LoginSucceeds
<1>2. store \in StoreType /\ logins' \in 0..MaxLogins /\ logins' = logins + 1
  BY Types, BoundsAssumption DEF IInv, TypeOK, LoginSucceeds, FormCounted
<1>3. store' = [store EXCEPT !.access = "fresh", !.refresh = logins', !.initialized = TRUE,
                             !.user = logins']
  BY DEF LoginSucceeds, setSession, setTokens
<1>4. store' \in StoreType /\ store'.refresh = store'.user /\ store'.access = "fresh"
  BY <1>2, <1>3 DEF StoreType
<1>5. TypeOK'
  BY <1>1, <1>2, <1>4 DEF IInv, TypeOK, LoginSucceeds, ClientType, StoreType
<1> QED BY <1>1, <1>4, <1>5 DEF IInv, LoginSucceeds, FormCounted, PageWants, AnswerFresh,
           TokensMatchUser, InflightMatches

LEMMA WebLogoutKeeps == IInv /\ WebLogout => IInv'
<1> SUFFICES ASSUME IInv, WebLogout PROVE IInv'
  OBVIOUS
<1>1. OneAtATime' /\ client' \in ClientType
  BY SameClient DEF WebLogout
<1>2. store' \in StoreType /\ store'.refresh = 0 /\ store'.user = 0
  BY BoundsAssumption DEF WebLogout, LoggedOut, StoreType
<1>3. TypeOK'
  BY <1>1, <1>2 DEF IInv, TypeOK, WebLogout, page, ClientType, StoreType
<1> QED BY <1>1, <1>2, <1>3 DEF IInv, WebLogout, page, Idle, FormCounted, PageWants, AnswerFresh,
           TokensMatchUser, InflightMatches

\* A step that leaves the store as it is keeps the invariant if what it makes
\* of wsClient, the page and the refresh does.
LEMMA ClientStepKeeps ==
  ASSUME IInv,
         UNCHANGED <<platform, store, form, logins, expiries, crossed>>,
         client' \in ClientType, OneAtATime', PageWants', closers' \in 0..MaxAwaiting,
         answer' \in {"none", "token", "null"}, answer' = "token" => answer = "token",
         mounted' \in BOOLEAN, dirty' \in BOOLEAN, overlapped' \in BOOLEAN,
         inflight' \in 0..MaxLogins, ~crossed /\ inflight' # 0 => inflight' = store.refresh
  PROVE  IInv'
<1>1. TypeOK'
  BY DEF IInv, TypeOK, ClientType, StoreType
<1> QED BY <1>1 DEF IInv, FormCounted, AnswerFresh, TokensMatchUser, InflightMatches

\* connect() keeps one socket at a time unless the history records an overlap.
LEMMA ConnectStep ==
  ASSUME IInv, NEW c \in ClientType, OneSocket(c) \/ overlapped',
         c.timer => mounted', mounted', c.opens = client.opens,
         \A s \in Sockets : client.sock[s] = c.sock[s] \/ c.sock[s] = "closing",
         Becomes(Connect(c)), overlapped' \in BOOLEAN, Overlaps(client') => overlapped'
  PROVE  /\ client' \in ClientType /\ OneAtATime' /\ PageWants'
         /\ inflight' \in 0..MaxLogins
         /\ ~crossed /\ inflight' # 0 => inflight' = store.refresh
<1>1. PICK d \in Connect(c) : client' = d /\ Posts(d.opens > client.opens)
  BY DEF Becomes
<1>2. /\ d \in ClientType /\ d.should
  BY ConnectDoes
<1>3. /\ inflight' \in 0..MaxLogins
      /\ ~crossed /\ inflight' # 0 => inflight' = store.refresh
  BY <1>1, PostsDoes DEF Posts
<1>4. d.opens \in Nat /\ c.opens \in Nat /\ (d.opens = c.opens \/ d.opens = c.opens + 1)
  BY <1>2, ConnectDoes, Frees DEF ClientType
<1>5. ASSUME ~overlapped' PROVE OneSocket(d)
  <2>1. OneSocket(c) /\ ~Overlaps(d)
    BY <1>1, <1>5
  <2>2. ASSUME NEW s \in Sockets, d.sock[s] = "closing"
        PROVE  d.opens = c.opens /\ Live(d) \subseteq Live(c)
    <3>1. ~(d.opens > client.opens) /\ Live(d) \subseteq Live(client)
      BY <2>1, <2>2 DEF Overlaps
    <3>2. d.opens = c.opens
      BY <1>4, <3>1
    <3>3. \A t \in Sockets : c.sock[t] = "closing" => d.sock[t] = "closing"
      <4>1. d.sock = c.sock \/ \E r \in Free(c) : d.sock = [c.sock EXCEPT ![r] = "connecting"]
        BY ConnectDoes
      <4>2. c.sock \in [Sockets -> SocketStates]
        BY DEF ClientType
      <4> QED BY <4>1, <4>2 DEF Free
    <3>4. Live(d) \subseteq Live(c)
      BY <3>1, <3>3 DEF Live
    <3> QED BY <3>2, <3>4
  <2> QED BY <2>1, <2>2, ConnectKeepsOne
<1>6. PageWants'
  BY <1>1, <1>2 DEF PageWants
<1> QED BY <1>1, <1>2, <1>3, <1>5, <1>6 DEF OneAtATime, OneSocket, Live

LEMMA TimerFiresKeeps == IInv /\ TimerFires => IInv'
<1> SUFFICES ASSUME IInv, TimerFires PROVE IInv'
  OBVIOUS
<1>1. PICK c : c = [client EXCEPT !.timer = FALSE]
  OBVIOUS
<1>2. c \in ClientType /\ c.opens = client.opens /\ c.sock = client.sock /\ ~c.timer
      /\ c.ws = client.ws /\ c.should = client.should /\ c.connecting = client.connecting
  BY <1>1, Types DEF IInv, ClientType
<1>3. OneSocket(c) \/ overlapped'
  BY <1>2 DEF IInv, OneAtATime, OneSocket, Live, TimerFires
<1>4. mounted' /\ overlapped' \in BOOLEAN /\ (Overlaps(client') => overlapped')
  BY DEF IInv, TypeOK, PageWants, TimerFires, page
<1>5. Becomes(Connect(c))
  BY <1>1 DEF TimerFires
<1>6. /\ client' \in ClientType /\ OneAtATime' /\ PageWants'
      /\ inflight' \in 0..MaxLogins
      /\ ~crossed /\ inflight' # 0 => inflight' = store.refresh
  BY <1>2, <1>3, <1>4, <1>5, ConnectStep
<1> QED BY <1>4, <1>6, ClientStepKeeps DEF IInv, TypeOK, TimerFires, page

LEMMA EntersChatsKeeps == IInv /\ EntersChats => IInv'
<1> SUFFICES ASSUME IInv, EntersChats PROVE IInv'
  OBVIOUS
<1>1. client \in ClientType /\ (OneSocket(client) \/ overlapped')
  BY Types DEF IInv, OneAtATime, EntersChats
<1>2. mounted' /\ mounted' \in BOOLEAN /\ overlapped' \in BOOLEAN /\ (Overlaps(client') => overlapped')
  BY DEF IInv, TypeOK, EntersChats
<1>3. Becomes(Connect(client))
  BY DEF EntersChats
<1>4. /\ client' \in ClientType /\ OneAtATime' /\ PageWants'
      /\ inflight' \in 0..MaxLogins
      /\ ~crossed /\ inflight' # 0 => inflight' = store.refresh
  BY <1>1, <1>2, <1>3, ConnectStep
<1> QED BY <1>2, <1>4, ClientStepKeeps DEF IInv, TypeOK, EntersChats

\* disconnect() keeps one socket at a time unless open() was waiting.
LEMMA DisconnectStep ==
  ASSUME IInv, overlapped' \in BOOLEAN, overlapped => overlapped',
         Overlaps(Disconnect(client)) => overlapped'
  PROVE  OneSocket(Disconnect(client)) \/ overlapped'
<1>1. client \in ClientType /\ ~Disconnect(client).should
  BY Types, DisconnectDoes DEF IInv
<1>2. CASE ~overlapped'
  <2>1. OneSocket(client) /\ ~(client.should /\ client.opens > 0)
    BY <1>1, <1>2 DEF IInv, OneAtATime, Overlaps
  <2> QED BY <1>1, <2>1, DisconnectKeepsOne
<1> QED BY <1>2

LEMMA LeavesChatsKeeps == IInv /\ LeavesChats => IInv'
<1> SUFFICES ASSUME IInv, LeavesChats PROVE IInv'
  OBVIOUS
<1>1. client' = Disconnect(client) /\ overlapped' \in BOOLEAN
  BY DEF IInv, TypeOK, LeavesChats
<1>2. client' \in ClientType /\ ~client'.should /\ ~client'.timer
  BY <1>1, Types, DisconnectDoes DEF IInv
<1>3. OneSocket(Disconnect(client)) \/ overlapped'
  BY <1>1, DisconnectStep DEF LeavesChats
<1>4. OneAtATime' /\ PageWants'
  BY <1>1, <1>2, <1>3 DEF OneAtATime, OneSocket, Live, PageWants
<1> QED BY <1>1, <1>2, <1>4, ClientStepKeeps DEF IInv, TypeOK, LeavesChats, InflightMatches

\* The cleanup disconnects, and where there is none nothing is wanted.
LEMMA CleanedUpStep ==
  ASSUME IInv, overlapped' \in BOOLEAN, overlapped => overlapped', Overlaps(CleanedUp) => overlapped'
  PROVE  /\ CleanedUp \in ClientType /\ ~CleanedUp.should /\ ~CleanedUp.timer
         /\ CleanedUp.opens = client.opens
         /\ \A s \in Sockets : client.sock[s] = CleanedUp.sock[s] \/ CleanedUp.sock[s] = "closing"
         /\ OneSocket(CleanedUp) \/ overlapped'
<1>1. client \in ClientType
  BY Types DEF IInv
<1>2. CASE mounted
  <2>1. CleanedUp = Disconnect(client)
    BY <1>2 DEF CleanedUp
  <2> QED BY <1>1, <2>1, DisconnectDoes, DisconnectStep
<1>3. CASE ~mounted
  <2>1. CleanedUp = client
    BY <1>3 DEF CleanedUp
  <2>2. client.should \in BOOLEAN /\ client.timer \in BOOLEAN
    BY <1>1 DEF ClientType
  <2>3. ~client.should /\ ~client.timer
    BY <1>3, <2>2 DEF IInv, PageWants
  <2>4. OneSocket(client) \/ overlapped'
    BY DEF IInv, OneAtATime, TypeOK
  <2> QED BY <1>1, <2>1, <2>3, <2>4
<1> QED BY <1>2, <1>3 DEF IInv, TypeOK

LEMMA EffectRunsKeeps == IInv /\ EffectRuns => IInv'
<1> SUFFICES ASSUME IInv, EffectRuns PROVE IInv'
  OBVIOUS
<1>1. PICK c : c = CleanedUp
  OBVIOUS
<1>2. overlapped' \in BOOLEAN /\ (Overlaps(client') => overlapped') /\ mounted' \in BOOLEAN
  BY DEF IInv, TypeOK, EffectRuns
<1>3. (overlapped => overlapped') /\ (Overlaps(CleanedUp) => overlapped')
  BY DEF EffectRuns
<1>4. /\ c \in ClientType /\ ~c.should /\ ~c.timer /\ c.opens = client.opens
      /\ \A s \in Sockets : client.sock[s] = c.sock[s] \/ c.sock[s] = "closing"
      /\ OneSocket(c) \/ overlapped'
  BY <1>1, <1>2, <1>3, CleanedUpStep
<1>5. CASE store.access = "none"
  <2>1. client' = c /\ Posts(c.opens > client.opens)
    BY <1>1, <1>5 DEF EffectRuns, Becomes
  <2>2. OneAtATime' /\ PageWants'
    BY <1>4, <2>1 DEF OneAtATime, OneSocket, Live, PageWants
  <2>3. /\ inflight' \in 0..MaxLogins
        /\ ~crossed /\ inflight' # 0 => inflight' = store.refresh
    BY <2>1, PostsDoes DEF Posts
  <2> QED BY <1>2, <1>4, <2>1, <2>2, <2>3, ClientStepKeeps DEF IInv, TypeOK, EffectRuns
<1>6. CASE store.access # "none"
  <2>1. Becomes(Connect(c)) /\ mounted'
    BY <1>1, <1>6 DEF EffectRuns
  <2>2. /\ client' \in ClientType /\ OneAtATime' /\ PageWants'
        /\ inflight' \in 0..MaxLogins
        /\ ~crossed /\ inflight' # 0 => inflight' = store.refresh
    BY <1>2, <1>4, <2>1, ConnectStep
  <2> QED BY <1>2, <2>1, <2>2, ClientStepKeeps DEF IInv, TypeOK, EffectRuns
<1> QED BY <1>5, <1>6

LEMMA MobileLogoutKeeps == IInv /\ MobileLogout => IInv'
<1> SUFFICES ASSUME IInv, MobileLogout PROVE IInv'
  OBVIOUS
<1>1. client' = Disconnect(client) /\ overlapped' \in BOOLEAN
  BY DEF IInv, TypeOK, MobileLogout
<1>2. client' \in ClientType /\ ~client'.should /\ ~client'.timer
  BY <1>1, Types, DisconnectDoes DEF IInv
<1>3. OneSocket(Disconnect(client)) \/ overlapped'
  BY <1>1, DisconnectStep DEF MobileLogout
<1>4. OneAtATime' /\ PageWants'
  BY <1>1, <1>2, <1>3 DEF OneAtATime, OneSocket, Live, PageWants
<1>5. store' \in StoreType /\ store'.refresh = 0 /\ store'.user = 0
  BY BoundsAssumption DEF MobileLogout, LoggedOut, StoreType
<1>6. TypeOK'
  BY <1>1, <1>2, <1>5 DEF IInv, TypeOK, MobileLogout, page, ClientType, StoreType
<1> QED BY <1>4, <1>5, <1>6 DEF IInv, MobileLogout, page, Idle, FormCounted, AnswerFresh,
           TokensMatchUser, InflightMatches

LEMMA OpenResumesKeeps == IInv /\ OpenResumes => IInv'
<1> SUFFICES ASSUME IInv, OpenResumes PROVE IInv'
  OBVIOUS
<1>1. PICK c : c = [client EXCEPT !.opens = client.opens - 1]
  OBVIOUS
<1>2. /\ client \in ClientType /\ client.opens \in Nat /\ client.opens > 0
      /\ c \in ClientType /\ c.opens = client.opens - 1 /\ c.sock = client.sock /\ c.ws = client.ws
      /\ c.should = client.should /\ c.timer = client.timer
  BY <1>1, Types, Frees DEF IInv, OpenResumes, ClientType
<1>3. OneSocket(client) => /\ c.opens = 0
                           /\ \A s \in Sockets : c.sock[s] = "free"
  BY <1>2 DEF OneSocket
<1>4. client' \in IF answer = "token" THEN {Creates(c, s) : s \in Free(c)}
                  ELSE {[c EXCEPT !.connecting = FALSE]}
  BY <1>1 DEF OpenResumes
<1>5. /\ client' \in ClientType /\ client'.should = c.should /\ client'.timer = c.timer
      /\ OneSocket(client) => OneSocket(client')
  <2>1. CASE answer = "token"
    <3>1. PICK s \in Free(c) : client' = Creates(c, s)
      BY <1>4, <2>1
    <3>2. /\ client' \in ClientType
          /\ client' = [c EXCEPT !.ws = s, !.sock = [c.sock EXCEPT ![s] = "connecting"]]
      BY <1>2, <3>1, CreatesDoes
    <3>3. /\ client'.ws = s /\ client'.sock = [c.sock EXCEPT ![s] = "connecting"]
          /\ client'.opens = c.opens /\ client'.should = c.should /\ client'.timer = c.timer
      BY <1>2, <3>2 DEF ClientType
    <3>4. PICK d : d = client'
      OBVIOUS
    <3>5. Live(d) = Live(c) \cup {s} /\ \A t \in Sockets : d.sock[t] = "closing" <=> c.sock[t] = "closing"
      <4>1. d \in ClientType /\ d.sock = [c.sock EXCEPT ![s] = "connecting"]
        BY <3>2, <3>3, <3>4
      <4> QED BY <1>2, <4>1, CreationLives
    <3>6. OneSocket(client) => OneSocket(d)
      <4>1. SUFFICES ASSUME OneSocket(client) PROVE OneSocket(d)
        OBVIOUS
      <4>2. Live(c) = {} /\ \A t \in Sockets : d.sock[t] # "closing"
        BY <1>3, <3>5, <4>1 DEF Live
      <4>3. d.ws = s /\ ~(d.opens > 0)
        BY <1>3, <3>3, <3>4, <4>1
      <4> QED BY <3>5, <4>2, <4>3 DEF OneSocket
    <3> QED BY <3>2, <3>3, <3>4, <3>6
  <2>2. CASE answer # "token"
    <3>1. client' = [c EXCEPT !.connecting = FALSE]
      BY <1>4, <2>2
    <3>2. client' \in ClientType /\ client'.sock = c.sock /\ client'.opens = c.opens /\ client'.ws = c.ws
          /\ client'.should = c.should /\ client'.timer = c.timer
      BY <1>2, <3>1 DEF ClientType
    <3> QED BY <1>3, <3>2 DEF OneSocket, Live
  <2> QED BY <2>1, <2>2
<1>6. overlapped' \in BOOLEAN /\ (~overlapped' => ~overlapped)
  BY DEF IInv, TypeOK, OpenResumes
<1>7. OneAtATime' /\ PageWants'
  BY <1>2, <1>5, <1>6 DEF IInv, OneAtATime, OneSocket, Live, PageWants, OpenResumes, page
<1>8. answer' = answer \/ answer' = "none"
  BY DEF OpenResumes, Resumed
<1> QED BY <1>5, <1>6, <1>7, <1>8, ClientStepKeeps DEF IInv, TypeOK, OpenResumes, page, InflightMatches

\* scheduleReconnect does not touch the sockets.
LEMMA ScheduledKeepsOne ==
  ASSUME NEW c \in ClientType, NEW d, d = Scheduled(c)
  PROVE  /\ d \in ClientType /\ (OneSocket(c) => OneSocket(d)) /\ d.should = c.should
         /\ d.timer => c.timer \/ c.should
<1>1. /\ d \in ClientType /\ d.ws = c.ws /\ d.opens = c.opens /\ d.sock = c.sock
      /\ d.connecting = c.connecting /\ d.should = c.should
      /\ d.timer => c.timer \/ c.should
  BY ScheduledDoes
<1> QED BY <1>1 DEF OneSocket, Live

LEMMA CloseResumesKeeps == IInv /\ CloseResumes => IInv'
<1> SUFFICES ASSUME IInv, CloseResumes PROVE IInv'
  OBVIOUS
<1>1. client \in ClientType
  BY Types DEF IInv
<1>2. /\ client' \in ClientType /\ (OneSocket(client) => OneSocket(client'))
      /\ client'.should = client.should /\ (client'.timer => client.timer \/ client.should)
  <2>1. CASE client' = client
    BY <1>1, <2>1 DEF OneSocket, Live
  <2>2. CASE client' = Scheduled(client)
    BY <1>1, <2>2, ScheduledKeepsOne
  <2> QED BY <2>1, <2>2 DEF CloseResumes
<1>3. OneAtATime' /\ PageWants'
  BY <1>2 DEF IInv, OneAtATime, OneSocket, Live, PageWants, CloseResumes, page, history
<1>4. closers' \in 0..MaxAwaiting
  BY BoundsAssumption DEF IInv, TypeOK, CloseResumes
<1>5. answer' = answer \/ answer' = "none"
  BY DEF CloseResumes, Resumed
<1> QED BY <1>2, <1>3, <1>4, <1>5, ClientStepKeeps
        DEF IInv, TypeOK, CloseResumes, page, history, InflightMatches

LEMMA SocketOpensKeeps ==
  ASSUME IInv, NEW s \in Sockets, SocketOpens(s)
  PROVE  IInv'
<1> DEFINE f == [client.sock EXCEPT ![s] = "open"]
<1>1. client \in ClientType /\ client.sock \in [Sockets -> SocketStates] /\ client.sock[s] = "connecting"
  BY Types DEF IInv, SocketOpens, ClientType
<1>2. f \in [Sockets -> SocketStates] /\ client' = [client EXCEPT !.sock = f, !.connecting = FALSE]
  BY <1>1 DEF SocketOpens, SocketStates, ClientType
<1>3. /\ client' \in ClientType /\ client'.sock = f /\ client'.opens = client.opens
      /\ client'.ws = client.ws /\ client'.should = client.should /\ client'.timer = client.timer
  BY <1>1, <1>2 DEF ClientType
<1>4. PICK d : d = client'
  OBVIOUS
<1>5. \A t \in Sockets : d.sock[t] = IF t = s THEN "open" ELSE client.sock[t]
  BY <1>1, <1>3, <1>4
<1>6. Live(d) = Live(client) /\ \A t \in Sockets : d.sock[t] = "closing" <=> client.sock[t] = "closing"
  BY <1>1, <1>5 DEF Live
<1>7. OneSocket(client) => OneSocket(d)
  <2>1. SUFFICES ASSUME OneSocket(client) PROVE OneSocket(d)
    OBVIOUS
  <2>2. ~(client.opens > 0)
    BY <1>1, <2>1 DEF OneSocket
  <2>3. d.opens = client.opens /\ d.ws = client.ws
    BY <1>3, <1>4
  <2> QED BY <1>6, <2>1, <2>2, <2>3 DEF OneSocket
<1>8. OneAtATime' /\ PageWants'
  BY <1>3, <1>4, <1>7 DEF IInv, OneAtATime, OneSocket, Live, PageWants, SocketOpens, page, history
<1> QED BY <1>3, <1>8, ClientStepKeeps DEF IInv, TypeOK, SocketOpens, page, history, InflightMatches

LEMMA SocketClosesKeeps ==
  ASSUME IInv, NEW s \in Sockets, NEW code, NEW failed \in BOOLEAN, SocketCloses(s, code, failed)
  PROVE  IInv'
<1>1. PICK d : d = AfterClose(IF failed THEN Errs(client, s) ELSE client, s)
  OBVIOUS
<1>2. client \in ClientType /\ client.sock[s] # "free"
  BY Types DEF IInv, SocketCloses
<1>3. d \in ClientType /\ d.should = client.should /\ d.timer = client.timer
  BY <1>1, <1>2, SocketEnds
<1>4. OneSocket(client) => OneSocket(d)
  BY <1>1, <1>2, SocketEndKeepsOne
<1>5. client' = d \/ client' = Scheduled(d)
  BY <1>1 DEF SocketCloses
<1>6. /\ client' \in ClientType /\ (OneSocket(client) => OneSocket(client'))
      /\ client'.should = client.should /\ (client'.timer => client.timer \/ client.should)
  <2>1. CASE client' = d
    BY <1>3, <1>4, <2>1 DEF OneSocket, Live
  <2>2. CASE client' = Scheduled(d)
    BY <1>3, <1>4, <2>2, ScheduledKeepsOne
  <2> QED BY <1>5, <2>1, <2>2
<1>7. OneAtATime' /\ PageWants'
  BY <1>6 DEF IInv, OneAtATime, OneSocket, Live, PageWants, SocketCloses, page, history
<1>8. closers' \in 0..MaxAwaiting
  BY BoundsAssumption DEF IInv, TypeOK, SocketCloses
<1>9. /\ inflight' \in 0..MaxLogins
      /\ ~crossed /\ inflight' # 0 => inflight' = store.refresh
  BY PostsDoes DEF SocketCloses, Posts
<1> QED BY <1>6, <1>7, <1>8, <1>9, ClientStepKeeps DEF IInv, TypeOK, SocketCloses, page, history

LEMMA ReloadKeeps == IInv /\ Reload => IInv'
<1> SUFFICES ASSUME IInv, Reload PROVE IInv'
  OBVIOUS
<1>1. client' \in ClientType
  BY Frees, FS_CardinalityType, SocketsAssumption DEF Reload, NewClient, ClientType, SocketStates
<1>2. store \in StoreType
  BY Types DEF IInv
<1>3. store' \in StoreType /\ store'.refresh = store.refresh /\ store'.user = store.user
  BY <1>2 DEF Reload, partialize, StoreType
<1>4. TypeOK'
  <2>1. inflight' \in 0..MaxLogins /\ closers' \in 0..MaxAwaiting
    BY BoundsAssumption DEF Reload
  <2>2. /\ platform' \in Platforms /\ form' \in {"idle", "sent"}
        /\ answer' \in {"none", "token", "null"} /\ mounted' \in BOOLEAN /\ dirty' \in BOOLEAN
        /\ logins' \in 0..MaxLogins /\ expiries' \in 0..MaxExpiries
        /\ crossed' \in BOOLEAN /\ overlapped' \in BOOLEAN
    BY DEF IInv, TypeOK, Reload, history
  <2> QED BY <1>1, <1>3, <2>1, <2>2 DEF TypeOK, ClientType, StoreType
<1>5. OneAtATime' /\ PageWants'
  BY DEF Reload, NewClient, OneAtATime, OneSocket, Live, PageWants
<1> QED BY <1>3, <1>4, <1>5 DEF IInv, Reload, history, FormCounted, AnswerFresh, TokensMatchUser,
           InflightMatches

LEMMA StutterKeeps == IInv /\ UNCHANGED vars => IInv'
<1> SUFFICES ASSUME IInv, UNCHANGED vars PROVE IInv'
  OBVIOUS
<1>1. OneAtATime' /\ PageWants'
  BY DEF IInv, OneAtATime, OneSocket, Live, PageWants, vars
<1> QED BY <1>1, Types, ClientStepKeeps DEF IInv, TypeOK, vars, InflightMatches

LEMMA NextKeeps == IInv /\ [Next]_vars => IInv'
<1> SUFFICES ASSUME IInv, [Next]_vars PROVE IInv'
  OBVIOUS
<1>1. CASE \E ok \in BOOLEAN : RefreshAnswered(ok)
  BY <1>1, RefreshAnsweredKeeps
<1>2. CASE Continuation
  BY <1>2, OpenResumesKeeps, CloseResumesKeeps DEF Continuation
<1>3. CASE ApiUnauthorized \/ TokenExpires \/ Rehydrated \/ Bootstrap \/ SubmitForm \/ LoginFails
  BY <1>3, RequestsKeep
<1>4. CASE Handshake
  BY <1>4, SocketOpensKeeps DEF Handshake
<1>5. CASE \E s \in Sockets, code \in {1000, 4001}, failed \in BOOLEAN : SocketCloses(s, code, failed)
  BY <1>5, SocketClosesKeeps
<1>6. CASE TimerFires \/ LoginSucceeds
  BY <1>6, TimerFiresKeeps, LoginSucceedsKeeps
<1>7. CASE EntersChats \/ LeavesChats \/ EffectRuns
  BY <1>7, EntersChatsKeeps, LeavesChatsKeeps, EffectRunsKeeps
<1>8. CASE WebLogout \/ MobileLogout \/ Reload
  BY <1>8, WebLogoutKeeps, MobileLogoutKeeps, ReloadKeeps
<1>9. CASE UNCHANGED vars
  BY <1>9, StutterKeeps
<1> QED BY <1>1, <1>2, <1>3, <1>4, <1>5, <1>6, <1>7, <1>8, <1>9 DEF Next

\* In every reachable state the invariant holds.
THEOREM Invariance == SafetySpec => []IInv
BY InitIInv, NextKeeps, PTL DEF SafetySpec

\* The type invariant, and TimerWanted: a reconnect is pending only while a
\* page wants the connection, whatever sockets and refreshes end late.
THEOREM TimersAreWanted == SafetySpec => []TimerWanted
<1>1. IInv => TimerWanted
  BY DEF IInv, PageWants, TimerWanted
<1> QED BY <1>1, Invariance, PTL

\* TokensMatchUser: tokens and ids in the store are of one login, unless the
\* user logged in or out while a refresh was in flight.
THEOREM TokensAreTheUsers == SafetySpec => []TokensMatchUser
<1>1. IInv => TokensMatchUser
  BY DEF IInv
<1> QED BY <1>1, Invariance, PTL

\* UncontendedOneSocket: wsClient holds every live socket, unless open() and a
\* close overlapped.
THEOREM OneSocketIfUncontended == SafetySpec => []UncontendedOneSocket
<1>1. IInv => UncontendedOneSocket
  BY DEF IInv, OneAtATime, OneSocket, UncontendedOneSocket
<1> QED BY <1>1, Invariance, PTL

-----------------------------------------------------------------------------
(* Handshakes                                                              *)

Opened(s) == client.sock[s] = "free" /\ client'.sock[s] = "connecting"

\* connect() opens a socket only with a fresh token.
LEMMA ConnectsFresh ==
  ASSUME NEW c \in ClientType, NEW d \in Connect(c), NEW s \in Sockets,
         c.sock[s] = "free", d.sock[s] = "connecting"
  PROVE  store.access = "fresh"
<1>1. \/ d.sock = c.sock
      \/ Fresh
  BY ConnectDoes
<1> QED BY <1>1 DEF Fresh

\* FreshHandshakes: every handshake carries a token that is fresh, also one
\* that is begun when a wait for a refresh is over.
THEOREM HandshakesAreFresh == SafetySpec => FreshHandshakes
<1>1. ASSUME IInv, [Next]_vars, NEW s \in Sockets, Opened(s)
      PROVE  store'.access = "fresh"
  <2>1. client \in ClientType /\ client.sock \in [Sockets -> SocketStates]
    BY <1>1, Types DEF IInv, ClientType
  <2>2. CASE client' = client
    BY <1>1, <2>2 DEF Opened
  <2>3. CASE OpenResumes
    <3>1. PICK c : c = [client EXCEPT !.opens = client.opens - 1]
      OBVIOUS
    <3>2. c.sock = client.sock
      BY <2>1, <3>1 DEF ClientType
    <3>3. CASE answer = "token"
      BY <1>1, <2>3, <3>3 DEF IInv, AnswerFresh, OpenResumes
    <3>4. CASE answer # "token"
      <4>1. client' = [c EXCEPT !.connecting = FALSE]
        BY <2>3, <3>1, <3>4 DEF OpenResumes
      <4>2. client'.sock = client.sock
        BY <2>1, <3>1, <4>1 DEF ClientType
      <4> QED BY <1>1, <4>2 DEF Opened
    <3> QED BY <3>3, <3>4
  <2>4. CASE CloseResumes
    <3>1. client'.sock = client.sock
      BY <2>1, <2>4, ScheduledDoes DEF CloseResumes
    <3> QED BY <1>1, <3>1 DEF Opened
  <2>5. ASSUME NEW t \in Sockets, SocketOpens(t)
        PROVE  FALSE
    <3>1. client'.sock = [client.sock EXCEPT ![t] = "open"]
      BY <2>1, <2>5 DEF SocketOpens, ClientType
    <3> QED BY <1>1, <2>1, <3>1 DEF Opened
  <2>6. ASSUME NEW t \in Sockets, NEW code, NEW failed \in BOOLEAN, SocketCloses(t, code, failed)
        PROVE  FALSE
    <3>1. PICK d : d = AfterClose(IF failed THEN Errs(client, t) ELSE client, t)
      OBVIOUS
    <3>2. d \in ClientType /\ (client' = d \/ client' = Scheduled(d))
      BY <2>1, <2>6, <3>1, SocketEnds DEF SocketCloses
    <3>3. client'.sock = d.sock
      BY <3>2, ScheduledDoes
    <3>4. d.sock[s] = client.sock[s] \/ d.sock[s] \in {"free", "closing"}
      BY <2>1, <3>1, SocketEnds
    <3> QED BY <1>1, <3>3, <3>4 DEF Opened
  <2>7. CASE TimerFires
    <3>1. PICK c : c = [client EXCEPT !.timer = FALSE]
      OBVIOUS
    <3>2. c \in ClientType /\ c.sock = client.sock
      BY <2>1, <3>1 DEF ClientType
    <3>3. client' \in Connect(c) /\ store' = store
      BY <2>7, <3>1 DEF TimerFires, Becomes
    <3> QED BY <1>1, <3>2, <3>3, ConnectsFresh DEF Opened
  <2>8. CASE EntersChats
    <3>1. client' \in Connect(client) /\ store' = store
      BY <2>8 DEF EntersChats, Becomes
    <3> QED BY <1>1, <2>1, <3>1, ConnectsFresh DEF Opened
  <2>9. PICK c : c = Disconnect(client)
    OBVIOUS
  <2>10. c \in ClientType /\ (c.sock[s] = client.sock[s] \/ c.sock[s] = "closing")
    BY <2>1, <2>9, DisconnectDoes
  <2>11. CASE LeavesChats \/ MobileLogout
    <3>1. client' = c
      BY <2>9, <2>11 DEF LeavesChats, MobileLogout
    <3> QED BY <1>1, <2>10, <3>1 DEF Opened
  <2>12. CASE EffectRuns
    <3> PICK d : d = CleanedUp
      OBVIOUS
    <3>1. store' = store /\ (client' = d \/ client' \in Connect(d))
      BY <2>12 DEF EffectRuns, Becomes
    <3>2. d = c \/ d = client
      BY <2>9 DEF CleanedUp
    <3>3. d \in ClientType /\ (d.sock[s] = "free" \/ d.sock[s] = "closing")
      BY <1>1, <2>1, <2>10, <3>2 DEF Opened
    <3>4. CASE client' \in Connect(d)
      <4>1. d.sock[s] = "closing" => client'.sock[s] # "connecting"
        <5>1. \/ client'.sock = d.sock
              \/ \E r \in Free(d) : client'.sock = [d.sock EXCEPT ![r] = "connecting"]
          BY <3>3, <3>4, ConnectDoes
        <5>2. d.sock \in [Sockets -> SocketStates]
          BY <3>3 DEF ClientType
        <5> QED BY <5>1, <5>2 DEF Free
      <4>2. d.sock[s] = "free"
        BY <1>1, <3>3, <4>1 DEF Opened
      <4> QED BY <1>1, <3>1, <3>3, <3>4, <4>2, ConnectsFresh DEF Opened
    <3>5. CASE client' = d
      BY <1>1, <3>3, <3>5 DEF Opened
    <3> QED BY <3>1, <3>4, <3>5
  <2>13. CASE Reload
    BY <1>1, <2>13 DEF Opened, Reload, NewClient
  <2>14. CASE \/ \E ok \in BOOLEAN : RefreshAnswered(ok)
              \/ ApiUnauthorized \/ TokenExpires \/ Rehydrated \/ Bootstrap \/ SubmitForm
              \/ LoginSucceeds \/ LoginFails \/ WebLogout \/ UNCHANGED vars
    <3>1. client' = client
      BY <2>14 DEF RefreshAnswered, ApiUnauthorized, TokenExpires, Rehydrated, Bootstrap, SubmitForm,
                   LoginSucceeds, LoginFails, WebLogout, vars
    <3> QED BY <2>2, <3>1
  <2> QED BY <1>1, <2>3, <2>4, <2>5, <2>6, <2>7, <2>8, <2>11, <2>12, <2>13, <2>14
          DEF Next, Continuation, Handshake
<1>2. IInv /\ [Next]_vars => [\A s \in Sockets : Opened(s) => store'.access = "fresh"]_vars
  BY <1>1
<1>3. SafetySpec => [][\A s \in Sockets : Opened(s) => store'.access = "fresh"]_vars
  BY <1>2, Invariance, PTL DEF SafetySpec
<1> QED BY <1>3, PTL DEF FreshHandshakes, Opened

-----------------------------------------------------------------------------
(* Onboarding: what forms and the session have of the key store            *)

Forms == [pc : {"store", "post", "answer"}, kind : {"login", "register"}, user : Users, key : generated]
Sessions == [user : accounts, key : generated, by : {"login", "register"}]

\* A store that is not empty has a first record; the phone has one slot.
Store ==
  /\ platform \in Platforms
  /\ IsFiniteSet(kept) /\ kept \subseteq generated /\ generated \subseteq Keys
  /\ kept # {} => loadMyKeyPair # {}
  /\ Mobile => \A j, k \in kept : j = k

AttemptTypes ==
  /\ attempt \in [Attempts -> {NoForm} \cup Forms]
  /\ \A a \in Attempts : attempt[a].pc = "answer" => attempt[a].user \in accounts
  /\ accounts \subseteq Users /\ devices \subseteq accounts \X generated
  /\ session \in {NoSession} \cup Sessions
  /\ contended \in BOOLEAN /\ unsaved \in BOOLEAN

\* A browser has the key of each device and of each form that goes to the server.
KeysHere ==
  Web => /\ \A d \in devices : d[2] \in kept
         /\ \A a \in Attempts : attempt[a] # NoForm /\ attempt[a].pc # "store" => attempt[a].key \in kept

\* Without overlap one form is under way, and none beside a session.
Alone ==
  ~contended =>
    /\ \A a, b \in Attempts : attempt[a] # NoForm /\ attempt[b] # NoForm => a = b
    /\ session # NoSession => \A a \in Attempts : attempt[a] = NoForm

\* The key is in the store, and it is what the store gives out.
Fits(by, key) == key \in kept /\ (Mobile \/ by = "login" => Loaded = {key})

FormPresents(a) ==
  /\ Web /\ attempt[a].pc = "store" /\ attempt[a].kind = "login" => kept = {}
  /\ attempt[a].pc # "store" => Fits(attempt[a].kind, attempt[a].key)

Presented ==
  ~contended /\ ~unsaved =>
    /\ \A a \in Attempts : attempt[a] # NoForm => FormPresents(a)
    /\ session # NoSession => Fits(session.by, session.key)

KeyInv == Store /\ AttemptTypes /\ KeysHere /\ Alone /\ Presented

LEMMA InitKeyInv == OnboardingInit => KeyInv
<1> SUFFICES ASSUME OnboardingInit PROVE KeyInv
  OBVIOUS
<1>1. Store
  BY FS_EmptySet DEF OnboardingInit, Store
<1>2. AttemptTypes
  BY DEF OnboardingInit, AttemptTypes, NoForm
<1>3. KeysHere /\ Alone /\ Presented
  BY DEF OnboardingInit, KeysHere, Alone, Presented
<1> QED BY <1>1, <1>2, <1>3 DEF KeyInv

-----------------------------------------------------------------------------
(* The key store                                                           *)

\* Two first records are one.
LEMMA FirstIsOne ==
  ASSUME Store, NEW k \in Loaded
  PROVE  Loaded = {k} /\ k \in kept
<1>1. kept \subseteq Nat
  BY KeysAssumption DEF Store
<1>2. \A j, l \in loadMyKeyPair : j = l
  BY <1>1 DEF loadMyKeyPair
<1>3. \A j, l \in Loaded : j = l
  BY <1>2, PlatformsAssumption DEF Loaded, loadIdentityKey, Store, Web, Mobile
<1>4. Loaded \subseteq kept
  BY DEF Loaded, loadIdentityKey, loadMyKeyPair
<1> QED BY <1>3, <1>4

LEMMA EmptyStore ==
  ASSUME Store, Loaded = {}
  PROVE  kept = {}
BY DEF Store, Loaded, loadIdentityKey

\* With one record more there still is a first one.
LEMMA StoreGrows ==
  ASSUME Store, NEW k \in generated, kept' = kept \cup {k}, Web, UNCHANGED <<generated, platform>>
  PROVE  Store'
<1>1. kept \subseteq Nat /\ k \in Nat /\ kept' \subseteq Nat
  BY KeysAssumption DEF Store
<1>2. IsFiniteSet(kept \cup {k})
  BY FS_AddElement DEF Store
<1>3. loadMyKeyPair' = {j \in kept \cup {k} : \A other \in kept \cup {k} : j <= other}
  BY DEF loadMyKeyPair
<1>4. loadMyKeyPair' # {}
  <2>1. CASE kept = {}
    BY <1>1, <1>3, <2>1
  <2>2. CASE kept # {}
    <3>1. PICK m \in kept : \A other \in kept : m <= other
      BY <2>2 DEF Store, loadMyKeyPair
    <3>2. m \in Nat
      BY <1>1
    <3>3. CASE m <= k
      BY <1>1, <1>3, <3>1, <3>2, <3>3
    <3>4. CASE ~(m <= k)
      <4>1. \A other \in kept : k <= other
        BY <1>1, <3>1, <3>2, <3>4
      <4> QED BY <1>1, <1>3, <4>1
    <3> QED BY <3>3, <3>4
  <2> QED BY <2>1, <2>2
<1> QED BY <1>2, <1>4 DEF Store, Web, Mobile

\* The slot takes the key, and drops the one before.
LEMMA SlotTakes ==
  ASSUME Store, NEW k \in generated, kept' = {k}, UNCHANGED <<generated, platform>>
  PROVE  Store'
<1>1. k \in Nat
  BY KeysAssumption DEF Store
<1>2. loadMyKeyPair' = {j \in {k} : \A other \in {k} : j <= other}
  BY DEF loadMyKeyPair
<1>3. IsFiniteSet({k})
  BY FS_Singleton
<1> QED BY <1>1, <1>2, <1>3 DEF Store, Mobile

LEMMA StoreStays ==
  ASSUME Store, UNCHANGED <<kept, platform>>, generated \subseteq generated', generated' \subseteq Keys
  PROVE  Store' /\ loadMyKeyPair' = loadMyKeyPair /\ Loaded' = Loaded
BY DEF Store, loadMyKeyPair, Loaded, loadIdentityKey, Mobile, Web

-----------------------------------------------------------------------------
(* The forms                                                               *)

LEMMA BeginKeeps ==
  ASSUME KeyInv, NEW a \in Attempts, NEW u \in Users, NEW k \in Keys,
         NEW kind \in {"login", "register"}, NEW pc \in {"store", "post"},
         Begins(a, kind, u, k, pc), generated' = generated \cup {k},
         pc = "post" => kind = "login" /\ k \in Loaded,
         Web /\ pc = "store" /\ kind = "login" => Loaded = {}
  PROVE  KeyInv'
<1> DEFINE begun == [pc |-> pc, kind |-> kind, user |-> u, key |-> k]
<1>1. /\ session = NoSession /\ attempt[a] = NoForm /\ attempt' = [attempt EXCEPT ![a] = begun]
      /\ contended' = (contended \/ \E b \in Attempts : attempt[b] # NoForm)
      /\ UNCHANGED <<platform, kept, accounts, devices, session, unsaved>>
  BY DEF Begins, FormShown, server
<1>2. Store /\ AttemptTypes
  BY DEF KeyInv
<1>3. generated' \subseteq Keys /\ generated \subseteq generated'
  BY <1>2 DEF Store
<1>4. Store' /\ Loaded' = Loaded
  BY <1>1, <1>2, <1>3, StoreStays
<1>5. begun \in Forms' /\ begun # NoForm /\ attempt'[a] = begun
      /\ \A b \in Attempts : b # a => attempt'[b] = attempt[b]
  BY <1>1, <1>2 DEF AttemptTypes, Forms, NoForm
<1>6. AttemptTypes'
  <2>1. Forms \subseteq Forms' /\ Sessions \subseteq Sessions'
    BY <1>1, <1>3 DEF Forms, Sessions
  <2>2. attempt' \in [Attempts -> {NoForm} \cup Forms']
    BY <1>1, <1>2, <1>5, <2>1 DEF AttemptTypes
  <2>3. devices' \subseteq accounts' \X generated'
    BY <1>1, <1>2, <1>3 DEF AttemptTypes
  <2>4. \A b \in Attempts : attempt'[b].pc = "answer" => attempt'[b].user \in accounts'
    BY <1>1, <1>2, <1>5 DEF AttemptTypes
  <2> QED BY <1>1, <1>2, <2>1, <2>2, <2>3, <2>4 DEF AttemptTypes
<1>7. pc = "post" => Loaded = {k} /\ k \in kept
  BY <1>2, FirstIsOne
<1>8. Web /\ pc = "store" /\ kind = "login" => kept = {}
  BY <1>2, EmptyStore
<1>9. KeysHere'
  BY <1>1, <1>5, <1>7 DEF KeyInv, KeysHere, Web
<1>10. Alone'
  BY <1>1, <1>5 DEF KeyInv, Alone
<1>11. FormPresents(a)'
  BY <1>1, <1>4, <1>5, <1>7, <1>8 DEF FormPresents, Fits, Mobile, Web
<1>12. Presented'
  <2>1. SUFFICES ASSUME ~contended', NEW b \in Attempts, attempt'[b] # NoForm PROVE b = a
    BY <1>1, <1>11 DEF Presented
  <2> QED BY <1>1, <1>5, <2>1
<1> QED BY <1>4, <1>6, <1>9, <1>10, <1>12 DEF KeyInv

\* What holds of a form when it has gone on and its key is where it should be.
LEMMA GoesKeeps ==
  ASSUME KeyInv, NEW a \in Attempts, NEW pc \in {"post", "answer"}, attempt[a] # NoForm, Goes(a, pc),
         Store', AttemptTypes', UNCHANGED <<platform, session>>,
         contended => contended', unsaved => unsaved', kept \subseteq kept' \/ Mobile,
         Web => attempt[a].key \in kept' /\ \A d \in devices' : d[2] \in kept',
         ~contended' /\ ~unsaved' => Fits(attempt[a].kind, attempt[a].key)'
  PROVE  KeyInv'
<1>1. attempt[a] \in Forms /\ NoForm \notin Forms
  BY DEF KeyInv, AttemptTypes, Forms, NoForm
<1>2. /\ attempt'[a] # NoForm /\ attempt'[a].pc = pc
      /\ attempt'[a].kind = attempt[a].kind /\ attempt'[a].key = attempt[a].key
      /\ \A b \in Attempts : b # a => attempt'[b] = attempt[b]
  BY <1>1 DEF KeyInv, AttemptTypes, Goes, Forms, NoForm
<1>3. KeysHere'
  BY <1>2 DEF KeyInv, KeysHere, Web, Mobile
<1>4. Alone'
  BY <1>2 DEF KeyInv, Alone
<1>5. ASSUME ~contended', ~unsaved' PROVE FormPresents(a)'
  BY <1>2, <1>5 DEF FormPresents, Fits
<1>6. ASSUME ~contended' PROVE session' = NoSession /\ \A b \in Attempts : b # a => attempt'[b] = NoForm
  BY <1>2, <1>6 DEF KeyInv, Alone
<1>7. Presented'
  BY <1>5, <1>6 DEF Presented
<1> QED BY <1>3, <1>4, <1>7 DEF KeyInv

LEMMA FormTypes ==
  ASSUME AttemptTypes, NEW a \in Attempts, attempt[a] # NoForm
  PROVE  /\ attempt[a] \in Forms /\ attempt[a].key \in generated /\ attempt[a].user \in Users
         /\ attempt[a].kind \in {"login", "register"}
         /\ \A pc \in {"post", "answer"} : [attempt EXCEPT ![a].pc = pc] \in [Attempts -> {NoForm} \cup Forms]
<1>1. attempt[a] \in Forms
  BY DEF AttemptTypes
<1>2. \A pc \in {"post", "answer"} : [attempt[a] EXCEPT !.pc = pc] \in Forms
  BY <1>1 DEF Forms
<1> QED BY <1>1, <1>2 DEF Forms, AttemptTypes

LEMMA AnswersStay ==
  ASSUME AttemptTypes, NEW a \in Attempts, attempt[a] # NoForm, NEW pc \in {"post", "answer"}, Goes(a, pc),
         accounts \subseteq accounts', pc = "answer" => attempt[a].user \in accounts'
  PROVE  \A b \in Attempts : attempt'[b].pc = "answer" => attempt'[b].user \in accounts'
<1>1. attempt[a] \in Forms
  BY FormTypes
<1>2. attempt'[a].user = attempt[a].user /\ attempt'[a].pc = pc
  BY <1>1 DEF AttemptTypes, Goes, Forms
<1>3. \A b \in Attempts : b # a => attempt'[b] = attempt[b]
  BY DEF AttemptTypes, Goes
<1> QED BY <1>2, <1>3 DEF AttemptTypes

LEMMA WebStoresKeeps ==
  ASSUME KeyInv, NEW a \in Attempts, WebStores(a)
  PROVE  KeyInv'
<1>1. /\ Web /\ attempt[a].pc = "store" /\ kept' = kept \cup {attempt[a].key} /\ Goes(a, "post")
      /\ UNCHANGED <<platform, generated, accounts, devices, session, contended, unsaved>>
  BY DEF WebStores, storeKeyPair, server, onboarding_history
<1>2. attempt[a] # NoForm
  BY <1>1 DEF NoForm
<1>3. Store /\ AttemptTypes
  BY DEF KeyInv
<1>4. PICK k : k = attempt[a].key
  OBVIOUS
<1>5. k \in generated /\ [attempt EXCEPT ![a].pc = "post"] \in [Attempts -> {NoForm} \cup Forms]
  BY <1>2, <1>3, <1>4, FormTypes
<1>6. Store'
  BY <1>1, <1>3, <1>4, <1>5, StoreGrows
<1>7. Forms' = Forms /\ Sessions' = Sessions /\ attempt' \in [Attempts -> {NoForm} \cup Forms]
  BY <1>1, <1>5 DEF Forms, Sessions, Goes
<1>8. AttemptTypes'
  <2>1. \A b \in Attempts : attempt'[b].pc = "answer" => attempt'[b].user \in accounts'
    BY <1>1, <1>2, <1>3, AnswersStay
  <2> QED BY <1>1, <1>3, <1>7, <2>1 DEF AttemptTypes
<1>9. ASSUME attempt[a].kind = "login", ~contended, ~unsaved PROVE Loaded' = {k}
  <2>1. kept' = {k}
    BY <1>1, <1>2, <1>4, <1>9 DEF KeyInv, Presented, FormPresents, Web
  <2>2. k \in Nat
    BY <1>3, <1>5, KeysAssumption DEF Store
  <2>3. Loaded' = {j \in {k} : \A other \in {k} : j <= other}
    BY <1>1, <2>1 DEF Loaded, loadMyKeyPair, Web
  <2> QED BY <2>2, <2>3
<1>10. ~contended' /\ ~unsaved' => Fits(attempt[a].kind, attempt[a].key)'
  <2>1. attempt'[a].kind = attempt[a].kind /\ attempt'[a].key = k
    BY <1>1, <1>2, <1>3, <1>4, FormTypes DEF Goes, AttemptTypes, Forms
  <2>2. ~Mobile' /\ k \in kept'
    BY <1>1, <1>4 DEF Web, Mobile
  <2> QED BY <1>1, <1>9, <2>1, <2>2 DEF Fits
<1>11. \A d \in devices' : d[2] \in kept'
  BY <1>1 DEF KeyInv, KeysHere
<1> QED BY <1>1, <1>2, <1>6, <1>8, <1>10, <1>11, GoesKeeps

LEMMA MobileStoresKeeps ==
  ASSUME KeyInv, NEW a \in Attempts, NEW saved \in BOOLEAN, MobileStores(a, saved)
  PROVE  KeyInv'
<1>1. /\ Mobile /\ attempt[a].pc = "store" /\ Goes(a, "post")
      /\ kept' = (IF saved THEN {attempt[a].key} ELSE kept) /\ unsaved' = (unsaved \/ ~saved)
      /\ UNCHANGED <<platform, generated, accounts, devices, session, contended>>
  BY DEF MobileStores, storeIdentityKey, server
<1>2. attempt[a] # NoForm
  BY <1>1 DEF NoForm
<1>3. Store /\ AttemptTypes
  BY DEF KeyInv
<1>4. PICK k : k = attempt[a].key
  OBVIOUS
<1>5. k \in generated /\ [attempt EXCEPT ![a].pc = "post"] \in [Attempts -> {NoForm} \cup Forms]
  BY <1>2, <1>3, <1>4, FormTypes
<1>6. Store'
  <2>1. CASE saved
    BY <1>1, <1>3, <1>4, <1>5, <2>1, SlotTakes
  <2>2. CASE ~saved
    BY <1>1, <1>3, <2>2, StoreStays DEF Store
  <2> QED BY <2>1, <2>2
<1>7. Forms' = Forms /\ Sessions' = Sessions /\ attempt' \in [Attempts -> {NoForm} \cup Forms]
  BY <1>1, <1>5 DEF Forms, Sessions, Goes
<1>8. AttemptTypes'
  <2>1. \A b \in Attempts : attempt'[b].pc = "answer" => attempt'[b].user \in accounts'
    BY <1>1, <1>2, <1>3, AnswersStay
  <2> QED BY <1>1, <1>3, <1>7, <2>1 DEF AttemptTypes
<1>9. ~Web /\ ~Web'
  BY <1>1 DEF Web, Mobile
<1>10. ~contended' /\ ~unsaved' => Fits(attempt[a].kind, attempt[a].key)'
  <2>1. attempt'[a].key = k
    BY <1>1, <1>2, <1>3, <1>4, FormTypes DEF Goes, AttemptTypes, Forms
  <2>2. ~unsaved' => kept' = {k}
    BY <1>1, <1>4
  <2> QED BY <1>9, <2>1, <2>2 DEF Fits, Loaded, loadIdentityKey
<1> QED BY <1>1, <1>2, <1>6, <1>8, <1>9, <1>10, GoesKeeps

\* The server has taken the form.
LEMMA AcceptedKeeps ==
  ASSUME KeyInv, NEW a \in Attempts, Registered(a) \/ LoggedIn(a)
  PROVE  KeyInv'
<1>1. /\ attempt[a].pc = "post" /\ Goes(a, "answer")
      /\ accounts' = accounts \cup {attempt[a].user}
      /\ devices' = devices \cup {<<attempt[a].user, attempt[a].key>>}
      /\ UNCHANGED <<platform, kept, generated, session, contended, unsaved>>
  BY DEF Registered, LoggedIn, onboarding_history
<1>2. attempt[a] # NoForm
  BY <1>1 DEF NoForm
<1>3. Store /\ AttemptTypes
  BY DEF KeyInv
<1>4. PICK k, u : k = attempt[a].key /\ u = attempt[a].user
  OBVIOUS
<1>5. k \in generated /\ u \in Users /\ [attempt EXCEPT ![a].pc = "answer"] \in [Attempts -> {NoForm} \cup Forms]
  BY <1>2, <1>3, <1>4, FormTypes
<1>6. Store' /\ Loaded' = Loaded
  BY <1>1, <1>3, StoreStays DEF Store
<1>7. Forms' = Forms /\ Sessions \subseteq Sessions' /\ attempt' \in [Attempts -> {NoForm} \cup Forms]
  BY <1>1, <1>5 DEF Forms, Sessions, Goes
<1>8. devices' \subseteq accounts' \X generated' /\ accounts' \subseteq Users
  BY <1>1, <1>3, <1>4, <1>5 DEF AttemptTypes
<1>9. AttemptTypes'
  <2>1. \A b \in Attempts : attempt'[b].pc = "answer" => attempt'[b].user \in accounts'
    BY <1>1, <1>2, <1>3, AnswersStay
  <2> QED BY <1>1, <1>3, <1>7, <1>8, <2>1 DEF AttemptTypes
<1>10. ASSUME Web PROVE k \in kept' /\ \A d \in devices' : d[2] \in kept'
  BY <1>1, <1>2, <1>4, <1>10 DEF KeyInv, KeysHere
<1>11. ASSUME ~contended', ~unsaved' PROVE Fits(attempt[a].kind, attempt[a].key)'
  <2>1. attempt'[a].kind = attempt[a].kind /\ attempt'[a].key = attempt[a].key
    BY <1>1, <1>2, <1>3, FormTypes DEF Goes, AttemptTypes, Forms
  <2>2. Fits(attempt[a].kind, attempt[a].key)
    BY <1>1, <1>2, <1>11 DEF KeyInv, Presented, FormPresents
  <2> QED BY <1>1, <1>6, <2>1, <2>2 DEF Fits, Mobile
<1> QED BY <1>1, <1>2, <1>4, <1>6, <1>9, <1>10, <1>11, GoesKeeps

\* Forms that end, and sessions that end, take nothing away.
LEMMA EndsKeep ==
  ASSUME KeyInv, attempt' \in [Attempts -> {NoForm} \cup Forms],
         \A a \in Attempts : attempt'[a] = NoForm \/ attempt'[a] = attempt[a],
         session' \in {session, NoSession},
         UNCHANGED <<platform, kept, generated, accounts, devices, contended, unsaved>>
  PROVE  KeyInv'
<1>1. Store' /\ Loaded' = Loaded
  BY StoreStays DEF KeyInv, Store
<1>2. AttemptTypes'
  BY DEF KeyInv, AttemptTypes, Forms, Sessions, NoForm
<1>3. KeysHere'
  BY DEF KeyInv, KeysHere, Web
<1>4. Alone'
  BY DEF KeyInv, Alone
<1>5. Presented'
  BY <1>1 DEF KeyInv, Presented, FormPresents, Fits, Mobile, Web
<1> QED BY <1>1, <1>2, <1>3, <1>4, <1>5 DEF KeyInv

LEMMA SucceedsKeeps ==
  ASSUME KeyInv, NEW a \in Attempts, Succeeds(a)
  PROVE  KeyInv'
<1>1. /\ attempt[a].pc = "answer" /\ attempt' = [attempt EXCEPT ![a] = NoForm]
      /\ session' = [user |-> attempt[a].user, key |-> attempt[a].key, by |-> attempt[a].kind]
      /\ UNCHANGED <<platform, kept, generated, accounts, devices, contended, unsaved>>
  BY DEF Succeeds, server, onboarding_history
<1>2. attempt[a] # NoForm
  BY <1>1 DEF NoForm
<1>3. Store /\ AttemptTypes
  BY DEF KeyInv
<1>4. /\ attempt[a].key \in generated /\ attempt[a].kind \in {"login", "register"}
      /\ attempt[a].user \in accounts
  BY <1>1, <1>2, <1>3, FormTypes DEF AttemptTypes
<1>5. PICK s \in Sessions : s = [user |-> attempt[a].user, key |-> attempt[a].key, by |-> attempt[a].kind]
  BY <1>4 DEF Sessions
<1>6. s.by = attempt[a].kind /\ s.key = attempt[a].key /\ session' = s
  BY <1>1, <1>5
<1>7. attempt'[a] = NoForm /\ \A b \in Attempts : b # a => attempt'[b] = attempt[b]
  BY <1>1, <1>3 DEF AttemptTypes
<1>8. Store' /\ Loaded' = Loaded
  BY <1>1, <1>3, StoreStays DEF Store
<1>9. AttemptTypes'
  <2>1. Forms' = Forms /\ Sessions' = Sessions
    BY <1>1 DEF Forms, Sessions
  <2>2. attempt' \in [Attempts -> {NoForm} \cup Forms]
    BY <1>1, <1>3 DEF AttemptTypes
  <2>3. \A b \in Attempts : attempt'[b].pc = "answer" => attempt'[b].user \in accounts'
    BY <1>1, <1>3, <1>7 DEF AttemptTypes, NoForm
  <2> QED BY <1>1, <1>3, <1>6, <2>1, <2>2, <2>3 DEF AttemptTypes
<1>10. KeysHere'
  BY <1>1, <1>7 DEF KeyInv, KeysHere, Web
<1>11. ~contended' => \A b \in Attempts : attempt'[b] = NoForm
  BY <1>1, <1>2, <1>7 DEF KeyInv, Alone
<1>12. Alone'
  BY <1>11 DEF Alone
<1>13. ASSUME ~contended', ~unsaved' PROVE Fits(s.by, s.key)'
  <2>1. Fits(attempt[a].kind, attempt[a].key)
    BY <1>1, <1>2, <1>13 DEF KeyInv, Presented, FormPresents
  <2> QED BY <1>1, <1>6, <1>8, <2>1 DEF Fits, Mobile
<1>14. Presented'
  BY <1>6, <1>11, <1>13 DEF Presented
<1> QED BY <1>8, <1>9, <1>10, <1>12, <1>14 DEF KeyInv

-----------------------------------------------------------------------------
(* Steps                                                                   *)

\* The four forms begin in two ways: with a key of the store, or a new one.
LEMMA BeginningKeeps ==
  ASSUME KeyInv, NEW a \in Attempts, NEW u \in Users,
         \/ WebLogin(a, u) \/ WebRegister(a, u) \/ MobileRegister(a, u)
         \/ \E read \in BOOLEAN : MobileLogin(a, u, read)
  PROVE  KeyInv'
<1>1. CASE \E k \in Loaded : Begins(a, "login", u, k, "post") /\ UNCHANGED generated
  <2>1. PICK k \in Loaded : Begins(a, "login", u, k, "post") /\ UNCHANGED generated
    BY <1>1
  <2>2. k \in Keys /\ generated' = generated \cup {k}
    BY <2>1, FirstIsOne DEF KeyInv, Store
  <2> QED BY <2>1, <2>2, BeginKeeps
<1>2. CASE /\ Mobile \/ Loaded = {}
          /\ \E k \in Keys : Generates(k) /\ Begins(a, "login", u, k, "store")
  BY <1>2, BeginKeeps DEF Generates, Web, Mobile
<1>3. CASE \E k \in Keys : Generates(k) /\ Begins(a, "register", u, k, "store")
  BY <1>3, BeginKeeps DEF Generates
<1> QED BY <1>1, <1>2, <1>3 DEF WebLogin, MobileLogin, WebRegister, MobileRegister, StoredKey

LEMMA OnboardingKeeps ==
  ASSUME KeyInv, [OnboardingNext]_onboarding_vars
  PROVE  KeyInv'
<1>1. attempt \in [Attempts -> {NoForm} \cup Forms]
  BY DEF KeyInv, AttemptTypes
<1>2. ASSUME NEW a \in Attempts, NEW u \in Users,
             \/ WebLogin(a, u) \/ WebRegister(a, u) \/ MobileRegister(a, u)
             \/ \E read \in BOOLEAN : MobileLogin(a, u, read)
      PROVE  KeyInv'
  BY <1>2, BeginningKeeps
<1>3. ASSUME NEW a \in Attempts, WebStores(a) PROVE KeyInv'
  BY <1>3, WebStoresKeeps
<1>4. ASSUME NEW a \in Attempts, NEW saved \in BOOLEAN, MobileStores(a, saved) PROVE KeyInv'
  BY <1>4, MobileStoresKeeps
<1>5. ASSUME NEW a \in Attempts, Registered(a) \/ LoggedIn(a) PROVE KeyInv'
  BY <1>5, AcceptedKeeps
<1>6. ASSUME NEW a \in Attempts, Fails(a) PROVE KeyInv'
  BY <1>1, <1>6, EndsKeep DEF Fails, server, onboarding_history
<1>7. ASSUME NEW a \in Attempts, Succeeds(a) PROVE KeyInv'
  BY <1>7, SucceedsKeeps
<1>8. CASE LogsOut
  BY <1>1, <1>8, EndsKeep DEF LogsOut, server, onboarding_history
<1>9. CASE Restarts
  BY <1>1, <1>9, EndsKeep DEF Restarts, server, onboarding_history
<1>10. CASE UNCHANGED onboarding_vars
  BY <1>1, <1>10, EndsKeep DEF onboarding_vars, server, onboarding_history
<1> QED BY <1>2, <1>3, <1>4, <1>5, <1>6, <1>7, <1>8, <1>9, <1>10 DEF OnboardingNext

\* The inductive invariant of the forms and the key store.
THEOREM KeyInvariance == OnboardingSpec => []KeyInv
<1>1. OnboardingInit => KeyInv
  BY InitKeyInv
<1>2. KeyInv /\ [OnboardingNext]_onboarding_vars => KeyInv'
  BY OnboardingKeeps
<1> QED BY <1>1, <1>2, PTL DEF OnboardingSpec

\* Whatever failed, was interrupted or belonged to another account before, the
\* key in use is the one the server shows for the device, and a browser has
\* the key of each device (e2ee.ts loadMyKeyPair, the login and register forms).
THEOREM KeyIsTheDevices == OnboardingSpec => []KeyMatchesDevice
<1>1. ASSUME KeyInv PROVE OnboardingTypeOK
  <2>1. Mobile => Cardinality(kept) <= 1
    <3>1. SUFFICES ASSUME Mobile PROVE Cardinality(kept) <= 1
      OBVIOUS
    <3>2. CASE kept = {}
      BY <3>2, FS_EmptySet
    <3>3. CASE kept # {}
      <4>1. PICK k : kept = {k}
        BY <1>1, <3>1, <3>3 DEF KeyInv, Store
      <4>2. Cardinality({k}) = 1
        BY FS_Singleton
      <4> QED BY <4>1, <4>2
    <3> QED BY <3>2, <3>3
  <2> QED BY <1>1, <2>1 DEF KeyInv, Store, AttemptTypes, Forms, Sessions, OnboardingTypeOK
<1>2. ASSUME KeyInv, session # NoSession, ~contended, ~unsaved,
             Mobile \/ session.by = "login" \/ Cardinality(kept) = 1
      PROVE  Loaded = {session.key}
  <2>1. Fits(session.by, session.key)
    BY <1>2 DEF KeyInv, Presented
  <2>2. CASE Mobile \/ session.by = "login"
    BY <2>1, <2>2 DEF Fits
  <2>3. CASE Cardinality(kept) = 1
    <3>1. kept = {session.key}
      BY <1>2, <2>1, <2>3, FS_Singleton DEF KeyInv, Store, Fits
    <3>2. Loaded # {}
      BY <1>2, <3>1 DEF KeyInv, Store, Loaded, loadIdentityKey
    <3> QED BY <3>1, <3>2 DEF Loaded, loadIdentityKey, loadMyKeyPair
  <2> QED BY <1>2, <2>2, <2>3
<1>3. KeyInv => KeyMatchesDevice
  BY <1>1, <1>2 DEF KeyInv, KeysHere, KeyMatchesDevice
<1> QED BY <1>3, KeyInvariance, PTL
=============================================================================
