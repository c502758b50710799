------------------------------ MODULE WsClient ------------------------------
(***************************************************************************)
(* The connection of one running client, a browser tab or the mobile app:  *)
(* the WebSocketClient singleton (shared/api/websocket.ts), the shared     *)
(* refresh of the access token (shared/api/auth.ts, client.ts), the        *)
(* persisted store (shared/store/auth.ts), and the effects that start and  *)
(* stop the connection (ChatsPage.tsx, navigation/index.tsx).              *)
(*                                                                         *)
(* JavaScript runs one task at a time: a step is a task, except that the   *)
(* answer of a refresh and the continuations that awaited it are steps of  *)
(* their own, between which only React's effects may run (Idle).  Back-off *)
(* delays are abstracted: a timer fires at some time.                      *)
(***************************************************************************)
EXTENDS Naturals, FiniteSets, Clients

CONSTANTS Sockets,     \* WebSocket objects that can exist at one time
          MaxLogins,   \* bound on logins
          MaxExpiries, \* bound on access tokens that expire
          MaxAwaiting  \* bound on handleClose() calls awaiting one refresh

ASSUME SocketsAssumption == IsFiniteSet(Sockets) /\ None \notin Sockets
ASSUME BoundsAssumption == {MaxLogins, MaxExpiries, MaxAwaiting} \subseteq Nat

VARIABLES
  store,     \* useAuthStore; a login stands for its tokens and ids, 0 for null
  form,      \* the login form: "idle" or "sent"
  inflight,  \* refreshPromise: the login whose token was posted, 0 for null
  answer,    \* what the continuations due now were given, "none" if none is due
  client,    \* wsClient: its fields, its sockets, and open() calls that await
  closers,   \* handleClose() calls that await the refresh
  mounted,   \* the effect that connects is in force: its cleanup is due (web:
             \* ChatsPage is rendered; phone: its last run found a token)
  dirty,     \* accessToken changed since that component's effect ran
  logins,    \* logins so far
  expiries,  \* tokens expired so far
  crossed,   \* a login or logout came while a refresh was in flight (history)
  overlapped \* open() ran while a socket's close was awaited, or disconnect()
             \* while open() was awaiting the refresh (history)

vars == <<platform, store, form, inflight, answer, client, closers, mounted, dirty,
          logins, expiries, crossed, overlapped>>

Logins == 1..MaxLogins
SocketStates == {"free", "connecting", "open", "closing"}

TypeOK ==
  /\ platform \in Platforms
  /\ store \in [access : {"none", "fresh", "stale"}, refresh : 0..MaxLogins,
                user : 0..MaxLogins, initialized : BOOLEAN]
  /\ form \in {"idle", "sent"}
  /\ inflight \in 0..MaxLogins
  /\ answer \in {"none", "token", "null"}
  /\ client \in [ws : Sockets \cup {None}, should : BOOLEAN, connecting : BOOLEAN,
                 timer : BOOLEAN, opens : 0..Cardinality(Sockets), sock : [Sockets -> SocketStates]]
  /\ closers \in 0..MaxAwaiting
  /\ mounted \in BOOLEAN /\ dirty \in BOOLEAN
  /\ logins \in 0..MaxLogins /\ expiries \in 0..MaxExpiries
  /\ crossed \in BOOLEAN /\ overlapped \in BOOLEAN

-----------------------------------------------------------------------------
(* The store                                                               *)

\* DEFECT (mutant): the ids of the user are not persisted.
partializeTokens(s) == [s EXCEPT !.access = "none", !.user = 0, !.initialized = FALSE]

\* What is left of a store after a reload: the access token is not persisted.
partialize(s) == [s EXCEPT !.access = "none", !.initialized = FALSE]

setTokens(s, l) == [s EXCEPT !.access = "fresh", !.refresh = l, !.initialized = TRUE]

setSession(s, l) == [setTokens(s, l) EXCEPT !.user = l]

setInitialized(s) == [s EXCEPT !.initialized = TRUE]

LoggedOut == [access |-> "none", refresh |-> 0, user |-> 0, initialized |-> TRUE]

-----------------------------------------------------------------------------
(* wsClient                                                                *)

NewClient == [ws |-> None, should |-> FALSE, connecting |-> FALSE, timer |-> FALSE,
              opens |-> 0, sock |-> [s \in Sockets |-> "free"]]

Free(c) == {s \in Sockets : c.sock[s] = "free"}
Live(c) == {s \in Sockets : c.sock[s] \in {"connecting", "open"}}

\* new WebSocket(url): the socket becomes this.ws.
Creates(c, s) == [c EXCEPT !.ws = s, !.sock[s] = "connecting"]

\* DEFECT (mutant): a token that is no longer fresh is used as it is.
FreshAnyToken == store.access # "none"

\* isTokenFresh: the access token is there and does not expire within seconds.
Fresh == store.access = "fresh"

\* Bound: there is a socket left for every open() that awaits, and one more.
Room(c) == Cardinality(Free(c)) > c.opens

\* open() up to its first wait: a fresh token is there at once, another one
\* must be refreshed, and without a refresh token the call gives up.
Open(c) ==
  IF ~Fresh /\ store.refresh = 0 THEN {[c EXCEPT !.connecting = FALSE]}
  ELSE IF ~Room(c) THEN {}
  ELSE IF Fresh THEN {Creates([c EXCEPT !.connecting = TRUE], s) : s \in Free(c)}
  ELSE {[c EXCEPT !.connecting = TRUE, !.opens = @ + 1]}

\* DEFECT (mutant): connect() does not look at the socket it already has.
BusyWhileConnecting(c) == c.connecting

Busy(c) == c.connecting \/ c.ws \in Live(c)

Connect(c) ==
  LET wanted == [c EXCEPT !.should = TRUE]
  IN IF Busy(c) THEN {wanted} ELSE Open(wanted)

Close(c, s) == IF s \in Live(c) THEN [c EXCEPT !.sock[s] = "closing"] ELSE c

\* DEFECT (mutant): the reconnect timer is left running.
DisconnectKeepsTimer(c) == [Close(c, c.ws) EXCEPT !.should = FALSE, !.ws = None]

Disconnect(c) == [Close(c, c.ws) EXCEPT !.should = FALSE, !.timer = FALSE, !.ws = None]

\* scheduleReconnect
Scheduled(c) == IF c.should THEN [c EXCEPT !.timer = TRUE] ELSE c

-----------------------------------------------------------------------------
(* The shared refresh                                                      *)

\* Continuations run before any other task.
Idle == answer = "none"

\* refreshAccessToken called by someone who awaits it: only the first of
\* overlapping calls posts the token.
Posts(calls) == inflight' = IF calls /\ inflight = 0 THEN store.refresh ELSE inflight

\* The client moves to one of `next', posting if another open() awaits.
Becomes(next) == \E c \in next : client' = c /\ Posts(c.opens > client.opens)

\* Overlaps that the history records: open() runs while the close event of
\* another socket is still to come, and disconnect() during open()'s wait.
Overlaps(c) ==
  \/ /\ \E s \in Sockets : c.sock[s] = "closing"
     /\ c.opens > client.opens \/ Live(c) \ Live(client) # {}
  \/ client.should /\ client.opens > 0 /\ ~c.should

Init ==
  /\ platform \in Platforms
  /\ store = [access |-> "none", refresh |-> 0, user |-> 0, initialized |-> FALSE]
  /\ form = "idle" /\ inflight = 0 /\ answer = "none"
  /\ client = NewClient /\ closers = 0
  /\ mounted = FALSE /\ dirty = FALSE
  /\ logins = 0 /\ expiries = 0 /\ crossed = FALSE /\ overlapped = FALSE

page == <<platform, form, mounted>>
history == <<logins, expiries, crossed, overlapped>>

\* What the store is after the answer: also when it was logged out, or logged
\* in again, while the request was on its way.
Answered(ok) == IF ok THEN setTokens(store, inflight) ELSE LoggedOut

RefreshAnswered(ok) ==
  /\ Idle /\ inflight # 0
  /\ store' = Answered(ok)
  /\ inflight' = 0
  /\ answer' = IF client.opens + closers = 0 THEN "none" ELSE IF ok THEN "token" ELSE "null"
  /\ dirty' = (dirty \/ ok \/ store.access # "none")
  /\ UNCHANGED <<page, client, closers, history>>

Resumed == IF client.opens + closers = 1 THEN "none" ELSE answer

\* open() goes on, whatever disconnect() said while it waited.
OpenResumes ==
  /\ answer # "none" /\ client.opens > 0
  /\ LET c == [client EXCEPT !.opens = @ - 1]
     IN client' \in IF answer = "token" THEN {Creates(c, s) : s \in Free(c)}
                    ELSE {[c EXCEPT !.connecting = FALSE]}
  /\ answer' = Resumed
  /\ overlapped' = (overlapped \/ Overlaps(client'))
  /\ UNCHANGED <<page, store, inflight, closers, dirty, logins, expiries, crossed>>

CloseResumes ==
  /\ answer # "none" /\ closers > 0
  /\ closers' = closers - 1
  /\ client' = IF answer = "token" THEN Scheduled(client) ELSE client
  /\ answer' = Resumed
  /\ UNCHANGED <<page, store, inflight, dirty, history>>

\* The response interceptor: a request without a valid token was answered 401.
ApiUnauthorized ==
  /\ Idle /\ store.access # "fresh" /\ store.refresh # 0 /\ inflight = 0
  /\ Posts(TRUE)
  /\ UNCHANGED <<page, store, answer, client, closers, dirty, history>>

\* Time passes: the access token expires, or will within seconds.
TokenExpires ==
  /\ Idle /\ store.access = "fresh" /\ expiries < MaxExpiries
  /\ store' = [store EXCEPT !.access = "stale"]
  /\ expiries' = expiries + 1
  /\ UNCHANGED <<page, inflight, answer, client, closers, dirty, logins, crossed, overlapped>>

-----------------------------------------------------------------------------
(* Sockets                                                                 *)

SocketOpens(s) ==
  /\ Idle /\ client.sock[s] = "connecting"
  /\ client' = [client EXCEPT !.sock[s] = "open", !.connecting = FALSE]
  /\ UNCHANGED <<page, store, inflight, answer, closers, dirty, history>>

\* onerror closes this.ws, which need not be the socket that failed.
Errs(c, s) == IF c.ws # s THEN Close(c, c.ws) ELSE c

\* DEFECT (mutant): isConnecting stays set when a handshake fails.
AfterCloseStillConnecting(c, s) == [c EXCEPT !.sock[s] = "free", !.ws = None]

\* onclose forgets this.ws, which need not be the socket that closed.
AfterClose(c, s) == [c EXCEPT !.sock[s] = "free", !.ws = None, !.connecting = FALSE]

MobileQuits == platform = "mobile" /\ store.access = "none"

RefreshesFirst(code) == code = 4001 \/ store.access = "none"

\* The end of a socket: a failed handshake (always an error), the close the
\* client asked for, or a connection lost.  4001 refuses a handshake.
SocketCloses(s, code, failed) ==
  /\ Idle /\ client.sock[s] # "free"
  /\ client.sock[s] = "connecting" => failed
  /\ code = 4001 => client.sock[s] = "connecting"
  /\ LET c == AfterClose(IF failed THEN Errs(client, s) ELSE client, s)
         quits == ~c.should \/ MobileQuits
         asks == ~quits /\ RefreshesFirst(code) /\ store.refresh # 0
     IN /\ asks => closers < MaxAwaiting
        /\ closers' = closers + (IF asks THEN 1 ELSE 0)
        /\ Posts(asks)
        /\ client' = IF quits \/ RefreshesFirst(code) THEN c ELSE Scheduled(c)
  /\ UNCHANGED <<page, store, answer, dirty, history>>

TimerFires ==
  /\ Idle /\ client.timer
  /\ Becomes(Connect([client EXCEPT !.timer = FALSE]))
  /\ overlapped' = (overlapped \/ Overlaps(client'))
  /\ UNCHANGED <<page, store, answer, closers, dirty, logins, expiries, crossed>>

-----------------------------------------------------------------------------
(* The application                                                         *)

\* Mobile: the store is read from the secure storage.  Web: bootstrap() first
\* exchanges a stored refresh token, and the answer initializes the store.
Rehydrated ==
  /\ platform = "mobile" /\ ~store.initialized
  /\ store' = setInitialized(store)
  /\ UNCHANGED <<page, inflight, answer, client, closers, dirty, history>>

Bootstrap ==
  /\ platform = "web" /\ ~store.initialized /\ inflight = 0
  /\ IF store.refresh = 0 \/ store.access # "none"
     THEN store' = setInitialized(store) /\ UNCHANGED inflight
     ELSE Posts(TRUE) /\ UNCHANGED store
  /\ UNCHANGED <<page, answer, client, closers, dirty, history>>

\* Login and registration forms are shown to guests only.
SubmitForm ==
  /\ Idle /\ store.initialized /\ store.access = "none" /\ form = "idle"
  /\ logins < MaxLogins
  /\ form' = "sent"
  /\ UNCHANGED <<platform, store, inflight, answer, client, closers, mounted, dirty, history>>

LoginSucceeds ==
  /\ Idle /\ form = "sent"
  /\ form' = "idle"
  /\ logins' = logins + 1
  /\ store' = setSession(store, logins')
  /\ crossed' = (crossed \/ inflight # 0)
  /\ dirty' = TRUE
  /\ UNCHANGED <<platform, inflight, answer, client, closers, mounted, expiries, overlapped>>

\* A refused login is a 401 like any other for the interceptor.
LoginFails ==
  /\ Idle /\ form = "sent"
  /\ form' = "idle"
  /\ Posts(store.refresh # 0)
  /\ UNCHANGED <<platform, store, answer, client, closers, mounted, dirty, history>>

\* RequireAuth and RequireGuest: ChatsPage is reached with an access token.
EntersChats ==
  /\ platform = "web" /\ store.initialized /\ store.access # "none" /\ ~mounted
  /\ mounted' = TRUE /\ dirty' = FALSE
  /\ Becomes(Connect(client))
  /\ overlapped' = (overlapped \/ Overlaps(client'))
  /\ UNCHANGED <<platform, store, form, answer, closers, logins, expiries, crossed>>

LeavesChats ==
  /\ Idle /\ platform = "web" /\ mounted
  /\ mounted' = FALSE /\ dirty' = FALSE
  /\ client' = Disconnect(client)
  /\ overlapped' = (overlapped \/ Overlaps(client'))
  /\ UNCHANGED <<platform, store, form, inflight, answer, closers, logins, expiries, crossed>>

\* The cleanup of the effect's last run, which has none if there was no token.
CleanedUp == IF mounted THEN Disconnect(client) ELSE client

\* The effect on [accessToken]: the cleanup of the last run, and with a token
\* connect().  Without one the web client leaves for the login page.
EffectRuns ==
  /\ dirty /\ (Mobile \/ mounted)
  /\ dirty' = FALSE
  /\ mounted' = (store.access # "none")
  /\ Becomes(IF store.access = "none" THEN {CleanedUp} ELSE Connect(CleanedUp))
  /\ overlapped' = (overlapped \/ Overlaps(client') \/ Overlaps(CleanedUp))
  /\ UNCHANGED <<platform, store, form, answer, closers, logins, expiries, crossed>>

\* SettingsPage, when /auth/logout has been answered: the user may be back in
\* ChatsPage by then, whose effect disconnects.
WebLogout ==
  /\ Idle /\ platform = "web" /\ store.access # "none"
  /\ store' = LoggedOut
  /\ crossed' = (crossed \/ inflight # 0)
  /\ dirty' = TRUE
  /\ UNCHANGED <<page, inflight, answer, client, closers, logins, expiries, overlapped>>

\* The drawer and SettingsScreen, when /auth/logout has been answered.
MobileLogout ==
  /\ Idle /\ platform = "mobile" /\ store.access # "none"
  /\ client' = Disconnect(client)
  /\ store' = LoggedOut
  /\ crossed' = (crossed \/ inflight # 0)
  /\ overlapped' = (overlapped \/ Overlaps(client'))
  /\ dirty' = TRUE
  /\ UNCHANGED <<page, inflight, answer, closers, logins, expiries>>

\* The page is reloaded, or the app killed and started again.
Reload ==
  /\ store' = partialize(store)
  /\ form' = "idle" /\ inflight' = 0 /\ answer' = "none"
  /\ client' = NewClient /\ closers' = 0
  /\ mounted' = FALSE /\ dirty' = FALSE
  /\ UNCHANGED <<platform, history>>

Handshake == \E s \in Sockets : SocketOpens(s)
ClosesAsAsked == \E s \in Sockets, code \in {1000, 4001}, failed \in BOOLEAN :
                   client.sock[s] = "closing" /\ SocketCloses(s, code, failed)
Continuation == OpenResumes \/ CloseResumes

Next ==
  \/ \E ok \in BOOLEAN : RefreshAnswered(ok)
  \/ Continuation
  \/ ApiUnauthorized
  \/ TokenExpires
  \/ Handshake
  \/ \E s \in Sockets, code \in {1000, 4001}, failed \in BOOLEAN : SocketCloses(s, code, failed)
  \/ TimerFires
  \/ Rehydrated
  \/ Bootstrap
  \/ SubmitForm
  \/ LoginSucceeds
  \/ LoginFails
  \/ EntersChats
  \/ LeavesChats
  \/ EffectRuns
  \/ WebLogout
  \/ MobileLogout
  \/ Reload

SafetySpec == Init /\ [][Next]_vars

\* Requests are answered, continuations, effects and timers run, sockets told
\* to close do, and of the handshakes that go on being tried one succeeds.
Spec ==
  /\ SafetySpec
  /\ WF_vars(\E ok \in BOOLEAN : RefreshAnswered(ok))
  /\ WF_vars(Continuation)
  /\ WF_vars(EffectRuns)
  /\ WF_vars(TimerFires)
  /\ WF_vars(ClosesAsAsked)
  /\ SF_vars(Handshake)

-----------------------------------------------------------------------------
(* Properties                                                              *)

\* A reconnect is pending only while an effect wants the connection, although
\* timers are set by continuations of sockets that were given up long ago.
TimerWanted == TypeOK /\ (client.timer => client.should /\ mounted)

\* The tokens belong to the user whose ids are stored next to them, unless the
\* user logged in or out while a refresh was in flight: its answer then lands
\* in a store that is another login's.
TokensMatchUser == ~crossed => store.refresh = store.user

\* wsClient holds every live socket, so that disconnect() reaches it, unless
\* a socket was opened before the last one had reported its close, or one came
\* out of a wait that disconnect() did not end.
UncontendedOneSocket == ~overlapped => Live(client) \subseteq {client.ws}

\* Every handshake carries a token that is fresh in the store at that moment,
\* whoever logs in, out or refreshes meanwhile.
FreshHandshakes ==
  [][\A s \in Sockets : client.sock[s] = "free" /\ client'.sock[s] = "connecting"
       => store'.access = "fresh"]_vars

Wanted == (Mobile \/ mounted) /\ store.access # "none"
Connected == \E s \in Sockets : client.sock[s] = "open"

\* A page that wants the connection gets one, whatever failed before: no
\* interleaving of refreshes, closes and effects leaves the client idle.
StaysConnected == Wanted ~> (Connected \/ ~Wanted)

\* docs/MOBILE.md:117, "Logout: ... disconnect WS + clear Zustand store".
\* (Refuted: a socket that wsClient forgot outlives the logout.)
LogoutDisconnects == store.refresh = 0 /\ ~dirty => Live(client) = {}
=============================================================================
