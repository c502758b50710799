---------------------------- MODULE Connections ----------------------------
(***************************************************************************)
(* The WebSocket side of one backend process: the connection registry and  *)
(* the Redis subscriber of backend/app/modules/websocket/manager.py, and   *)
(* the endpoint of websocket/router.py.                                    *)
(*                                                                         *)
(* Everything runs on one event loop, so a step is what happens between    *)
(* two awaits.  The registry's asyncio.Lock is never held across an await  *)
(* and therefore never makes anyone wait.  Another process would be a copy *)
(* of this module that shares the channel and the presence keys.           *)
(***************************************************************************)
EXTENDS Integers, Sequences, FiniteSets

CONSTANTS Users, Sockets,
          UserOf,       \* UserOf[w]: the user the token of socket w names
          MaxEvents,    \* bound on events published
          MaxFailures,  \* bound on Redis failures and restarts
          None

ASSUME UserOfAssumption == UserOf \in [Sockets -> Users]
ASSUME BoundsAssumption == MaxEvents \in Nat /\ MaxFailures \in Nat
ASSUME NoneAssumption == None \notin Users

VARIABLES
  pc,          \* pc[w]: what the handler of w does next
  alive,       \* clients that have not gone away
  registry,    \* manager._connections
  gauge,       \* ws_active_connections
  presence,    \* users with a presence key in Redis
  subscriber,  \* redis_subscriber: starting, listening or dead
  feed,        \* pmessages Redis has for the subscriber
  relay,       \* the send_to_user in progress
  log,         \* log[u]: events published on u's channel to this process (history)
  received,    \* received[w]: events the client of w was sent             (history)
  joined,      \* joined[w]: events of log[UserOf[w]] too early for w      (history)
  events,      \* events published so far
  failures     \* failures so far

vars == <<pc, alive, registry, gauge, presence, subscriber, feed, relay, log, received,
          joined, events, failures>>

handlers == <<pc, registry, gauge, presence>>
channel  == <<subscriber, feed, log, events>>
clients  == <<alive, received, joined>>

Connected == {"presence", "hello", "serving"}
NoRelay == [user |-> None, event |-> 0, todo |-> {}, dead |-> {}]

TypeOK ==
  /\ pc \in [Sockets -> {"new", "leaving", "ended"} \cup Connected]
  /\ alive \subseteq Sockets
  /\ registry \in [Users -> SUBSET Sockets]
  /\ \A u \in Users : \A w \in registry[u] : UserOf[w] = u
  /\ gauge \in Int
  /\ presence \subseteq Users
  /\ subscriber \in {"starting", "listening", "dead"}
  /\ feed \in Seq([user : Users, event : Nat])
  /\ relay \in [user : Users \cup {None}, event : Nat,
                todo : SUBSET Sockets, dead : SUBSET Sockets]
  /\ relay.todo = {} => relay = NoRelay
  /\ log \in [Users -> Seq(Nat)]
  /\ received \in [Sockets -> Seq(Nat)]
  /\ joined \in [Sockets -> Nat]
  /\ events \in Nat
  /\ failures \in 0..MaxFailures

Init ==
  /\ pc = [w \in Sockets |-> "new"]
  /\ alive = Sockets
  /\ registry = [u \in Users |-> {}]
  /\ gauge = 0
  /\ presence = {}
  /\ subscriber = "starting"
  /\ feed = <<>>
  /\ relay = NoRelay
  /\ log = [u \in Users |-> <<>>]
  /\ received = [w \in Sockets |-> <<>>]
  /\ joined = [w \in Sockets |-> 0]
  /\ events = 0
  /\ failures = 0

\* The events for u in a queue, in their order.
Of(u, queue) ==
  LET of[i \in 0..Len(queue)] ==
        IF i = 0 THEN <<>>
        ELSE IF queue[i].user = u THEN Append(of[i - 1], queue[i].event) ELSE of[i - 1]
  IN of[Len(queue)]

Fails == failures < MaxFailures /\ failures' = failures + 1

-----------------------------------------------------------------------------
(* websocket_endpoint                                                      *)

\* The token is valid, accept succeeds, and manager.connect registers the
\* socket.  What is queued for its user will reach it, what is being relayed
\* will not: send_to_user has copied the set.
Connect(w) ==
  LET u == UserOf[w] IN
  /\ pc[w] = "new" /\ w \in alive
  /\ registry' = [registry EXCEPT ![u] = @ \cup {w}]
  /\ gauge' = gauge + 1
  /\ joined' = [joined EXCEPT ![w] = Len(log[u]) - Len(Of(u, feed))]
  /\ pc' = [pc EXCEPT ![w] = "presence"]
  /\ UNCHANGED <<alive, presence, channel, relay, received, failures>>

\* setex of the presence key.
SetsPresence(w) ==
  /\ pc[w] = "presence"
  /\ presence' = presence \cup {UserOf[w]}
  /\ pc' = [pc EXCEPT ![w] = "hello"]
  /\ UNCHANGED <<registry, gauge, clients, channel, relay, failures>>

\* send_text of client.connected.  With the client gone it may still be
\* buffered, and the close is noticed in the receive loop.
Hello(w) ==
  /\ pc[w] = "hello"
  /\ pc' = [pc EXCEPT ![w] = "serving"]
  /\ UNCHANGED <<registry, gauge, presence, clients, channel, relay, failures>>

\* setex or send_text raises before the try: the handler ends, its socket is
\* closed, and nothing takes it out of the registry.
SetupFails(w) ==
  /\ \/ pc[w] = "presence" /\ Fails
     \/ pc[w] = "hello" /\ w \notin alive /\ UNCHANGED failures
  /\ pc' = [pc EXCEPT ![w] = "ended"]
  /\ alive' = alive \ {w}
  /\ UNCHANGED <<registry, gauge, presence, received, joined, channel, relay>>

\* DEFECT (mutant): disconnect drops all of the user's sockets.
UnregistersAll(w) ==
  /\ registry' = [registry EXCEPT ![UserOf[w]] = {}]
  /\ gauge' = gauge - 1

\* manager.disconnect.
Unregisters(w) ==
  /\ registry' = [registry EXCEPT ![UserOf[w]] = @ \ {w}]
  /\ gauge' = gauge - 1

\* receive_text raises WebSocketDisconnect; the finally block begins.
NoticesClose(w) ==
  /\ pc[w] = "serving" /\ w \notin alive
  /\ Unregisters(w)
  /\ pc' = [pc EXCEPT ![w] = "leaving"]
  /\ UNCHANGED <<presence, clients, channel, relay, failures>>

\* A Redis call made for a client event raises: the exception leaves the
\* loop, the finally block begins and the server closes the socket.
EventFails(w) ==
  /\ pc[w] = "serving" /\ Fails
  /\ Unregisters(w)
  /\ pc' = [pc EXCEPT ![w] = "leaving"]
  /\ alive' = alive \ {w}
  /\ UNCHANGED <<presence, received, joined, channel, relay>>

\* redis.delete of the presence key, whoever else of the user is connected;
\* or it raises.
ClearsPresence(w) ==
  /\ pc[w] = "leaving"
  /\ \/ presence' = presence \ {UserOf[w]} /\ UNCHANGED failures
     \/ Fails /\ UNCHANGED presence
  /\ pc' = [pc EXCEPT ![w] = "ended"]
  /\ UNCHANGED <<registry, gauge, clients, channel, relay>>

\* The key's TTL runs out.
PresenceExpires(u) ==
  /\ u \in presence
  /\ presence' = presence \ {u}
  /\ UNCHANGED <<pc, registry, gauge, clients, channel, relay, failures>>

-----------------------------------------------------------------------------
(* Publishing: publish_to_user, by this process or another                 *)

\* Redis hands an event to whoever is subscribed at that moment.
PublishTo(u) ==
  /\ events < MaxEvents
  /\ events' = events + 1
  /\ IF subscriber = "listening"
       THEN /\ feed' = Append(feed, [user |-> u, event |-> events + 1])
            /\ log' = [log EXCEPT ![u] = Append(@, events + 1)]
       ELSE UNCHANGED <<feed, log>>
  /\ UNCHANGED subscriber

\* The outbox worker, or a call event another user sent to this one.
Published(u) ==
  /\ PublishTo(u)
  /\ UNCHANGED <<handlers, clients, relay, failures>>

\* A call.* event of a client is published to its peer.
CallEvent(w, peer) ==
  /\ pc[w] = "serving" /\ w \in alive
  /\ PublishTo(peer)
  /\ UNCHANGED <<handlers, clients, relay, failures>>

PresenceUpdate(w) ==
  /\ pc[w] = "serving" /\ w \in alive
  /\ presence' = presence \cup {UserOf[w]}
  /\ UNCHANGED <<pc, registry, gauge, clients, channel, relay, failures>>

\* typing.started or typing.stopped: _broadcast_chat_event publishes a typing
\* event to the members of the Redis set chat_members:{chat_id}, which no code
\* fills: to nobody.
Typing(w) ==
  /\ pc[w] = "serving" /\ w \in alive
  /\ UNCHANGED vars

-----------------------------------------------------------------------------
(* redis_subscriber and ConnectionManager.send_to_user                     *)

\* psubscribe is answered.  What was published before is lost to this process.
Subscribes ==
  /\ subscriber = "starting"
  /\ subscriber' = "listening"
  /\ UNCHANGED <<handlers, clients, feed, log, events, relay, failures>>

\* The next pmessage.  A user with no socket here is done with at once.
Takes ==
  LET m == Head(feed) IN
  /\ subscriber = "listening" /\ relay = NoRelay /\ feed # <<>>
  /\ feed' = Tail(feed)
  /\ relay' = IF registry[m.user] = {} THEN NoRelay
              ELSE [user |-> m.user, event |-> m.event, todo |-> registry[m.user], dead |-> {}]
  /\ UNCHANGED <<handlers, clients, subscriber, log, events, failures>>

\* DEFECT (mutant): the loop ends at the first socket that raises.
ContinueUntilFirstDead(todo, dead) ==
  IF todo = {} \/ dead # {}
    THEN /\ relay' = NoRelay
         /\ registry' = [registry EXCEPT ![relay.user] = @ \ dead]
    ELSE /\ relay' = [relay EXCEPT !.todo = todo, !.dead = dead]
         /\ UNCHANGED registry

\* The rest of the loop; after the last socket the dead ones are dropped.
Continue(todo, dead) ==
  IF todo = {}
    THEN /\ relay' = NoRelay
         /\ registry' = [registry EXCEPT ![relay.user] = @ \ dead]
    ELSE /\ relay' = [relay EXCEPT !.todo = todo, !.dead = dead]
         /\ UNCHANGED registry

\* DEFECT (mutant): send_to_user does not catch, and the exception ends the task.
SendRaisesUncaught(w) ==
  /\ w \in relay.todo /\ w \notin alive
  /\ subscriber' = "dead"
  /\ relay' = NoRelay
  /\ UNCHANGED <<handlers, clients, feed, log, events, failures>>

\* send_text to a socket whose client has gone raises.
SendRaises(w) ==
  /\ w \in relay.todo /\ w \notin alive
  /\ Continue(relay.todo \ {w}, relay.dead \cup {w})
  /\ UNCHANGED <<pc, gauge, presence, clients, channel, failures>>

\* send_text succeeds (one to a client that has just gone is buffered).
SendSucceeds(w) ==
  /\ w \in relay.todo
  /\ received' = [received EXCEPT ![w] = Append(@, relay.event)]
  /\ Continue(relay.todo \ {w}, relay.dead)
  /\ UNCHANGED <<pc, gauge, presence, alive, joined, channel, failures>>

\* listen() raises, outside the try: the task ends, and nothing starts it again.
SubscriberDies ==
  /\ subscriber # "dead" /\ relay = NoRelay /\ Fails
  /\ subscriber' = "dead"
  /\ feed' = <<>>
  /\ UNCHANGED <<handlers, clients, log, events, relay>>

-----------------------------------------------------------------------------
(* Environment                                                             *)

Vanishes(w) ==
  /\ w \in alive /\ pc[w] \in Connected
  /\ alive' = alive \ {w}
  /\ UNCHANGED <<handlers, received, joined, channel, relay, failures>>

\* The process dies and starts again: its memory is gone, Redis is not.
Restart ==
  /\ Fails
  /\ pc' = [w \in Sockets |-> IF pc[w] = "new" THEN "new" ELSE "ended"]
  /\ alive' = {w \in alive : pc[w] = "new"}
  /\ registry' = [u \in Users |-> {}]
  /\ gauge' = 0
  /\ subscriber' = "starting"
  /\ feed' = <<>>
  /\ relay' = NoRelay
  /\ UNCHANGED <<presence, log, received, joined, events>>

Relay == Takes \/ \E w \in Sockets : SendRaises(w) \/ SendSucceeds(w)

Next ==
  \/ \E w \in Sockets :
       \/ Connect(w)
       \/ SetsPresence(w)
       \/ Hello(w)
       \/ SetupFails(w)
       \/ NoticesClose(w)
       \/ EventFails(w)
       \/ ClearsPresence(w)
       \/ PresenceUpdate(w)
       \/ Typing(w)
       \/ Vanishes(w)
  \/ \E w \in Sockets, peer \in Users : CallEvent(w, peer)
  \/ \E u \in Users : Published(u) \/ PresenceExpires(u)
  \/ Subscribes
  \/ Relay
  \/ SubscriberDies
  \/ Restart

SafetySpec == Init /\ [][Next]_vars

\* The event loop keeps running the subscriber, and each of its sends ends:
\* uvicorn accepts the frame or raises.
Spec == SafetySpec /\ WF_vars(Relay)

-----------------------------------------------------------------------------
(* Properties                                                              *)

Live(w) == pc[w] \in Connected /\ w \in alive

\* A connected client is registered, whatever other sockets of the same user
\* connect, fail, die during a relay or disconnect meanwhile, and the gauge
\* misses none (it may count sockets that leaked).
LiveSocketsRegistered ==
  /\ \A w \in Sockets : Live(w) => w \in registry[UserOf[w]]
  /\ gauge >= Cardinality({w \in Sockets : pc[w] \in Connected})

\* Between the Redis channel and a live socket nothing is lost, repeated or
\* reordered: what it received, the event being sent to it and those queued
\* for its user are the events published since it was registered.  (With the
\* type invariant.)
RelayedInOrder ==
  /\ TypeOK
  /\ subscriber = "listening" =>
       \A w \in Sockets : Live(w) =>
         received[w] \o (IF w \in relay.todo THEN <<relay.event>> ELSE <<>>)
                     \o Of(UserOf[w], feed)
           = SubSeq(log[UserOf[w]], joined[w] + 1, Len(log[UserOf[w]]))

Expects(w) ==
  /\ Live(w)
  /\ w \in relay.todo \/ Of(UserOf[w], feed) # <<>>

\* While Redis stays up, an event published for a connected client is sent to
\* it, however many of the user's other sockets turn out to be dead.
EventsArrive == \A w \in Sockets : Expects(w) ~> ~Expects(w)
=============================================================================
