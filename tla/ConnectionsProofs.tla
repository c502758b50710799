-------------------------- MODULE ConnectionsProofs --------------------------
(***************************************************************************)
(* Proofs about Connections, for any users, sockets and bounds.            *)
(*                                                                         *)
(* send_to_user works on a copy of the registry and takes sockets out of   *)
(* the registry that it found dead some awaits before.  That never hits a  *)
(* live one because a socket that has died stays dead (RelayInv), which is *)
(* what LiveSocketsRegistered needs to be inductive.                       *)
(*                                                                         *)
(* RelayedInOrder rests on it, and on the queue of the subscriber being    *)
(* the end of what was published (Backlog).  Of is a recursive function,   *)
(* so the lemmas about it (OfAppend, OfHead) go by induction on the        *)
(* length of the queue, over the set of the lengths that are done (UpTo).  *)
(***************************************************************************)
EXTENDS Connections, FiniteSetTheorems, SequenceTheorems, WellFoundedInduction, TLAPS

Message == [user : Users, event : Nat]
ConnectedSockets == {w \in Sockets : pc[w] \in Connected}

\* The types that the registry rests on.
RegistryTypes ==
  /\ pc \in [Sockets -> {"new", "leaving", "ended"} \cup Connected]
  /\ alive \subseteq Sockets
  /\ registry \in [Users -> SUBSET Sockets]
  /\ gauge \in Int
  /\ feed \in Seq(Message) /\ events \in Nat
  /\ relay \in [user : Users \cup {None}, event : Nat, todo : SUBSET Sockets, dead : SUBSET Sockets]

\* What a relay takes out of the registry at its end is dead.
RelayInv == relay.dead \cap alive = {}

Registered == \A w \in Sockets : Live(w) => w \in registry[UserOf[w]]

Gauged == IsFiniteSet(ConnectedSockets) /\ gauge >= Cardinality(ConnectedSockets)

IInv == RegistryTypes /\ RelayInv /\ Registered /\ Gauged

LEMMA InitIInv == Init => IInv
<1> SUFFICES ASSUME Init PROVE IInv
  OBVIOUS
<1>1. RegistryTypes
  <2>1. feed \in Seq(Message)
    BY EmptySeq DEF Init
  <2>2. relay \in [user : Users \cup {None}, event : Nat, todo : SUBSET Sockets, dead : SUBSET Sockets]
    BY DEF Init, NoRelay
  <2> QED BY <2>1, <2>2 DEF Init, RegistryTypes
<1>2. RelayInv
  BY DEF Init, NoRelay, RelayInv
<1>3. ConnectedSockets = {} /\ Registered
  BY DEF Init, ConnectedSockets, Connected, Registered, Live
<1>4. Gauged
  BY <1>3, FS_EmptySet DEF Init, Gauged
<1> QED BY <1>1, <1>2, <1>3, <1>4 DEF IInv

-----------------------------------------------------------------------------
(* Counting the handlers                                                   *)

\* A handler that begins is one more.
LEMMA OneMore ==
  ASSUME IInv, NEW w \in Sockets, pc[w] \notin Connected, NEW s \in Connected, pc' = [pc EXCEPT ![w] = s],
         gauge' = gauge + 1
  PROVE  Gauged'
<1>1. ConnectedSockets' = ConnectedSockets \cup {w} /\ w \notin ConnectedSockets
  BY DEF IInv, RegistryTypes, ConnectedSockets
<1>2. Cardinality(ConnectedSockets) \in Nat /\ gauge >= Cardinality(ConnectedSockets) /\ gauge \in Int
  BY FS_CardinalityType DEF IInv, Gauged, RegistryTypes
<1>3. /\ IsFiniteSet(ConnectedSockets \cup {w})
      /\ Cardinality(ConnectedSockets \cup {w}) = Cardinality(ConnectedSockets) + 1
  BY <1>1, FS_AddElement DEF IInv, Gauged
<1>4. gauge' >= Cardinality(ConnectedSockets \cup {w})
  BY <1>2, <1>3
<1> QED BY <1>1, <1>3, <1>4 DEF Gauged

\* One that ends is one less, and may or may not tell the gauge.
LEMMA OneLess ==
  ASSUME IInv, NEW w \in Sockets, pc[w] \in Connected, NEW s \in {"leaving", "ended"},
         pc' = [pc EXCEPT ![w] = s], gauge' \in {gauge, gauge - 1}
  PROVE  Gauged'
<1>1. ConnectedSockets' = ConnectedSockets \ {w} /\ w \in ConnectedSockets
  BY DEF IInv, RegistryTypes, ConnectedSockets, Connected
<1>2. Cardinality(ConnectedSockets) \in Nat /\ gauge >= Cardinality(ConnectedSockets) /\ gauge \in Int
  BY FS_CardinalityType DEF IInv, Gauged, RegistryTypes
<1>3. /\ IsFiniteSet(ConnectedSockets \ {w})
      /\ Cardinality(ConnectedSockets \ {w}) = Cardinality(ConnectedSockets) - 1
  BY <1>1, FS_RemoveElement DEF IInv, Gauged
<1>4. gauge' >= Cardinality(ConnectedSockets \ {w})
  BY <1>2, <1>3
<1> QED BY <1>1, <1>3, <1>4 DEF Gauged

-----------------------------------------------------------------------------
(* The endpoint                                                            *)

LEMMA ConnectKeeps ==
  ASSUME IInv, NEW w \in Sockets, Connect(w)
  PROVE  IInv'
<1>1. /\ pc[w] = "new" /\ w \in alive /\ UserOf[w] \in Users
      /\ registry' = [registry EXCEPT ![UserOf[w]] = registry[UserOf[w]] \cup {w}]
      /\ gauge' = gauge + 1 /\ pc' = [pc EXCEPT ![w] = "presence"]
      /\ UNCHANGED <<alive, feed, events, relay>>
  BY UserOfAssumption DEF Connect, channel
<1>2. /\ registry' \in [Users -> SUBSET Sockets]
      /\ \A v \in Sockets : v \in registry[UserOf[v]] => v \in registry'[UserOf[v]]
      /\ w \in registry'[UserOf[w]]
  BY <1>1, UserOfAssumption DEF IInv, RegistryTypes
<1>3. RegistryTypes'
  BY <1>1, <1>2 DEF IInv, RegistryTypes, Connected
<1>4. RelayInv'
  BY <1>1 DEF IInv, RelayInv
<1>5. Registered'
  BY <1>1, <1>2 DEF IInv, RegistryTypes, Registered, Live
<1>6. Gauged'
  BY <1>1, OneMore DEF Connected
<1> QED BY <1>3, <1>4, <1>5, <1>6 DEF IInv

\* A handler that stays connected, or is none.
LEMMA PresenceStepsKeep ==
  ASSUME IInv, NEW w \in Sockets, SetsPresence(w) \/ Hello(w) \/ ClearsPresence(w)
  PROVE  IInv'
<1>1. /\ UNCHANGED <<alive, registry, gauge, feed, events, relay>>
      /\ \/ pc[w] \in {"presence", "hello"} /\ pc' = [pc EXCEPT ![w] = "hello"]
         \/ pc[w] \in {"presence", "hello"} /\ pc' = [pc EXCEPT ![w] = "serving"]
         \/ pc[w] = "leaving" /\ pc' = [pc EXCEPT ![w] = "ended"]
  BY DEF SetsPresence, Hello, ClearsPresence, clients, channel
<1>2. pc' \in [Sockets -> {"new", "leaving", "ended"} \cup Connected]
  BY <1>1 DEF IInv, RegistryTypes, Connected
<1>3. \A v \in Sockets : pc'[v] \in Connected <=> pc[v] \in Connected
  BY <1>1 DEF IInv, RegistryTypes, Connected
<1>4. RegistryTypes' /\ RelayInv' /\ Registered'
  BY <1>1, <1>2, <1>3 DEF IInv, RegistryTypes, RelayInv, Registered, Live
<1>5. Gauged'
  BY <1>1, <1>3 DEF IInv, Gauged, ConnectedSockets
<1> QED BY <1>4, <1>5 DEF IInv

LEMMA EndsKeep ==
  ASSUME IInv, NEW w \in Sockets, SetupFails(w) \/ NoticesClose(w) \/ EventFails(w)
  PROVE  IInv'
<1>1. /\ pc[w] \in Connected /\ alive' \subseteq alive /\ w \notin alive' /\ gauge' \in {gauge, gauge - 1}
      /\ UNCHANGED <<feed, events, relay>>
  BY DEF SetupFails, NoticesClose, EventFails, Unregisters, clients, channel, Connected
<1>2. PICK s \in {"leaving", "ended"} : pc' = [pc EXCEPT ![w] = s]
  BY DEF SetupFails, NoticesClose, EventFails
<1>3. registry' = registry \/ registry' = [registry EXCEPT ![UserOf[w]] = registry[UserOf[w]] \ {w}]
  BY DEF SetupFails, NoticesClose, EventFails, Unregisters
<1>4. /\ registry' \in [Users -> SUBSET Sockets]
      /\ \A v \in Sockets : v # w /\ v \in registry[UserOf[v]] => v \in registry'[UserOf[v]]
  BY <1>3, UserOfAssumption DEF IInv, RegistryTypes
<1>5. RegistryTypes'
  BY <1>1, <1>2, <1>4 DEF IInv, RegistryTypes
<1>6. RelayInv'
  BY <1>1 DEF IInv, RelayInv
<1>7. Registered'
  BY <1>1, <1>2, <1>4 DEF IInv, RegistryTypes, Registered, Live
<1>8. Gauged'
  BY <1>1, <1>2, OneLess
<1> QED BY <1>5, <1>6, <1>7, <1>8 DEF IInv

-----------------------------------------------------------------------------
(* Redis, clients and the process                                          *)

\* Steps that leave the registry, the handlers and the relay alone.
LEMMA OutsideKeeps ==
  ASSUME IInv, UNCHANGED <<pc, registry, gauge, relay>>, alive' \subseteq alive,
         feed' \in Seq(Message), events' \in Nat
  PROVE  IInv'
BY DEF IInv, RegistryTypes, RelayInv, Registered, Live, Gauged, ConnectedSockets

LEMMA PublishKeeps ==
  ASSUME IInv, NEW u \in Users, PublishTo(u), UNCHANGED <<pc, registry, gauge, relay, alive>>
  PROVE  IInv'
<1>1. events \in Nat /\ feed \in Seq(Message)
  BY DEF IInv, RegistryTypes
<1>2. PICK m \in Message : m = [user |-> u, event |-> events + 1]
  <2>1. events + 1 \in Nat
    BY <1>1
  <2> QED BY <2>1 DEF Message
<1>3. Append(feed, m) \in Seq(Message)
  BY <1>1, <1>2
<1>4. feed' \in {feed, Append(feed, m)} /\ events' = events + 1
  BY <1>2 DEF PublishTo
<1> QED BY <1>1, <1>3, <1>4, OutsideKeeps

LEMMA TakesKeeps ==
  ASSUME IInv, Takes
  PROVE  IInv'
<1>1. feed \in Seq(Message) /\ feed # <<>>
  BY DEF IInv, RegistryTypes, Takes
<1>2. Head(feed) \in Message /\ Tail(feed) \in Seq(Message)
  BY <1>1, HeadTailProperties
<1>3. PICK m \in Message : m = Head(feed)
  BY <1>2
<1>4. /\ feed' = Tail(feed) /\ UNCHANGED <<pc, registry, gauge, alive, events>>
      /\ \/ relay' = NoRelay
         \/ relay' = [user |-> m.user, event |-> m.event, todo |-> registry[m.user], dead |-> {}]
  BY <1>3 DEF Takes, handlers, clients
<1>5. m.user \in Users /\ m.event \in Nat /\ registry[m.user] \subseteq Sockets
  BY DEF Message, IInv, RegistryTypes
<1>6. /\ relay' \in [user : Users \cup {None}, event : Nat, todo : SUBSET Sockets, dead : SUBSET Sockets]
      /\ relay'.dead = {}
  BY <1>4, <1>5 DEF NoRelay
<1>7. RegistryTypes'
  BY <1>2, <1>4, <1>6 DEF IInv, RegistryTypes
<1>8. RelayInv' /\ Registered' /\ Gauged'
  BY <1>4, <1>6 DEF IInv, RelayInv, Registered, Live, Gauged, ConnectedSockets
<1> QED BY <1>7, <1>8 DEF IInv

\* The dead sockets that the end of a relay drops are not alive.
LEMMA ContinueKeeps ==
  ASSUME IInv, NEW todo \in SUBSET Sockets, NEW dead \in SUBSET Sockets, dead \cap alive = {},
         Continue(todo, dead), UNCHANGED <<pc, gauge, alive, feed, events>>
  PROVE  IInv'
<1>1. PICK u : u = relay.user
  OBVIOUS
<1>2. /\ registry' \in {registry, [registry EXCEPT ![u] = registry[u] \ dead]}
      /\ relay' \in {NoRelay, [relay EXCEPT !.todo = todo, !.dead = dead]}
  BY <1>1 DEF Continue
<1>3. /\ relay' \in [user : Users \cup {None}, event : Nat, todo : SUBSET Sockets, dead : SUBSET Sockets]
      /\ relay'.dead \in {{}, dead}
  <2>1. CASE relay' = NoRelay
    BY <2>1 DEF NoRelay
  <2>2. CASE relay' = [relay EXCEPT !.todo = todo, !.dead = dead]
    <3>1. relay \in [user : Users \cup {None}, event : Nat, todo : SUBSET Sockets, dead : SUBSET Sockets]
      BY DEF IInv, RegistryTypes
    <3> QED BY <2>2, <3>1
  <2> QED BY <1>2, <2>1, <2>2
<1>4. registry \in [Users -> SUBSET Sockets]
  BY DEF IInv, RegistryTypes
<1>5. /\ registry' \in [Users -> SUBSET Sockets]
      /\ \A v \in Users : registry[v] \ dead \subseteq registry'[v]
  BY <1>2, <1>4
<1>6. RegistryTypes'
  BY <1>3, <1>5 DEF IInv, RegistryTypes
<1>7. RelayInv' /\ Gauged'
  BY <1>3 DEF RelayInv, IInv, Gauged, ConnectedSockets
<1>8. Registered'
  BY <1>5, UserOfAssumption DEF IInv, RegistryTypes, Registered, Live
<1> QED BY <1>6, <1>7, <1>8 DEF IInv

LEMMA SendsKeep ==
  ASSUME IInv, NEW w \in Sockets, SendRaises(w) \/ SendSucceeds(w)
  PROVE  IInv'
<1>1. relay.todo \subseteq Sockets /\ relay.dead \subseteq Sockets /\ relay.dead \cap alive = {}
  BY DEF IInv, RegistryTypes, RelayInv
<1>2. CASE SendRaises(w)
  BY <1>1, <1>2, ContinueKeeps DEF SendRaises, clients, channel
<1>3. CASE SendSucceeds(w)
  BY <1>1, <1>3, ContinueKeeps DEF SendSucceeds, channel
<1> QED BY <1>2, <1>3

LEMMA RestartKeeps ==
  ASSUME IInv, Restart
  PROVE  IInv'
<1>1. /\ pc' = [w \in Sockets |-> IF pc[w] = "new" THEN "new" ELSE "ended"]
      /\ alive' \subseteq alive /\ registry' = [u \in Users |-> {}] /\ gauge' = 0
      /\ feed' = <<>> /\ relay' = NoRelay /\ events' = events
  BY DEF Restart
<1>2. ConnectedSockets' = {} /\ Registered'
  BY <1>1 DEF ConnectedSockets, Connected, Registered, Live
<1>3. Gauged'
  BY <1>1, <1>2, FS_EmptySet DEF Gauged
<1>4. RelayInv'
  BY <1>1 DEF RelayInv, NoRelay
<1>5. feed' \in Seq(Message)
  BY <1>1, EmptySeq
<1>6. relay' \in [user : Users \cup {None}, event : Nat, todo : SUBSET Sockets, dead : SUBSET Sockets]
  BY <1>1 DEF NoRelay
<1>7. RegistryTypes'
  BY <1>1, <1>5, <1>6 DEF IInv, RegistryTypes
<1> QED BY <1>2, <1>3, <1>4, <1>7 DEF IInv

-----------------------------------------------------------------------------
(* Steps                                                                   *)

LEMMA NextKeeps ==
  ASSUME IInv, [Next]_vars
  PROVE  IInv'
<1>1. events \in Nat /\ feed \in Seq(Message)
  BY DEF IInv, RegistryTypes
<1>2. ASSUME NEW w \in Sockets,
             \/ Connect(w) \/ SetsPresence(w) \/ Hello(w) \/ ClearsPresence(w)
             \/ SetupFails(w) \/ NoticesClose(w) \/ EventFails(w)
      PROVE  IInv'
  BY <1>2, ConnectKeeps, PresenceStepsKeep, EndsKeep
<1>3. ASSUME NEW w \in Sockets, PresenceUpdate(w) \/ Typing(w) \/ Vanishes(w) PROVE IInv'
  BY <1>1, <1>3, OutsideKeeps DEF PresenceUpdate, Typing, Vanishes, handlers, clients, channel, vars
<1>4. ASSUME NEW w \in Sockets, NEW peer \in Users, CallEvent(w, peer) PROVE IInv'
  BY <1>4, PublishKeeps DEF CallEvent, handlers, clients
<1>5. ASSUME NEW u \in Users, Published(u) PROVE IInv'
  BY <1>5, PublishKeeps DEF Published, handlers, clients
<1>6. ASSUME NEW u \in Users, PresenceExpires(u) PROVE IInv'
  BY <1>1, <1>6, OutsideKeeps DEF PresenceExpires, clients, channel
<1>7. CASE Subscribes
  BY <1>1, <1>7, OutsideKeeps DEF Subscribes, handlers, clients
<1>8. CASE SubscriberDies
  BY <1>1, <1>8, OutsideKeeps, EmptySeq DEF SubscriberDies, handlers, clients
<1>9. CASE Relay
  BY <1>9, TakesKeeps, SendsKeep DEF Relay
<1>10. CASE Restart
  BY <1>10, RestartKeeps
<1>11. CASE UNCHANGED vars
  BY <1>1, <1>11, OutsideKeeps DEF vars
<1> QED BY <1>2, <1>3, <1>4, <1>5, <1>6, <1>7, <1>8, <1>9, <1>10, <1>11 DEF Next

\* The inductive invariant of the registry.
THEOREM Invariance == SafetySpec => []IInv
<1>1. Init => IInv
  BY InitIInv
<1>2. IInv /\ [Next]_vars => IInv'
  BY NextKeeps
<1> QED BY <1>1, <1>2, PTL DEF SafetySpec

\* However a user's sockets connect, fail and die during relays, a live
\* connected one is in the registry, and the gauge counts it (manager.py
\* connect, disconnect, send_to_user).
THEOREM LiveAreRegistered == SafetySpec => []LiveSocketsRegistered
<1>1. IInv => LiveSocketsRegistered
  BY DEF IInv, Registered, Gauged, ConnectedSockets, LiveSocketsRegistered
<1> QED BY <1>1, Invariance, PTL
-----------------------------------------------------------------------------
(* The queue of one user within a queue                                    *)

\* Induction up to a bound, over a set of the numbers that are done.
LEMMA UpTo ==
  ASSUME NEW n \in Nat, NEW S \in SUBSET (0..n), 0 \in S, \A i \in 1..n : i - 1 \in S => i \in S
  PROVE  S = 0..n
<1> DEFINE T == (0..n) \ S
<1> SUFFICES ASSUME T # {} PROVE FALSE
  OBVIOUS
<1>1. \E k \in T : \A j \in T : <<j, k>> \notin OpToRel(<, Nat)
  <2>1. T \subseteq Nat
    OBVIOUS
  <2> HIDE DEF T
  <2> QED BY <2>1, NatLessThanWellFounded, WFMin
<1>2. \A j, k \in Nat : j < k => <<j, k>> \in OpToRel(<, Nat)
  BY DEF OpToRel
<1>3. \E k \in T : \A j \in T : ~ (j < k)
  <2>1. T \subseteq Nat
    OBVIOUS
  <2> HIDE DEF T
  <2> QED BY <1>1, <1>2, <2>1
<1>4. PICK k \in 0..n : k \notin S /\ \A j \in 0..n : j \notin S => ~ (j < k)
  BY <1>3
<1>5. k \in 1..n /\ k - 1 \in 0..n /\ k - 1 < k
  BY <1>4
<1> QED BY <1>4, <1>5

\* g is the function that Of builds over the first n messages of q.
Filter(u, q, n, g) ==
  /\ g[0] = <<>>
  /\ \A i \in 1..n : g[i] = IF q[i].user = u THEN Append(g[i - 1], q[i].event) ELSE g[i - 1]

LEMMA FilterExists ==
  ASSUME NEW u, NEW q, NEW n \in Nat
  PROVE  \E g : g = [i \in 0..n |-> g[i]] /\ Filter(u, q, n, g)
<1> DEFINE S == {k \in 0..n : \E g : g = [i \in 0..k |-> g[i]] /\ Filter(u, q, k, g)}
<1>1. 0 \in S
  <2> DEFINE g == [i \in 0..0 |-> <<>>]
  <2>1. g = [i \in 0..0 |-> g[i]] /\ g[0] = <<>>
    OBVIOUS
  <2> HIDE DEF g
  <2>2. Filter(u, q, 0, g)
    BY <2>1 DEF Filter
  <2> QED BY <2>1, <2>2
<1>2. ASSUME NEW k \in 1..n, k - 1 \in S PROVE k \in S
  <2>1. PICK g : Filter(u, q, k - 1, g)
    BY <1>2
  <2> DEFINE h == [i \in 0..k |-> IF i < k THEN g[i]
                     ELSE IF q[k].user = u THEN Append(g[k - 1], q[k].event) ELSE g[k - 1]]
  <2>2. h = [i \in 0..k |-> h[i]]
    OBVIOUS
  <2>7. \A i \in 0..(k - 1) : h[i] = g[i]
    OBVIOUS
  <2>3. h[k] = IF q[k].user = u THEN Append(g[k - 1], q[k].event) ELSE g[k - 1]
    OBVIOUS
  <2> HIDE DEF h
  <2>4. h[0] = <<>>
    BY <2>1, <2>7 DEF Filter
  <2>5. ASSUME NEW i \in 1..k
        PROVE  h[i] = IF q[i].user = u THEN Append(h[i - 1], q[i].event) ELSE h[i - 1]
    <3>1. i - 1 \in 0..(k - 1) /\ h[i - 1] = g[i - 1]
      BY <2>7
    <3>2. CASE i = k
      BY <2>3, <3>1, <3>2
    <3>3. CASE i # k
      <4>1. i \in 0..(k - 1) /\ i \in 1..(k - 1)
        BY <3>3
      <4> QED BY <2>1, <2>7, <3>1, <4>1 DEF Filter
    <3> QED BY <3>2, <3>3
  <2>6. Filter(u, q, k, h)
    BY <2>4, <2>5 DEF Filter
  <2> QED BY <2>2, <2>6
<1>3. S = 0..n
  <2> HIDE DEF S
  <2> QED BY <1>1, <1>2, UpTo DEF S
<1> QED BY <1>3

LEMMA OfIsFilter ==
  ASSUME NEW u, NEW q, Len(q) \in Nat
  PROVE  \E g : Filter(u, q, Len(q), g) /\ Of(u, q) = g[Len(q)]
<1> DEFINE n == Len(q)
           D(of) == [i \in 0..n |-> IF i = 0 THEN <<>>
                     ELSE IF q[i].user = u THEN Append(of[i - 1], q[i].event) ELSE of[i - 1]]
           c == CHOOSE of : of = D(of)
<1>1. PICK g : g = [i \in 0..n |-> g[i]] /\ Filter(u, q, n, g)
  BY FilterExists
<1>2. g = D(g)
  <2>1. \A i \in 0..n : g[i] = IF i = 0 THEN <<>>
                        ELSE IF q[i].user = u THEN Append(g[i - 1], q[i].event) ELSE g[i - 1]
    BY <1>1 DEF Filter
  <2> QED BY <1>1, <2>1
<1>3. c = D(c)
  <2> HIDE DEF D
  <2> QED BY <1>2
<1>4. Of(u, q) = c[n]
  BY DEF Of
<1> HIDE DEF c
<1>6. \A i \in 0..n : c[i] = IF i = 0 THEN <<>>
                      ELSE IF q[i].user = u THEN Append(c[i - 1], q[i].event) ELSE c[i - 1]
  BY <1>3
<1>7. c[0] = <<>> /\ \A i \in 1..n : c[i] = IF q[i].user = u THEN Append(c[i - 1], q[i].event) ELSE c[i - 1]
  BY <1>6
<1>8. Filter(u, q, n, c)
  BY <1>7 DEF Filter
<1> QED BY <1>4, <1>8

LEMMA MessageAt ==
  ASSUME NEW q \in Seq(Message), NEW i \in 1..Len(q)
  PROVE  q[i].user \in Users /\ q[i].event \in Nat
<1>1. q[i] \in Message
  OBVIOUS
<1> QED BY <1>1 DEF Message

LEMMA AppendConcat ==
  ASSUME NEW x \in Seq(Nat), NEW y \in Seq(Nat), NEW e \in Nat
  PROVE  Append(x \o y, e) = x \o Append(y, e)
<1>1. x \o y \in Seq(Nat) /\ <<e>> \in Seq(Nat)
  OBVIOUS
<1>2. Append(x \o y, e) = (x \o y) \o <<e>> /\ Append(y, e) = y \o <<e>>
  BY <1>1, AppendIsConcat
<1> QED BY <1>1, <1>2, ConcatAssociative

LEMMA FilterType ==
  ASSUME NEW u, NEW q \in Seq(Message), NEW n \in Nat, n <= Len(q), NEW g, Filter(u, q, n, g)
  PROVE  \A i \in 0..n : g[i] \in Seq(Nat)
<1> DEFINE S == {i \in 0..n : g[i] \in Seq(Nat)}
<1>1. 0 \in S
  <2>1. g[0] = <<>>
    BY DEF Filter
  <2>2. g[0] \in Seq(Nat)
    BY <2>1, EmptySeq
  <2> QED BY <2>2
<1>2. ASSUME NEW i \in 1..n, i - 1 \in S PROVE i \in S
  <2>1. g[i] = IF q[i].user = u THEN Append(g[i - 1], q[i].event) ELSE g[i - 1]
    BY DEF Filter
  <2>2. q[i].event \in Nat /\ g[i - 1] \in Seq(Nat)
    BY <1>2, MessageAt
  <2>3. g[i] \in Seq(Nat)
    BY <2>1, <2>2
  <2> QED BY <2>3
<1>3. S = 0..n
  <2> HIDE DEF S
  <2> QED BY <1>1, <1>2, UpTo DEF S
<1> QED BY <1>3

\* Two queues that agree.
LEMMA FilterSame ==
  ASSUME NEW u, NEW q, NEW r, NEW n \in Nat, NEW g, NEW h, Filter(u, q, n, g), Filter(u, r, n, h),
         \A i \in 1..n : q[i] = r[i]
  PROVE  g[n] = h[n]
<1> DEFINE S == {i \in 0..n : g[i] = h[i]}
<1>1. 0 \in S
  BY DEF Filter
<1>2. ASSUME NEW i \in 1..n, i - 1 \in S PROVE i \in S
  BY <1>2 DEF Filter
<1>3. S = 0..n
  <2> HIDE DEF S
  <2> QED BY <1>1, <1>2, UpTo DEF S
<1> QED BY <1>3

\* A queue without its first message.
LEMMA FilterShift ==
  ASSUME NEW u, NEW q \in Seq(Message), q # <<>>, NEW g, NEW h,
         Filter(u, q, Len(q), g), Filter(u, Tail(q), Len(Tail(q)), h)
  PROVE  g[Len(q)] = g[1] \o h[Len(Tail(q))]
<1>0. PICK r, n : r = Tail(q) /\ n = Len(Tail(q))
  OBVIOUS
<1>10. /\ r \in Seq(Message) /\ n \in Nat /\ n = Len(r) /\ Len(q) = n + 1
       /\ \A i \in 1..n : r[i] = q[i + 1]
  BY <1>0, HeadTailProperties
<1>11. Filter(u, q, n + 1, g) /\ Filter(u, r, n, h)
  BY <1>0, <1>10
<1>1. /\ \A i \in 0..n : h[i] \in Seq(Nat)
      /\ \A i \in 0..(n + 1) : g[i] \in Seq(Nat)
  <2>1. n + 1 \in Nat /\ n + 1 <= Len(q) /\ n <= Len(r)
    BY <1>10
  <2> QED BY <1>10, <1>11, <2>1, FilterType
<1> DEFINE S == {i \in 0..n : g[i + 1] = g[1] \o h[i]}
<1>2. 0 \in S
  <2>1. h[0] = <<>> /\ g[1] \in Seq(Nat)
    <3>1. 1 \in 0..(n + 1)
      BY <1>10
    <3>2. h[0] = <<>>
      BY <1>11 DEF Filter
    <3> QED BY <1>1, <3>1, <3>2
  <2>2. g[0 + 1] = g[1] \o h[0]
    BY <2>1, ConcatEmptySeq
  <2>3. 0 \in 0..n
    BY <1>10
  <2> QED BY <2>2, <2>3, Zenon
<1>3. ASSUME NEW i \in 1..n, i - 1 \in S PROVE i \in S
  <2>1. g[i] = g[1] \o h[i - 1]
    <3>1. (i - 1) + 1 = i
      BY <1>10
    <3> QED BY <1>3, <3>1
  <2>2. /\ g[i + 1] = IF r[i].user = u THEN Append(g[i], r[i].event) ELSE g[i]
        /\ h[i] = IF r[i].user = u THEN Append(h[i - 1], r[i].event) ELSE h[i - 1]
    <3>1. i + 1 \in 1..(n + 1) /\ (i + 1) - 1 = i /\ q[i + 1] = r[i]
      BY <1>10
    <3>2. g[i + 1] = IF q[i + 1].user = u THEN Append(g[(i + 1) - 1], q[i + 1].event) ELSE g[(i + 1) - 1]
      BY <1>11, <3>1 DEF Filter
    <3>3. h[i] = IF r[i].user = u THEN Append(h[i - 1], r[i].event) ELSE h[i - 1]
      BY <1>11 DEF Filter
    <3> QED BY <3>1, <3>2, <3>3
  <2>3. r[i].event \in Nat
    BY <1>10, MessageAt
  <2>4. g[1] \in Seq(Nat) /\ h[i - 1] \in Seq(Nat)
    BY <1>1, <1>10
  <2>5. Append(g[1] \o h[i - 1], r[i].event) = g[1] \o Append(h[i - 1], r[i].event)
    BY <2>3, <2>4, AppendConcat
  <2>6. g[i + 1] = g[1] \o h[i]
    BY <2>1, <2>2, <2>3, <2>4, <2>5
  <2>7. i \in 0..n
    BY <1>10
  <2> QED BY <2>6, <2>7, Zenon
<1>4. S = 0..n
  <2> HIDE DEF S
  <2> QED BY <1>2, <1>3, <1>10, UpTo DEF S
<1>5. n \in S
  <2> HIDE DEF S
  <2> QED BY <1>4, <1>10
<1>6. g[n + 1] = g[1] \o h[n]
  BY <1>5, Zenon
<1> QED BY <1>0, <1>6, <1>10

LEMMA OfType ==
  ASSUME NEW u, NEW q \in Seq(Message)
  PROVE  Of(u, q) \in Seq(Nat)
<1>1. Len(q) \in Nat /\ Len(q) <= Len(q) /\ Len(q) \in 0..Len(q)
  OBVIOUS
<1>2. PICK g : Filter(u, q, Len(q), g) /\ Of(u, q) = g[Len(q)]
  BY <1>1, OfIsFilter
<1> QED BY <1>1, <1>2, FilterType

LEMMA OfEmpty ==
  ASSUME NEW u
  PROVE  Of(u, <<>>) = <<>>
<1>1. PICK g : Filter(u, <<>>, 0, g) /\ Of(u, <<>>) = g[0]
  BY OfIsFilter
<1> QED BY <1>1 DEF Filter

LEMMA OfAppend ==
  ASSUME NEW u, NEW q \in Seq(Message), NEW m \in Message
  PROVE  Of(u, Append(q, m)) = IF m.user = u THEN Append(Of(u, q), m.event) ELSE Of(u, q)
<1> DEFINE r == Append(q, m)
           n == Len(q)
<1>1. /\ r \in Seq(Message) /\ n \in Nat /\ Len(r) = n + 1 /\ r[n + 1] = m
      /\ \A i \in 1..n : r[i] = q[i]
  BY AppendProperties
<1> HIDE DEF r
<1>2. PICK g : Filter(u, r, n + 1, g) /\ Of(u, r) = g[n + 1]
  BY <1>1, OfIsFilter
<1>3. PICK h : Filter(u, q, n, h) /\ Of(u, q) = h[n]
  BY <1>1, OfIsFilter
<1>5. g[n] = h[n]
  <2>1. Filter(u, r, n, g)
    BY <1>1, <1>2 DEF Filter
  <2> QED BY <1>1, <1>3, <2>1, FilterSame
<1>6. g[n + 1] = IF m.user = u THEN Append(g[n], m.event) ELSE g[n]
  <2>1. n + 1 \in 1..(n + 1) /\ (n + 1) - 1 = n
    BY <1>1
  <2> QED BY <1>1, <1>2, <2>1 DEF Filter
<1> QED BY <1>2, <1>3, <1>5, <1>6 DEF r

LEMMA OfHead ==
  ASSUME NEW u, NEW q \in Seq(Message), q # <<>>
  PROVE  Of(u, q) = IF Head(q).user = u THEN <<Head(q).event>> \o Of(u, Tail(q)) ELSE Of(u, Tail(q))
<1> DEFINE r == Tail(q)
           n == Len(r)
<1>1. /\ r \in Seq(Message) /\ n \in Nat /\ Len(q) = n + 1 /\ Head(q) = q[1]
      /\ \A i \in 1..n : r[i] = q[i + 1]
  BY HeadTailProperties
<1> HIDE DEF r
<1>2. PICK g : Filter(u, q, n + 1, g) /\ Of(u, q) = g[n + 1]
  BY <1>1, OfIsFilter
<1>3. PICK h : Filter(u, r, n, h) /\ Of(u, r) = h[n]
  BY <1>1, OfIsFilter
<1>4. Of(u, q) = g[1] \o Of(u, r)
  <2>1. Filter(u, q, Len(q), g) /\ Filter(u, Tail(q), Len(Tail(q)), h)
    BY <1>1, <1>2, <1>3 DEF r
  <2>2. g[Len(q)] = g[1] \o h[Len(Tail(q))]
    BY <2>1, FilterShift
  <2> QED BY <1>1, <1>2, <1>3, <2>2 DEF r
<1>5. g[1] = IF q[1].user = u THEN <<q[1].event>> ELSE <<>>
  <2>1. g[0] = <<>> /\ g[1] = IF q[1].user = u THEN Append(g[0], q[1].event) ELSE g[0]
    <3>1. 1 \in 1..(n + 1) /\ 1 - 1 = 0
      BY <1>1
    <3> QED BY <1>2, <3>1 DEF Filter
  <2>2. \A x : Append(<<>>, x) = <<x>>
    OBVIOUS
  <2> QED BY <2>1, <2>2
<1>6. Of(u, r) \in Seq(Nat)
  BY <1>1, OfType
<1> QED BY <1>1, <1>4, <1>5, <1>6, ConcatEmptySeq DEF r

-----------------------------------------------------------------------------
(* Suffixes of the log of a channel                                        *)

Suffix(l, k) == SubSeq(l, k, Len(l))

LEMMA SuffixAppend ==
  ASSUME NEW l \in Seq(Nat), NEW e \in Nat, NEW k \in 1..(Len(l) + 1)
  PROVE  Suffix(Append(l, e), k) = Append(Suffix(l, k), e)
<1> DEFINE m == Append(l, e)
           n == Len(l)
<1>1. /\ m \in Seq(Nat) /\ n \in Nat /\ Len(m) = n + 1 /\ m[n + 1] = e
      /\ \A i \in 1..n : m[i] = l[i]
  BY AppendProperties
<1>2. Suffix(m, k) = SubSeq(m, k, n) \o <<e>>
  <2>1. k \in 1..Len(m) /\ Len(m) \in k..Len(m) /\ Len(m) - 1 = n
    BY <1>1
  <2> HIDE DEF m
  <2> QED BY <1>1, <2>1, SubSeqRecursiveSecond DEF Suffix
<1>3. SubSeq(m, k, n) = SubSeq(l, k, n)
  <2>1. k \in Int /\ n \in Int /\ \A i \in k..n : i \in 1..n /\ l[i] \in Nat /\ m[i] = l[i]
    BY <1>1, ElementOfSeq
  <2> HIDE DEF m
  <2>2. SubSeq(m, k, n) \in Seq(Nat) /\ SubSeq(l, k, n) \in Seq(Nat)
    BY <2>1, SubSeqProperties
  <2>3. /\ Len(SubSeq(m, k, n)) = Len(SubSeq(l, k, n))
        /\ \A i \in 1..Len(SubSeq(m, k, n)) : SubSeq(m, k, n)[i] = SubSeq(l, k, n)[i]
    BY <2>1, SubSeqProperties
  <2> QED BY <2>2, <2>3, SeqEqual
<1>4. SubSeq(l, k, n) \in Seq(Nat)
  BY <1>1, ElementOfSeq, SubSeqProperties
<1> QED BY <1>2, <1>3, <1>4, AppendIsConcat DEF Suffix

LEMMA SuffixTail ==
  ASSUME NEW l \in Seq(Nat), NEW k \in 1..(Len(l) + 1), NEW e \in Nat, NEW t \in Seq(Nat),
         Suffix(l, k) = <<e>> \o t
  PROVE  k <= Len(l) /\ t = Suffix(l, k + 1)
<1>1. Len(l) \in Nat /\ <<e>> \in Seq(Nat) /\ <<e>> \o t # <<>>
  BY ConcatSimplifications
<1>2. k <= Len(l)
  <2> SUFFICES ASSUME k > Len(l) PROVE FALSE
    BY <1>1
  <2>1. Suffix(l, k) = <<>>
    BY <1>1, SubSeqEmpty DEF Suffix
  <2> QED BY <1>1, <2>1
<1>3. Suffix(l, k) = <<l[k]>> \o Suffix(l, k + 1)
  <2>1. k \in 1..Len(l) /\ Len(l) \in k..Len(l)
    BY <1>1, <1>2
  <2> QED BY <2>1, SubSeqRecursiveFirst DEF Suffix
<1>4. Suffix(l, k + 1) \in Seq(Nat) /\ l[k] \in Nat
  BY <1>1, <1>2, ElementOfSeq, SubSeqProperties DEF Suffix
<1>5. \A x \in Nat, s \in Seq(Nat) : (<<x>> \o s)[1] = x
  OBVIOUS
<1>6. e = l[k]
  BY <1>3, <1>4, <1>5
<1>7. <<e>> \o t = <<e>> \o Suffix(l, k + 1)
  BY <1>3, <1>6
<1>8. t = Suffix(l, k + 1)
  <2>1. \A s, u, v \in Seq(Nat) : s \o u = s \o v => u = v
    BY ConcatSimplifications
  <2> QED BY <1>1, <1>4, <1>7, <2>1, Zenon
<1> QED BY <1>2, <1>8

-----------------------------------------------------------------------------
(* What is relayed                                                         *)

\* What w was sent, and is being sent.
Got(w) == received[w] \o (IF w \in relay.todo THEN <<relay.event>> ELSE <<>>)

\* A socket that has not connected is unknown to the registry and the relay.
Fresh ==
  \A w \in Sockets : pc[w] = "new" =>
    received[w] = <<>> /\ w \notin relay.todo /\ \A u \in Users : w \notin registry[u]

Quiet == subscriber # "listening" => feed = <<>> /\ relay = NoRelay

\* What is queued for a user is the end of its channel.
Backlog ==
  \A u \in Users : /\ Len(Of(u, feed)) <= Len(log[u])
                   /\ Of(u, feed) = Suffix(log[u], Len(log[u]) - Len(Of(u, feed)) + 1)

\* RelayedInOrder, as long as a subscriber may come back.
InOrder ==
  subscriber # "dead" =>
    \A w \in Sockets : Live(w) =>
      /\ joined[w] <= Len(log[UserOf[w]])
      /\ Got(w) \o Of(UserOf[w], feed) = Suffix(log[UserOf[w]], joined[w] + 1)

OInv == IInv /\ TypeOK /\ Fresh /\ Quiet /\ Backlog /\ InOrder

LEMMA InitOInv == Init => OInv
<1> SUFFICES ASSUME Init PROVE OInv
  OBVIOUS
<1>1. IInv
  BY InitIInv
<1>2. TypeOK
  <2>1. feed \in Seq([user : Users, event : Nat]) /\ log \in [Users -> Seq(Nat)] /\ received \in [Sockets -> Seq(Nat)]
    BY EmptySeq DEF Init
  <2> QED BY <1>1, <2>1, BoundsAssumption DEF Init, TypeOK, IInv, RegistryTypes, NoRelay
<1>3. Fresh /\ Quiet /\ InOrder
  BY DEF Init, Fresh, Quiet, InOrder, NoRelay, Live, Connected
<1>4. Backlog
  <2>1. Len(<<>>) = 0 /\ Suffix(<<>>, 1) = <<>>
    BY SubSeqEmpty DEF Suffix
  <2> SUFFICES ASSUME NEW u \in Users
               PROVE  /\ Len(Of(u, feed)) <= Len(log[u])
                      /\ Of(u, feed) = Suffix(log[u], Len(log[u]) - Len(Of(u, feed)) + 1)
    BY DEF Backlog
  <2>2. feed = <<>> /\ log[u] = <<>> /\ Of(u, <<>>) = <<>>
    BY OfEmpty DEF Init
  <2> QED BY <2>1, <2>2
<1> QED BY <1>1, <1>2, <1>3, <1>4 DEF OInv

LEMMA OTypes ==
  ASSUME OInv
  PROVE  /\ feed \in Seq(Message) /\ log \in [Users -> Seq(Nat)] /\ received \in [Sockets -> Seq(Nat)]
         /\ joined \in [Sockets -> Nat]
         /\ \A u \in Users : Of(u, feed) \in Seq(Nat) /\ Len(log[u]) \in Nat /\ Len(Of(u, feed)) \in Nat
         /\ relay.event \in Nat
         /\ \A w \in Sockets : UserOf[w] \in Users /\ Got(w) \in Seq(Nat) /\ received[w] \in Seq(Nat)
<1>1. /\ feed \in Seq(Message) /\ log \in [Users -> Seq(Nat)] /\ received \in [Sockets -> Seq(Nat)]
      /\ joined \in [Sockets -> Nat] /\ relay.event \in Nat
  BY DEF OInv, TypeOK, Message
<1>2. ASSUME NEW u \in Users PROVE Of(u, feed) \in Seq(Nat) /\ Len(log[u]) \in Nat /\ Len(Of(u, feed)) \in Nat
  BY <1>1, OfType
<1>3. ASSUME NEW w \in Sockets PROVE UserOf[w] \in Users /\ Got(w) \in Seq(Nat) /\ received[w] \in Seq(Nat)
  <2>1. received[w] \in Seq(Nat) /\ <<relay.event>> \in Seq(Nat) /\ <<>> \in Seq(Nat)
    BY <1>1
  <2> QED BY <2>1, UserOfAssumption, ConcatProperties DEF Got
<1> QED BY <1>1, <1>2, <1>3

\* Steps that leave the channel and the relay alone, and connect nobody.
LEMMA ChannelUntouched ==
  ASSUME OInv, IInv', TypeOK',
         UNCHANGED <<subscriber, feed, relay, log, received, joined>>,
         \A w \in Sockets : pc'[w] = "new" => pc[w] = "new",
         \A w \in Sockets : pc'[w] \in Connected => pc[w] \in Connected,
         alive' \subseteq alive, \A u \in Users : registry'[u] \subseteq registry[u]
  PROVE  OInv'
<1>1. Fresh' /\ Quiet'
  BY DEF OInv, Fresh, Quiet
<1>2. Backlog'
  BY DEF OInv, Backlog
<1>3. InOrder'
  <2>1. \A w \in Sockets : Live(w)' => Live(w)
    BY DEF Live
  <2>2. \A w \in Sockets : Got(w)' = Got(w)
    BY DEF Got
  <2> QED BY <2>1, <2>2 DEF OInv, InOrder
<1> QED BY <1>1, <1>2, <1>3 DEF OInv

-----------------------------------------------------------------------------
(* Types                                                                   *)

\* The part of TypeOK that IInv does not have.
Rest ==
  /\ \A u \in Users : \A w \in registry[u] : UserOf[w] = u
  /\ presence \subseteq Users
  /\ subscriber \in {"starting", "listening", "dead"}
  /\ relay.todo = {} => relay = NoRelay
  /\ log \in [Users -> Seq(Nat)]
  /\ received \in [Sockets -> Seq(Nat)]
  /\ joined \in [Sockets -> Nat]
  /\ failures \in 0..MaxFailures

LEMMA TypesSplit == (IInv => (TypeOK <=> Rest)) /\ (IInv' => (TypeOK' <=> Rest'))
BY DEF TypeOK, Rest, IInv, RegistryTypes, Message

LEMMA FailsType ==
  ASSUME failures \in 0..MaxFailures, Fails \/ UNCHANGED failures
  PROVE  failures' \in 0..MaxFailures
BY BoundsAssumption DEF Fails

-----------------------------------------------------------------------------
(* The endpoint                                                            *)

LEMMA HandlersKeepOrder ==
  ASSUME OInv, NEW w \in Sockets,
         \/ SetsPresence(w) \/ Hello(w) \/ SetupFails(w) \/ NoticesClose(w) \/ EventFails(w)
         \/ ClearsPresence(w) \/ PresenceUpdate(w) \/ Typing(w) \/ Vanishes(w)
  PROVE  OInv'
<1>1. IInv'
  BY NextKeeps DEF OInv, Next
<1>2. UNCHANGED <<subscriber, feed, relay, log, received, joined>>
  BY DEF SetsPresence, Hello, SetupFails, NoticesClose, EventFails, ClearsPresence, PresenceUpdate,
         Typing, Vanishes, clients, channel, vars
<1>3. /\ \A v \in Sockets : pc'[v] = "new" => pc[v] = "new"
      /\ \A v \in Sockets : pc'[v] \in Connected => pc[v] \in Connected
  <2>1. pc \in [Sockets -> {"new", "leaving", "ended"} \cup Connected]
    BY DEF OInv, TypeOK
  <2>2. \/ pc' = pc
        \/ pc' = [pc EXCEPT ![w] = "hello"] /\ pc[w] = "presence"
        \/ pc' = [pc EXCEPT ![w] = "serving"] /\ pc[w] = "hello"
        \/ pc' = [pc EXCEPT ![w] = "ended"]
        \/ pc' = [pc EXCEPT ![w] = "leaving"]
    BY DEF SetsPresence, Hello, SetupFails, NoticesClose, EventFails, ClearsPresence, PresenceUpdate,
           Typing, Vanishes, handlers, vars
  <2> QED BY <2>1, <2>2 DEF Connected
<1>4. alive' \subseteq alive
  BY DEF SetsPresence, Hello, SetupFails, NoticesClose, EventFails, ClearsPresence, PresenceUpdate,
         Typing, Vanishes, clients, vars
<1>5. \A u \in Users : registry'[u] \subseteq registry[u]
  <2>1. registry \in [Users -> SUBSET Sockets]
    BY DEF OInv, TypeOK
  <2>2. registry' = registry \/ registry' = [registry EXCEPT ![UserOf[w]] = registry[UserOf[w]] \ {w}]
    BY DEF SetsPresence, Hello, SetupFails, NoticesClose, EventFails, ClearsPresence, PresenceUpdate,
           Typing, Vanishes, Unregisters, handlers, vars
  <2> QED BY <2>1, <2>2
<1>6. TypeOK'
  <2>1. TypeOK /\ Rest
    BY TypesSplit DEF OInv
  <2>2. presence' \subseteq Users
    BY <2>1, UserOfAssumption DEF Rest, SetsPresence, Hello, SetupFails, NoticesClose, EventFails,
         ClearsPresence, PresenceUpdate, Typing, Vanishes, handlers, vars
  <2>3. failures' \in 0..MaxFailures
    <3>1. Fails \/ UNCHANGED failures
      BY DEF SetsPresence, Hello, SetupFails, NoticesClose, EventFails, ClearsPresence, PresenceUpdate,
           Typing, Vanishes, vars
    <3> QED BY <2>1, <3>1, FailsType DEF Rest
  <2>4. \A u \in Users : \A v \in registry'[u] : UserOf[v] = u
    BY <2>1, <1>5 DEF Rest
  <2>5. Rest'
    BY <2>1, <2>2, <2>3, <2>4, <1>2 DEF Rest, NoRelay
  <2> QED BY <1>1, <2>5, TypesSplit
<1> QED BY <1>1, <1>2, <1>3, <1>4, <1>5, <1>6, ChannelUntouched

LEMMA ConnectKeepsOrder ==
  ASSUME OInv, NEW w \in Sockets, Connect(w)
  PROVE  OInv'
<1>1. IInv'
  BY NextKeeps DEF OInv, Next
<1>2. PICK u \in Users : u = UserOf[w]
  BY UserOfAssumption
<1>3. /\ pc[w] = "new" /\ w \in alive
      /\ registry' = [registry EXCEPT ![u] = registry[u] \cup {w}]
      /\ joined' = [joined EXCEPT ![w] = Len(log[u]) - Len(Of(u, feed))]
      /\ pc' = [pc EXCEPT ![w] = "presence"]
      /\ UNCHANGED <<alive, presence, subscriber, feed, log, events, relay, received, failures>>
  BY <1>2 DEF Connect, channel
<1>4. /\ pc \in [Sockets -> {"new", "leaving", "ended"} \cup Connected]
      /\ registry \in [Users -> SUBSET Sockets]
      /\ Rest
  BY TypesSplit DEF OInv, TypeOK
<1>5. /\ Of(u, feed) \in Seq(Nat) /\ Len(log[u]) \in Nat /\ Len(Of(u, feed)) \in Nat
      /\ Len(Of(u, feed)) <= Len(log[u])
      /\ Of(u, feed) = Suffix(log[u], Len(log[u]) - Len(Of(u, feed)) + 1)
  BY OTypes DEF OInv, Backlog
<1>6. joined[w] \in Nat /\ Len(log[u]) - Len(Of(u, feed)) \in Nat
  BY <1>4, <1>5 DEF Rest
<1>7. TypeOK'
  <2>1. joined' \in [Sockets -> Nat]
    BY <1>3, <1>4, <1>6 DEF Rest
  <2>2. \A v \in Users : \A x \in registry'[v] : UserOf[x] = v
    BY <1>2, <1>3, <1>4 DEF Rest
  <2>3. Rest'
    BY <1>3, <1>4, <2>1, <2>2 DEF Rest, NoRelay
  <2> QED BY <1>1, <2>3, TypesSplit
<1>8. received[w] = <<>> /\ w \notin relay.todo
  BY <1>3 DEF OInv, Fresh
<1>9. Fresh'
  BY <1>3, <1>4 DEF OInv, Fresh
<1>10. Quiet' /\ Backlog'
  BY <1>3 DEF OInv, Quiet, Backlog
<1>11. InOrder'
  <2> SUFFICES ASSUME subscriber # "dead", NEW v \in Sockets, Live(v)'
               PROVE  /\ joined'[v] <= Len(log[UserOf[v]])
                      /\ Got(v)' \o Of(UserOf[v], feed) = Suffix(log[UserOf[v]], joined'[v] + 1)
    BY <1>3 DEF InOrder
  <2>1. Got(v)' = Got(v)
    BY <1>3 DEF Got
  <2>2. CASE v = w
    <3>1. joined'[v] = Len(log[u]) - Len(Of(u, feed))
      BY <1>3, <1>4, <2>2 DEF Rest
    <3>2. Got(v) = <<>>
      BY <1>8, <2>2 DEF Got
    <3>3. Got(v) \o Of(u, feed) = Of(u, feed)
      BY <3>2, <1>5, ConcatEmptySeq
    <3>4. joined'[v] <= Len(log[u])
      BY <3>1, <1>5
    <3>5. Got(v)' \o Of(u, feed) = Suffix(log[u], joined'[v] + 1)
      BY <3>1, <3>3, <1>5, <2>1
    <3>6. UserOf[v] = u
      BY <1>2, <2>2
    <3> QED BY <3>4, <3>5, <3>6
  <2>3. CASE v # w
    <3>1. joined'[v] = joined[v] /\ Live(v)
      BY <1>3, <1>4, <2>3 DEF Rest, Live
    <3> QED BY <2>1, <3>1 DEF OInv, InOrder
  <2> QED BY <2>2, <2>3
<1> QED BY <1>1, <1>7, <1>9, <1>10, <1>11 DEF OInv

-----------------------------------------------------------------------------
(* The channel                                                             *)

LEMMA PublishKeepsOrder ==
  ASSUME OInv, IInv', NEW u \in Users, PublishTo(u), UNCHANGED <<handlers, clients, relay, failures>>
  PROVE  OInv'
<1>1. /\ UNCHANGED <<pc, registry, presence, alive, received, joined, relay, failures, subscriber>>
  BY DEF PublishTo, handlers, clients
<1>2. Rest
  BY TypesSplit DEF OInv
<1>3. events \in Nat /\ events + 1 \in Nat
  BY DEF OInv, TypeOK
<1>4. CASE subscriber # "listening"
  <2>1. UNCHANGED <<feed, log>>
    BY <1>4 DEF PublishTo
  <2>2. Rest'
    BY <1>1, <1>2, <2>1 DEF Rest, NoRelay
  <2> QED BY <1>1, <2>1, <2>2, TypesSplit, ChannelUntouched
<1>5. CASE subscriber = "listening"
  <2>1. PICK m \in Message, e \in Nat : m = [user |-> u, event |-> e] /\ e = events + 1
    BY <1>3 DEF Message
  <2>2. feed' = Append(feed, m) /\ log' = [log EXCEPT ![u] = Append(log[u], e)] /\ m.user = u /\ m.event = e
    BY <1>5, <2>1 DEF PublishTo
  <2>3. /\ feed \in Seq(Message) /\ log \in [Users -> Seq(Nat)]
        /\ \A v \in Users : Of(v, feed) \in Seq(Nat) /\ Len(log[v]) \in Nat /\ Len(Of(v, feed)) \in Nat
    BY OTypes
  <2>4. /\ log'[u] = Append(log[u], e) /\ Len(log'[u]) = Len(log[u]) + 1
        /\ \A v \in Users : v # u => log'[v] = log[v]
    BY <2>2, <2>3
  <2>5. Of(u, feed)' = Append(Of(u, feed), e) /\ Len(Of(u, feed)') = Len(Of(u, feed)) + 1
    BY <2>2, <2>3, OfAppend
  <2>6. \A v \in Users : v # u => Of(v, feed)' = Of(v, feed)
    BY <2>2, <2>3, OfAppend
  <2>7. Rest'
    <3>1. log' \in [Users -> Seq(Nat)]
      BY <2>2, <2>3
    <3> QED BY <1>1, <1>2, <3>1 DEF Rest, NoRelay
  <2>8. Fresh' /\ Quiet'
    BY <1>1, <1>5 DEF OInv, Fresh, Quiet
  <2>9. Backlog'
    <3> SUFFICES ASSUME NEW v \in Users
                 PROVE  /\ Len(Of(v, feed)') <= Len(log'[v])
                        /\ Of(v, feed)' = Suffix(log'[v], Len(log'[v]) - Len(Of(v, feed)') + 1)
      BY DEF Backlog
    <3>1. /\ Len(Of(v, feed)) <= Len(log[v])
          /\ Of(v, feed) = Suffix(log[v], Len(log[v]) - Len(Of(v, feed)) + 1)
      BY DEF OInv, Backlog
    <3>2. CASE v = u
      <4>1. PICK k : k = Len(log[u]) - Len(Of(u, feed)) + 1
        OBVIOUS
      <4>2. k \in 1..(Len(log[u]) + 1) /\ log[u] \in Seq(Nat)
        BY <2>3, <3>1, <3>2, <4>1
      <4>3. Suffix(Append(log[u], e), k) = Append(Suffix(log[u], k), e)
        BY <4>2, SuffixAppend
      <4>4. Len(log'[u]) - Len(Of(u, feed)') + 1 = k
        BY <2>3, <2>4, <2>5, <4>1
      <4>5. Of(u, feed)' = Suffix(log'[u], k)
        BY <2>4, <2>5, <3>1, <3>2, <4>1, <4>3
      <4>6. Len(Of(u, feed)') <= Len(log'[u])
        BY <2>3, <2>4, <2>5, <3>1, <3>2
      <4> QED BY <3>2, <4>4, <4>5, <4>6
    <3>3. CASE v # u
      BY <2>4, <2>6, <3>1, <3>3
    <3> QED BY <3>2, <3>3
  <2>10. InOrder'
    <3> SUFFICES ASSUME NEW v \in Sockets, Live(v)'
                 PROVE  /\ joined[v] <= Len(log'[UserOf[v]])
                        /\ Got(v)' \o Of(UserOf[v], feed)' = Suffix(log'[UserOf[v]], joined[v] + 1)
      BY <1>1 DEF InOrder
    <3>1. Live(v) /\ Got(v)' = Got(v)
      BY <1>1 DEF Live, Got
    <3>2. /\ joined[v] <= Len(log[UserOf[v]])
          /\ Got(v) \o Of(UserOf[v], feed) = Suffix(log[UserOf[v]], joined[v] + 1)
      BY <1>5, <3>1 DEF OInv, InOrder
    <3>3. UserOf[v] \in Users /\ Got(v) \in Seq(Nat) /\ joined[v] \in Nat
      BY OTypes
    <3>4. CASE UserOf[v] = u
      <4>1. joined[v] + 1 \in 1..(Len(log[u]) + 1) /\ log[u] \in Seq(Nat)
        BY <2>3, <3>2, <3>3, <3>4
      <4>2. Suffix(Append(log[u], e), joined[v] + 1) = Append(Suffix(log[u], joined[v] + 1), e)
        BY <4>1, SuffixAppend
      <4>3. Append(Got(v) \o Of(u, feed), e) = Got(v) \o Append(Of(u, feed), e)
        BY <2>3, <3>3, AppendConcat
      <4>4. joined[v] <= Len(log'[u])
        BY <2>3, <2>4, <3>2, <3>3, <3>4
      <4>5. Got(v) \o Of(u, feed)' = Suffix(log'[u], joined[v] + 1)
        BY <2>4, <2>5, <3>2, <3>4, <4>2, <4>3
      <4> QED BY <3>1, <3>4, <4>4, <4>5
    <3>5. CASE UserOf[v] # u
      BY <2>4, <2>6, <3>1, <3>2, <3>3, <3>5
    <3> QED BY <3>4, <3>5
  <2> QED BY <2>7, <2>8, <2>9, <2>10, TypesSplit DEF OInv
<1> QED BY <1>4, <1>5

LEMMA SubscribesKeepsOrder ==
  ASSUME OInv, Subscribes
  PROVE  OInv'
<1>1. IInv'
  BY NextKeeps DEF OInv, Next
<1>2. /\ subscriber = "starting" /\ subscriber' = "listening"
      /\ UNCHANGED <<pc, registry, presence, alive, received, joined, feed, log, events, relay, failures>>
  BY DEF Subscribes, handlers, clients
<1>3. TypeOK'
  <2>1. Rest
    BY TypesSplit DEF OInv
  <2>2. Rest'
    BY <1>2, <2>1 DEF Rest, NoRelay
  <2> QED BY <1>1, <2>2, TypesSplit
<1>4. Fresh' /\ Quiet' /\ Backlog'
  BY <1>2 DEF OInv, Fresh, Quiet, Backlog
<1>5. InOrder'
  <2>1. \A w \in Sockets : Got(w)' = Got(w) /\ (Live(w)' => Live(w))
    BY <1>2 DEF Got, Live
  <2> QED BY <1>2, <2>1 DEF OInv, InOrder
<1> QED BY <1>1, <1>3, <1>4, <1>5 DEF OInv

\* The feed may be emptied once no more is promised to the live sockets.
LEMMA EmptyBacklog ==
  ASSUME OInv, feed' = <<>>, log' = log
  PROVE  Backlog'
<1> SUFFICES ASSUME NEW u \in Users
             PROVE  /\ Len(Of(u, <<>>)) <= Len(log[u])
                    /\ Of(u, <<>>) = Suffix(log[u], Len(log[u]) - Len(Of(u, <<>>)) + 1)
  BY DEF Backlog
<1>1. log[u] \in Seq(Nat) /\ Len(log[u]) \in Nat
  BY OTypes
<1>2. Of(u, <<>>) = <<>> /\ Len(<<>>) = 0
  BY OfEmpty
<1>3. Suffix(log[u], Len(log[u]) + 1) = <<>>
  BY <1>1, SubSeqEmpty DEF Suffix
<1> QED BY <1>1, <1>2, <1>3

LEMMA DiesKeepsOrder ==
  ASSUME OInv, SubscriberDies
  PROVE  OInv'
<1>1. IInv'
  BY NextKeeps DEF OInv, Next
<1>2. /\ relay = NoRelay /\ subscriber' = "dead" /\ feed' = <<>> /\ Fails
      /\ UNCHANGED <<pc, registry, presence, alive, received, joined, log, events, relay>>
  BY DEF SubscriberDies, handlers, clients
<1>3. TypeOK'
  <2>1. Rest
    BY TypesSplit DEF OInv
  <2>2. Rest'
    BY <1>2, <2>1, FailsType DEF Rest, NoRelay
  <2> QED BY <1>1, <2>2, TypesSplit
<1>4. Fresh' /\ Quiet' /\ InOrder'
  BY <1>2 DEF OInv, Fresh, Quiet, InOrder, NoRelay
<1>5. Backlog'
  BY <1>2, EmptyBacklog
<1> QED BY <1>1, <1>3, <1>4, <1>5 DEF OInv

-----------------------------------------------------------------------------
(* The relay                                                               *)

LEMMA TakesKeepsOrder ==
  ASSUME OInv, Takes
  PROVE  OInv'
<1>1. IInv'
  BY NextKeeps DEF OInv, Next, Relay
<1>2. feed \in Seq(Message) /\ feed # <<>> /\ Head(feed) \in Message
  BY OTypes, HeadTailProperties DEF Takes
<1>3. PICK x \in Users, e \in Nat : Head(feed).user = x /\ Head(feed).event = e
  BY <1>2 DEF Message
<1>4. /\ subscriber = "listening" /\ relay = NoRelay /\ feed' = Tail(feed)
      /\ relay' = IF registry[x] = {} THEN NoRelay
                  ELSE [user |-> x, event |-> e, todo |-> registry[x], dead |-> {}]
      /\ UNCHANGED <<pc, registry, presence, alive, received, joined, subscriber, log, failures>>
  BY <1>3 DEF Takes, handlers, clients
<1>5. /\ relay'.todo = registry[x]
      /\ registry[x] # {} => relay'.event = e
      /\ registry[x] = {} => relay' = NoRelay
  BY <1>4 DEF NoRelay
<1>6. Rest
  BY TypesSplit DEF OInv
<1>7. TypeOK'
  <2>1. Rest'
    BY <1>4, <1>5, <1>6 DEF Rest
  <2> QED BY <1>1, <2>1, TypesSplit
<1>8. Fresh' /\ Quiet'
  BY <1>4, <1>5 DEF OInv, Fresh, Quiet
<1>9. \A u \in Users : Of(u, feed) = IF x = u THEN <<e>> \o Of(u, feed)' ELSE Of(u, feed)'
  BY <1>2, <1>3, <1>4, OfHead
<1>10. \A u \in Users : Of(u, feed)' \in Seq(Nat) /\ Len(Of(u, feed)') \in Nat
  <2>1. feed' \in Seq(Message)
    BY <1>2, <1>4, HeadTailProperties
  <2> QED BY <2>1, OfType
<1>11. Backlog'
  <2> SUFFICES ASSUME NEW u \in Users
               PROVE  /\ Len(Of(u, feed)') <= Len(log[u])
                      /\ Of(u, feed)' = Suffix(log[u], Len(log[u]) - Len(Of(u, feed)') + 1)
    BY <1>4 DEF Backlog
  <2>1. /\ Len(Of(u, feed)) <= Len(log[u])
        /\ Of(u, feed) = Suffix(log[u], Len(log[u]) - Len(Of(u, feed)) + 1)
    BY DEF OInv, Backlog
  <2>2. CASE x = u
    <3>1. Of(u, feed) = <<e>> \o Of(u, feed)'
      BY <1>9, <2>2
    <3>2. Len(Of(u, feed)) = Len(Of(u, feed)') + 1
      BY <1>10, <3>1
    <3>3. PICK k : k = Len(log[u]) - Len(Of(u, feed)) + 1
      OBVIOUS
    <3>4. k \in 1..(Len(log[u]) + 1) /\ log[u] \in Seq(Nat) /\ Len(log[u]) \in Nat
      BY <1>10, <2>1, <3>2, <3>3, OTypes
    <3>5. Suffix(log[u], k) = <<e>> \o Of(u, feed)'
      BY <2>1, <3>1, <3>3
    <3>6. Of(u, feed)' = Suffix(log[u], k + 1)
      BY <1>10, <3>4, <3>5, SuffixTail
    <3>7. k + 1 = Len(log[u]) - Len(Of(u, feed)') + 1
      BY <1>10, <3>2, <3>3, <3>4
    <3>8. Len(Of(u, feed)') <= Len(log[u])
      BY <1>10, <2>1, <3>2, <3>4
    <3> QED BY <3>6, <3>7, <3>8
  <2>3. CASE x # u
    BY <1>9, <2>1, <2>3
  <2> QED BY <2>2, <2>3
<1>12. InOrder'
  <2> SUFFICES ASSUME NEW v \in Sockets, Live(v)'
               PROVE  /\ joined[v] <= Len(log[UserOf[v]])
                      /\ Got(v)' \o Of(UserOf[v], feed)' = Suffix(log[UserOf[v]], joined[v] + 1)
    BY <1>4 DEF InOrder
  <2>1. Live(v) /\ v \in registry[UserOf[v]]
    BY <1>4 DEF Live, OInv, IInv, Registered
  <2>2. /\ joined[v] <= Len(log[UserOf[v]])
        /\ Got(v) \o Of(UserOf[v], feed) = Suffix(log[UserOf[v]], joined[v] + 1)
    BY <1>4, <2>1 DEF OInv, InOrder
  <2>3. UserOf[v] \in Users /\ received[v] \in Seq(Nat)
    BY OTypes
  <2>4. Got(v) = received[v]
    <3>1. Got(v) = received[v] \o <<>>
      BY <1>4 DEF Got, NoRelay
    <3> QED BY <2>3, <3>1, ConcatEmptySeq
  <2>5. CASE UserOf[v] = x
    <3>1. Got(v)' = received[v] \o <<e>>
      BY <1>4, <1>5, <2>1, <2>5 DEF Got
    <3>2. Of(x, feed) = <<e>> \o Of(x, feed)'
      BY <1>9
    <3>3. (received[v] \o <<e>>) \o Of(x, feed)' = received[v] \o (<<e>> \o Of(x, feed)')
      <4>1. <<e>> \in Seq(Nat)
        OBVIOUS
      <4>2. Of(x, feed)' \in Seq(Nat)
        BY <1>10
      <4>3. \A r, s, t \in Seq(Nat) : (r \o s) \o t = r \o (s \o t)
        BY ConcatAssociative
      <4> QED BY <2>3, <4>1, <4>2, <4>3, Zenon
    <3> QED BY <2>2, <2>4, <2>5, <3>1, <3>2, <3>3
  <2>6. CASE UserOf[v] # x
    <3>1. v \notin relay'.todo
      BY <1>5, <1>6, <2>6 DEF Rest
    <3>2. Got(v)' = Got(v)
      BY <1>4, <3>1 DEF Got, NoRelay
    <3> QED BY <1>9, <2>2, <2>3, <2>6, <3>2
  <2> QED BY <2>5, <2>6
<1> QED BY <1>1, <1>7, <1>8, <1>11, <1>12 DEF OInv

\* The loop goes on: what it leaves is what it had, less one socket.
LEMMA ContinueLeaves ==
  ASSUME TypeOK, NEW todo, NEW dead, Continue(todo, dead)
  PROVE  /\ relay'.todo = todo
         /\ relay'.todo # {} => relay'.event = relay.event
         /\ relay'.todo = {} => relay' = NoRelay
         /\ \A u \in Users : registry'[u] \subseteq registry[u]
<1>1. CASE todo = {}
  <2>1. registry \in [Users -> SUBSET Sockets]
    BY DEF TypeOK
  <2> QED BY <1>1, <2>1 DEF Continue, NoRelay
<1>2. CASE todo # {}
  <2>1. relay \in [user : Users \cup {None}, event : Nat, todo : SUBSET Sockets, dead : SUBSET Sockets]
    BY DEF TypeOK
  <2>2. relay' = [relay EXCEPT !.todo = todo, !.dead = dead] /\ UNCHANGED registry
    BY <1>2 DEF Continue
  <2>3. relay'.todo = todo /\ relay'.event = relay.event
    BY <2>1, <2>2
  <2> QED BY <1>2, <2>2, <2>3
<1> QED BY <1>1, <1>2

LEMMA SendsKeepOrder ==
  ASSUME OInv, NEW w \in Sockets, SendRaises(w) \/ SendSucceeds(w)
  PROVE  OInv'
<1>1. IInv'
  BY NextKeeps DEF OInv, Next, Relay
<1>2. PICK todo, dead : Continue(todo, dead) /\ todo = relay.todo \ {w}
  BY DEF SendRaises, SendSucceeds
<1>3. /\ w \in relay.todo
      /\ UNCHANGED <<pc, presence, alive, joined, subscriber, feed, log, failures>>
      /\ \/ w \notin alive /\ received' = received
         \/ received' = [received EXCEPT ![w] = Append(received[w], relay.event)]
  BY DEF SendRaises, SendSucceeds, clients, channel
<1>4. /\ relay'.todo = relay.todo \ {w}
      /\ relay'.todo # {} => relay'.event = relay.event
      /\ relay'.todo = {} => relay' = NoRelay
      /\ \A u \in Users : registry'[u] \subseteq registry[u]
  BY <1>2, ContinueLeaves DEF OInv
<1>5. Rest /\ received \in [Sockets -> Seq(Nat)] /\ relay.event \in Nat
  BY OTypes, TypesSplit DEF OInv
<1>6. /\ \A v \in Sockets : v # w => received'[v] = received[v]
      /\ received'[w] \in {received[w], Append(received[w], relay.event)}
      /\ w \in alive => received'[w] = Append(received[w], relay.event)
      /\ received' \in [Sockets -> Seq(Nat)]
  <2>1. received[w] \in Seq(Nat) /\ Append(received[w], relay.event) \in Seq(Nat)
    BY <1>5, AppendProperties
  <2>2. PICK s \in Seq(Nat) : s = Append(received[w], relay.event)
    BY <2>1
  <2>3. \/ w \notin alive /\ received' = received
        \/ received' = [received EXCEPT ![w] = s]
    BY <1>3, <2>2
  <2>4. /\ \A v \in Sockets : v # w => received'[v] = received[v]
        /\ received'[w] \in {received[w], s}
        /\ w \in alive => received'[w] = s
        /\ received' \in [Sockets -> Seq(Nat)]
    BY <1>5, <2>3
  <2> QED BY <2>2, <2>4
<1>7. TypeOK'
  <2>1. Rest'
    BY <1>3, <1>4, <1>5, <1>6 DEF Rest
  <2> QED BY <1>1, <2>1, TypesSplit
<1>8. relay # NoRelay
  BY <1>3 DEF NoRelay
<1>9. Fresh' /\ Quiet' /\ Backlog'
  BY <1>3, <1>4, <1>6, <1>8 DEF OInv, Fresh, Quiet, Backlog
<1>10. InOrder'
  <2>1. ASSUME NEW v \in Sockets, Live(v)' PROVE Live(v) /\ Got(v)' = Got(v)
    <3>1. Live(v)
      BY <1>3, <2>1 DEF Live
    <3>2. CASE v = w
      <4>1. received'[w] = Append(received[w], relay.event) /\ w \notin relay'.todo
        BY <1>4, <1>6, <3>1, <3>2 DEF Live
      <4>2. Got(w)' = received'[w] \o <<>>
        BY <4>1 DEF Got
      <4>3. received'[w] \in Seq(Nat) /\ received[w] \in Seq(Nat)
        BY <1>5, <1>6
      <4>4. Got(w)' = received[w] \o <<relay.event>>
        BY <1>5, <4>1, <4>2, <4>3, ConcatEmptySeq, AppendIsConcat
      <4> QED BY <1>3, <3>1, <3>2, <4>4 DEF Got
    <3>3. CASE v # w
      <4>1. received'[v] = received[v] /\ (v \in relay'.todo <=> v \in relay.todo)
        BY <1>4, <1>6, <3>3
      <4>2. v \in relay'.todo => relay'.event = relay.event
        BY <1>4
      <4> QED BY <3>1, <4>1, <4>2 DEF Got
    <3> QED BY <3>2, <3>3
  <2> QED BY <1>3, <2>1 DEF OInv, InOrder
<1> QED BY <1>1, <1>7, <1>9, <1>10 DEF OInv

LEMMA RestartKeepsOrder ==
  ASSUME OInv, Restart
  PROVE  OInv'
<1>1. IInv'
  BY NextKeeps DEF OInv, Next
<1>2. /\ pc' = [w \in Sockets |-> IF pc[w] = "new" THEN "new" ELSE "ended"]
      /\ registry' = [u \in Users |-> {}]
      /\ subscriber' = "starting" /\ feed' = <<>> /\ relay' = NoRelay /\ Fails
      /\ UNCHANGED <<presence, log, received, joined>>
  BY DEF Restart
<1>3. Rest
  BY TypesSplit DEF OInv
<1>4. TypeOK'
  <2>1. Rest'
    BY <1>2, <1>3, FailsType DEF Rest
  <2> QED BY <1>1, <2>1, TypesSplit
<1>5. \A w \in Sockets : ~ Live(w)'
  BY <1>2 DEF Live, Connected
<1>6. Fresh' /\ Quiet' /\ InOrder'
  BY <1>2, <1>5 DEF OInv, Fresh, Quiet, InOrder, NoRelay
<1>7. Backlog'
  BY <1>2, EmptyBacklog
<1> QED BY <1>1, <1>4, <1>6, <1>7 DEF OInv

-----------------------------------------------------------------------------

LEMMA NextKeepsOrder ==
  ASSUME OInv, [Next]_vars
  PROVE  OInv'
<1>1. IInv'
  BY NextKeeps DEF OInv
<1>2. ASSUME NEW w \in Sockets,
             \/ Connect(w)
             \/ SetsPresence(w) \/ Hello(w) \/ SetupFails(w) \/ NoticesClose(w) \/ EventFails(w)
             \/ ClearsPresence(w) \/ PresenceUpdate(w) \/ Typing(w) \/ Vanishes(w)
      PROVE  OInv'
  BY <1>2, ConnectKeepsOrder, HandlersKeepOrder
<1>3. ASSUME NEW w \in Sockets, NEW peer \in Users, CallEvent(w, peer) PROVE OInv'
  BY <1>1, <1>3, PublishKeepsOrder DEF CallEvent
<1>4. ASSUME NEW u \in Users, Published(u) PROVE OInv'
  BY <1>1, <1>4, PublishKeepsOrder DEF Published
<1>5. ASSUME NEW u \in Users, PresenceExpires(u) PROVE OInv'
  <2>1. /\ presence' \subseteq presence
        /\ UNCHANGED <<pc, alive, registry, subscriber, feed, relay, log, received, joined, failures>>
    BY <1>5 DEF PresenceExpires, clients, channel
  <2>2. TypeOK'
    <3>1. Rest
      BY TypesSplit DEF OInv
    <3>2. Rest'
      BY <2>1, <3>1 DEF Rest, NoRelay
    <3> QED BY <1>1, <3>2, TypesSplit
  <2> QED BY <1>1, <2>1, <2>2, ChannelUntouched
<1>6. CASE Subscribes
  BY <1>6, SubscribesKeepsOrder
<1>7. CASE Relay
  BY <1>7, TakesKeepsOrder, SendsKeepOrder DEF Relay
<1>8. CASE SubscriberDies
  BY <1>8, DiesKeepsOrder
<1>9. CASE Restart
  BY <1>9, RestartKeepsOrder
<1>10. CASE UNCHANGED vars
  <2>1. TypeOK'
    BY <1>10 DEF OInv, TypeOK, vars, NoRelay
  <2> QED BY <1>1, <1>10, <2>1, ChannelUntouched DEF vars
<1> QED BY <1>2, <1>3, <1>4, <1>5, <1>6, <1>7, <1>8, <1>9, <1>10 DEF Next

THEOREM OrderInvariance == SafetySpec => []OInv
<1>1. Init => OInv
  BY InitOInv
<1>2. OInv /\ [Next]_vars => OInv'
  BY NextKeepsOrder
<1> QED BY <1>1, <1>2, PTL DEF SafetySpec

\* Between the Redis channel and a live socket nothing is lost, repeated or
\* reordered, whichever sockets connect, fail and die during relays
\* (manager.py send_to_user, redis_subscriber; router.py websocket_endpoint).
THEOREM RelayKeepsOrder == SafetySpec => []RelayedInOrder
<1>1. OInv => RelayedInOrder
  <2> SUFFICES ASSUME OInv, subscriber = "listening", NEW w \in Sockets, Live(w)
               PROVE  Got(w) \o Of(UserOf[w], feed)
                        = SubSeq(log[UserOf[w]], joined[w] + 1, Len(log[UserOf[w]]))
    BY DEF RelayedInOrder, OInv, Got
  <2> QED BY DEF OInv, InOrder, Suffix
<1> QED BY <1>1, OrderInvariance, PTL
=============================================================================
