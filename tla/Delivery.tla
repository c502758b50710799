------------------------------ MODULE Delivery ------------------------------
(***************************************************************************)
(* What the transactional outbox promises its callers, without workers,    *)
(* batches, locks or retries: an event that a request committed is handed  *)
(* to Redis for each of its target users before it is reported processed,  *)
(* unless it is given up; nothing is handed over for an event that no      *)
(* request committed; and every committed event is settled in the end.     *)
(***************************************************************************)
EXTENDS Naturals

CONSTANTS Events,      \* identities of outbox_events rows
          Users,       \* users an event can be addressed to
          TargetsOf    \* TargetsOf[e]: the users dispatching e must reach

VARIABLES state,       \* state[e]: absent, pending, processed or failed
          reached      \* reached[e]: users for whom e was handed to Redis

vars == <<state, reached>>

States == {"absent", "pending", "processed", "failed"}

TypeOK == /\ state \in [Events -> States]
          /\ reached \in [Events -> SUBSET Users]

Init == /\ state = [e \in Events |-> "absent"]
        /\ reached = [e \in Events |-> {}]

Post(e) ==
  /\ state[e] = "absent"
  /\ state' = [state EXCEPT ![e] = "pending"]
  /\ UNCHANGED reached

\* A worker cut off from the database may still publish an event that
\* another worker has settled, so only "absent" is excluded.
Reach(e, u) ==
  /\ state[e] # "absent"
  /\ u \in TargetsOf[e]
  /\ reached' = [reached EXCEPT ![e] = @ \cup {u}]
  /\ UNCHANGED state

\* The outcome of one committed batch: every event of the batch becomes
\* processed (all its targets were reached), is given up, or stays pending.
Settle(done, dropped) ==
  /\ \A e \in done \cup dropped : state[e] = "pending"
  /\ done \cap dropped = {}
  /\ \A e \in done : TargetsOf[e] \subseteq reached[e]
  /\ state' = [e \in Events |-> CASE e \in done -> "processed"
                                  [] e \in dropped -> "failed"
                                  [] OTHER -> state[e]]
  /\ UNCHANGED reached

Next == \/ \E e \in Events : Post(e)
        \/ \E e \in Events, u \in Users : Reach(e, u)
        \/ \E done, dropped \in SUBSET Events : Settle(done, dropped)

Safety == Init /\ [][Next]_vars

\* Every committed event is settled, one way or the other.
Settled == \A e \in Events : (state[e] = "pending") ~> (state[e] \in {"processed", "failed"})

Spec == Safety /\ Settled
=============================================================================
