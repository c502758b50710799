------------------------------- MODULE Outbox -------------------------------
(***************************************************************************)
(* The transactional outbox of backend/app/modules/workers/outbox.py.      *)
(*                                                                         *)
(* Requests add an outbox_events row in their own transaction              *)
(* (OutboxService.publish); a worker in every backend process polls the    *)
(* pending rows with FOR UPDATE SKIP LOCKED, publishes each one to the     *)
(* Redis channel of each target user, and commits the outcomes of the      *)
(* whole batch at the end.  A publish can fail, or fail after Redis took   *)
(* the event; a worker process can die, and its database connection can    *)
(* be lost while it goes on publishing (the row locks are then gone and    *)
(* its commit will fail).                                                  *)
(*                                                                         *)
(* Time is abstracted: a retried row "rests" until its back-off elapses.   *)
(***************************************************************************)
EXTENDS Naturals, Sequences, FiniteSets

CONSTANTS Events,       \* identities of outbox_events rows
          Users,
          Workers,      \* one OutboxWorker task per backend process
          Kind,         \* Kind[e]: the event type
          Audience,     \* Audience[e]: the users the event concerns, in payload order
          MaxAttempts,  \* _MAX_ATTEMPTS
          BatchSize,    \* the LIMIT of the polling query
          MaxCrashes,   \* bound on process deaths and lost connections
          None          \* no event

Kinds == {"message", "receipt", "chat"}

ASSUME KindAssumption == Kind \in [Events -> Kinds]
ASSUME AudienceAssumption ==
  /\ Audience \in [Events -> Seq(Users)]
  /\ \A e \in Events : \A i, j \in 1..Len(Audience[e]) :
       Audience[e][i] = Audience[e][j] => i = j
ASSUME BoundsAssumption ==
  /\ MaxAttempts \in Nat \ {0}
  /\ BatchSize \in Nat \ {0}
  /\ MaxCrashes \in Nat
ASSUME NoneAssumption == None \notin Events

VARIABLES
  status,     \* status[e]: committed outbox_events.status ("absent": no row)
  attempts,   \* attempts[e]: committed outbox_events.attempts
  resting,    \* events whose committed next_retry_at is in the future
  batch,      \* batch[w]: the rows worker w selected and has not settled
  linked,     \* linked[w]: w's transaction, and with it its row locks, is alive
  current,    \* current[w]: the event w is dispatching
  sent,       \* sent[w]: how many publishes of the current dispatch returned
  outcome,    \* outcome[w][e]: the attribute changes w has not committed yet
  copies,     \* copies[e][u]: how often Redis took e for u         (history)
  failures,   \* failures[e]: dispatches of e that raised           (history)
  aborted,    \* aborted[e]: batches holding e that lost their locks (history)
  crashes     \* process deaths and lost connections so far

rows     == <<status, attempts, resting>>
worker   == <<batch, linked, current, sent, outcome>>
history  == <<copies, failures, aborted>>
vars     == <<rows, worker, history, crashes>>

Statuses == {"absent", "pending", "processed", "failed"}
Outcomes == {"none", "sent", "error"}

(***************************************************************************)
(* The users _dispatch publishes to.  message.delivered and message.read   *)
(* are a bare "pass"; chat.created and group.member_* go to the members of *)
(* the Redis set chat_members:<id>, which nothing in the backend fills.    *)
(***************************************************************************)
Targets(e) == IF Kind[e] = "message" THEN Audience[e] ELSE <<>>

TargetSet(e) == {Targets(e)[i] : i \in 1..Len(Targets(e))}

\* Redis calls of one dispatch: a PUBLISH per target, or the one SMEMBERS.
RedisCalls(e) == IF Kind[e] = "chat" THEN 1 ELSE Len(Targets(e))

\* DEFECT (mutant): the polling query without FOR UPDATE.
LockedRowsNone == {}

\* Rows locked by a live transaction; SKIP LOCKED passes over them.
LockedRows == UNION {batch[w] : w \in {v \in Workers : linked[v]}}

\* DEFECT (mutant): next_retry_at IS NULL without the "<= now" alternative.
DueRowsNeverRetried ==
  {e \in Events : status[e] = "pending" /\ e \notin resting /\ attempts[e] = 0}

DueRows == {e \in Events : status[e] = "pending" /\ e \notin resting}

TypeOK ==
  /\ status \in [Events -> Statuses]
  /\ attempts \in [Events -> Nat]
  /\ resting \subseteq Events
  /\ batch \in [Workers -> SUBSET Events]
  /\ linked \in [Workers -> BOOLEAN]
  /\ current \in [Workers -> Events \cup {None}]
  /\ sent \in [Workers -> Nat]
  /\ outcome \in [Workers -> [Events -> Outcomes]]
  /\ copies \in [Events -> [Users -> Nat]]
  /\ failures \in [Events -> Nat]
  /\ aborted \in [Events -> Nat]
  /\ crashes \in Nat

Init ==
  /\ status = [e \in Events |-> "absent"]
  /\ attempts = [e \in Events |-> 0]
  /\ resting = {}
  /\ batch = [w \in Workers |-> {}]
  /\ linked = [w \in Workers |-> FALSE]
  /\ current = [w \in Workers |-> None]
  /\ sent = [w \in Workers |-> 0]
  /\ outcome = [w \in Workers |-> [e \in Events |-> "none"]]
  /\ copies = [e \in Events |-> [u \in Users |-> 0]]
  /\ failures = [e \in Events |-> 0]
  /\ aborted = [e \in Events |-> 0]
  /\ crashes = 0

-----------------------------------------------------------------------------
(* Requests                                                                *)

\* A request that called OutboxService.publish commits its transaction.
Publish(e) ==
  /\ status[e] = "absent"
  /\ status' = [status EXCEPT ![e] = "pending"]
  /\ UNCHANGED <<attempts, resting, worker, history, crashes>>

\* The clock passes the row's next_retry_at.
BackoffElapses(e) ==
  /\ e \in resting
  /\ resting' = resting \ {e}
  /\ UNCHANGED <<status, attempts, worker, history, crashes>>

-----------------------------------------------------------------------------
(* The worker: _process_batch and _dispatch                                *)

\* The batches the polling query can return: up to BatchSize due rows that
\* no live transaction has locked, in no particular order (no ORDER BY).
Selectable(S) ==
  LET free == DueRows \ LockedRows
  IN  /\ S # {}
      /\ S \subseteq free
      /\ \/ Cardinality(S) = BatchSize
         \/ S = free /\ Cardinality(S) < BatchSize

SelectBatch(w) ==
  /\ batch[w] = {}
  /\ \E S \in SUBSET Events :
       /\ Selectable(S)
       /\ batch' = [batch EXCEPT ![w] = S]
  /\ linked' = [linked EXCEPT ![w] = TRUE]
  /\ UNCHANGED <<rows, current, sent, outcome, history, crashes>>

\* The query returns no row: an empty batch is committed, run() sleeps.
PollNothing(w) ==
  /\ batch[w] = {}
  /\ DueRows \ LockedRows = {}
  /\ UNCHANGED vars

\* The loop over the batch takes its next event.
BeginDispatch(w, e) ==
  /\ current[w] = None
  /\ e \in batch[w]
  /\ outcome[w][e] = "none"
  /\ current' = [current EXCEPT ![w] = e]
  /\ UNCHANGED <<rows, batch, linked, sent, outcome, history, crashes>>

\* Redis takes the event for the next target of the current dispatch.
HandOver(w) ==
  LET e == current[w] IN
  copies' = [copies EXCEPT ![e][Targets(e)[sent[w] + 1]] = @ + 1]

PublishToUser(w) ==
  /\ current[w] # None
  /\ sent[w] < Len(Targets(current[w]))
  /\ HandOver(w)
  /\ sent' = [sent EXCEPT ![w] = @ + 1]
  /\ UNCHANGED <<rows, batch, linked, current, outcome, failures, aborted, crashes>>

Finish(w, result) ==
  /\ outcome' = [outcome EXCEPT ![w][current[w]] = result]
  /\ current' = [current EXCEPT ![w] = None]
  /\ sent' = [sent EXCEPT ![w] = 0]

DispatchReturns(w) ==
  /\ current[w] # None
  /\ sent[w] = Len(Targets(current[w]))
  /\ Finish(w, "sent")
  /\ UNCHANGED <<rows, batch, linked, history, crashes>>

\* DEFECT (mutant): _dispatch swallows every exception, not only ValueError.
DispatchRaisesSwallowed(w) ==
  /\ current[w] # None
  /\ sent[w] < RedisCalls(current[w])
  /\ Finish(w, "sent")
  /\ UNCHANGED <<rows, batch, linked, history, crashes>>

\* A Redis call raises: the rest of the targets is skipped.  The reply can
\* be lost after Redis took the event.
DispatchRaises(w) ==
  /\ current[w] # None
  /\ sent[w] < RedisCalls(current[w])
  /\ failures' = [failures EXCEPT ![current[w]] = @ + 1]
  /\ Finish(w, "error")
  /\ \/ UNCHANGED copies
     \/ sent[w] < Len(Targets(current[w])) /\ HandOver(w)
  /\ UNCHANGED <<rows, batch, linked, aborted, crashes>>

\* The rows the worker holds in memory are dropped with its session.
Forget(w) ==
  /\ batch' = [batch EXCEPT ![w] = {}]
  /\ linked' = [linked EXCEPT ![w] = FALSE]
  /\ current' = [current EXCEPT ![w] = None]
  /\ sent' = [sent EXCEPT ![w] = 0]
  /\ outcome' = [outcome EXCEPT ![w] = [e \in Events |-> "none"]]

BatchDone(w) ==
  /\ batch[w] # {}
  /\ current[w] = None
  /\ \A e \in batch[w] : outcome[w][e] # "none"

\* DEFECT (mutant): compared before the increment.
ExhaustedLate(e) == attempts[e] >= MaxAttempts

\* event.attempts += 1 and the comparison with _MAX_ATTEMPTS.
Exhausted(e) == attempts[e] + 1 >= MaxAttempts

\* DEFECT (mutant): the dispatch outcome is stored instead of the status.
SettledStatusRaw(e, result) ==
  IF result = "sent" THEN result
  ELSE IF Exhausted(e) THEN "failed" ELSE "pending"

SettledStatus(e, result) ==
  IF result = "sent" THEN "processed"
  ELSE IF Exhausted(e) THEN "failed" ELSE "pending"

Errors(w) == {e \in batch[w] : outcome[w][e] = "error"}

Commit(w) ==
  /\ BatchDone(w)
  /\ linked[w]
  /\ status' = [e \in Events |->
                  IF e \in batch[w] THEN SettledStatus(e, outcome[w][e]) ELSE status[e]]
  /\ attempts' = [e \in Events |-> IF e \in Errors(w) THEN attempts[e] + 1 ELSE attempts[e]]
  /\ resting' = resting \cup {e \in Errors(w) : ~Exhausted(e)}
  /\ Forget(w)
  /\ UNCHANGED <<history, crashes>>

\* The commit of a worker whose connection is gone raises; run() logs it and
\* polls again.  Nothing of the batch was written.
CommitRaises(w) ==
  /\ BatchDone(w)
  /\ ~linked[w]
  /\ Forget(w)
  /\ UNCHANGED <<rows, history, crashes>>

-----------------------------------------------------------------------------
(* Failures of the environment                                             *)

AbortBatch(w) ==
  aborted' = [e \in Events |-> IF e \in batch[w] /\ linked[w] THEN aborted[e] + 1 ELSE aborted[e]]

LoseConnection(w) ==
  /\ batch[w] # {}
  /\ linked[w]
  /\ crashes < MaxCrashes
  /\ linked' = [linked EXCEPT ![w] = FALSE]
  /\ AbortBatch(w)
  /\ crashes' = crashes + 1
  /\ UNCHANGED <<rows, batch, current, sent, outcome, copies, failures>>

\* The backend process dies in the middle of a batch and is started again.
Crash(w) ==
  /\ batch[w] # {}
  /\ crashes < MaxCrashes
  /\ Forget(w)
  /\ AbortBatch(w)
  /\ crashes' = crashes + 1
  /\ UNCHANGED <<rows, copies, failures>>

-----------------------------------------------------------------------------
\* What a worker does when nothing disturbs it.
WorkerStep(w) ==
  \/ SelectBatch(w)
  \/ PollNothing(w)
  \/ \E e \in Events : BeginDispatch(w, e)
  \/ PublishToUser(w)
  \/ DispatchReturns(w)
  \/ DispatchRaises(w)
  \/ Commit(w)
  \/ CommitRaises(w)

Next ==
  \/ \E e \in Events : Publish(e)
  \/ \E e \in Events : BackoffElapses(e)
  \/ \E w \in Workers : WorkerStep(w)
  \/ \E w \in Workers : LoseConnection(w)
  \/ \E w \in Workers : Crash(w)

\* The asyncio task of every worker keeps being scheduled and time passes;
\* neither requests nor failures are owed.
Fairness ==
  /\ \A w \in Workers : WF_vars(WorkerStep(w))
  /\ \A e \in Events : WF_vars(BackoffElapses(e))

SafetySpec == Init /\ [][Next]_vars

Spec == SafetySpec /\ Fairness

-----------------------------------------------------------------------------
(* Properties                                                              *)

Reached(e) == {u \in Users : copies[e][u] > 0}

\* An event is marked processed only after Redis took it for every user the
\* dispatch targets, whatever failed, crashed or was retried on the way:
\* outcomes are committed after the dispatches they report.
ProcessedReachedAll ==
  \A e \in Events : status[e] = "processed" => TargetSet(e) \subseteq Reached(e)

\* FOR UPDATE SKIP LOCKED: two workers with live transactions never hold the
\* same row, and a held row is still pending, so no outcome is overwritten.
HeldRowsExclusive ==
  \A v, w \in Workers :
    linked[v] /\ linked[w] /\ v # w => batch[v] \cap batch[w] = {}

HeldRowsPending ==
  \A w \in Workers : linked[w] => \A e \in batch[w] : status[e] = "pending"

RowLocks == HeldRowsExclusive /\ HeldRowsPending

\* An event is given up only after MaxAttempts dispatches of it really
\* raised: lost commits, crashes and parallel workers never use up attempts.
GivenUpOnlyAfterMaxAttempts ==
  \A e \in Events :
    /\ attempts[e] <= failures[e]
    /\ attempts[e] <= MaxAttempts
    /\ status[e] = "failed" => attempts[e] = MaxAttempts

\* A user gets a second copy of an event only if a dispatch of it raised or
\* a batch holding it lost its locks; every surplus copy has its own cause.
CopiesAccountedFor ==
  \A e \in Events : \A u \in Users : copies[e][u] <= 1 + failures[e] + aborted[e]

\* The outbox implements its promise.
D == INSTANCE Delivery WITH
       TargetsOf <- [e \in Events |-> TargetSet(e)],
       state <- status,
       reached <- [e \in Events |-> Reached(e)]

DeliverySafety == D!Safety

\* Every committed event ends up processed or failed, however the workers
\* interleave, as long as crashes stop.
EventuallySettled == D!Settled
=============================================================================
