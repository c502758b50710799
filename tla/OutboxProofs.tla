---------------------------- MODULE OutboxProofs ----------------------------
(* Proofs about Outbox: types, what a processed row guarantees, the row     *)
(* locks, the attempt counter, and that Outbox implements Delivery.         *)
EXTENDS Outbox, FiniteSetTheorems, TLAPS

LEMMA TargetsType ==
  ASSUME NEW e \in Events
  PROVE  /\ Targets(e) \in Seq(Users)
         /\ Len(Targets(e)) \in Nat
         /\ \A i \in 1..Len(Targets(e)) : Targets(e)[i] \in Users
         /\ TargetSet(e) \subseteq Users
  <1>1. Audience[e] \in Seq(Users)
    BY AudienceAssumption
  <1>2. Targets(e) \in Seq(Users)
    BY <1>1 DEF Targets
  <1>3. QED
    BY <1>2 DEF TargetSet

\* What one hand-over does to the copies taken by Redis: it adds one for the
\* next target of the current dispatch and changes nothing else.
LEMMA HandOverEffect ==
  ASSUME TypeOK, NEW w \in Workers, current[w] # None,
         sent[w] < Len(Targets(current[w])), HandOver(w)
  PROVE  /\ copies' \in [Events -> [Users -> Nat]]
         /\ \A e \in Events, u \in Users : copies'[e][u] >= copies[e][u]
         /\ copies'[current[w]][Targets(current[w])[sent[w] + 1]] > 0
         /\ \A e \in Events, u \in Users :
              copies'[e][u] # copies[e][u] =>
                e = current[w] /\ u = Targets(current[w])[sent[w] + 1]
  <1> DEFINE e == current[w]
             u == Targets(e)[sent[w] + 1]
  <1>1. e \in Events
    BY DEF TypeOK
  <1>2. sent[w] \in Nat /\ sent[w] + 1 \in 1..Len(Targets(e))
    BY <1>1, TargetsType DEF TypeOK
  <1>3. u \in Users
    BY <1>1, <1>2, TargetsType
  <1>4. copies' = [copies EXCEPT ![e] = [copies[e] EXCEPT ![u] = copies[e][u] + 1]]
    BY DEF HandOver
  <1>5. copies \in [Events -> [Users -> Nat]]
    BY DEF TypeOK
  <1> HIDE DEF e, u
  <1>6. QED
    BY <1>1, <1>3, <1>4, <1>5 DEF e, u

LEMMA TypeInit == Init => TypeOK
  BY BoundsAssumption DEF Init, TypeOK, Statuses, Outcomes

LEMMA ForgetType ==
  ASSUME TypeOK, NEW w \in Workers, Forget(w)
  PROVE  /\ batch' \in [Workers -> SUBSET Events]
         /\ linked' \in [Workers -> BOOLEAN]
         /\ current' \in [Workers -> Events \cup {None}]
         /\ sent' \in [Workers -> Nat]
         /\ outcome' \in [Workers -> [Events -> Outcomes]]
  BY DEF TypeOK, Forget, Outcomes

LEMMA TypeStep == TypeOK /\ [Next]_vars => TypeOK'
  <1> SUFFICES ASSUME TypeOK, [Next]_vars PROVE TypeOK'
    OBVIOUS
  <1> USE DEF rows, worker, history
  <1>1. ASSUME NEW e \in Events, Publish(e) PROVE TypeOK'
    BY <1>1 DEF TypeOK, Publish, Statuses
  <1>2. ASSUME NEW e \in Events, BackoffElapses(e) PROVE TypeOK'
    BY <1>2 DEF TypeOK, BackoffElapses
  <1>3. ASSUME NEW w \in Workers, SelectBatch(w) PROVE TypeOK'
    BY <1>3 DEF TypeOK, SelectBatch
  <1>4. ASSUME NEW w \in Workers, PollNothing(w) PROVE TypeOK'
    BY <1>4 DEF TypeOK, PollNothing, vars
  <1>5. ASSUME NEW w \in Workers, NEW e \in Events, BeginDispatch(w, e) PROVE TypeOK'
    BY <1>5 DEF TypeOK, BeginDispatch
  <1>6. ASSUME NEW w \in Workers, PublishToUser(w) PROVE TypeOK'
    <2>1. copies' \in [Events -> [Users -> Nat]]
      BY <1>6, HandOverEffect DEF PublishToUser
    <2>2. QED
      BY <1>6, <2>1 DEF TypeOK, PublishToUser
  <1>7. ASSUME NEW w \in Workers, DispatchReturns(w) PROVE TypeOK'
    BY <1>7 DEF TypeOK, DispatchReturns, Finish, Outcomes
  <1>8. ASSUME NEW w \in Workers, DispatchRaises(w) PROVE TypeOK'
    <2>1. copies' \in [Events -> [Users -> Nat]]
      BY <1>8, HandOverEffect DEF DispatchRaises, TypeOK
    <2>2. outcome' \in [Workers -> [Events -> Outcomes]]
      BY <1>8 DEF TypeOK, DispatchRaises, Finish, Outcomes
    <2>3. /\ current' \in [Workers -> Events \cup {None}]
          /\ sent' \in [Workers -> Nat]
          /\ failures' \in [Events -> Nat]
      BY <1>8 DEF TypeOK, DispatchRaises, Finish
    <2>4. UNCHANGED <<rows, batch, linked, aborted, crashes>>
      BY <1>8 DEF DispatchRaises
    <2>5. QED
      BY <2>1, <2>2, <2>3, <2>4 DEF TypeOK
  <1>9. ASSUME NEW w \in Workers, Commit(w) PROVE TypeOK'
    <2>1. status' \in [Events -> Statuses]
      BY <1>9 DEF TypeOK, Commit, SettledStatus, Statuses
    <2>2. attempts' \in [Events -> Nat]
      BY <1>9 DEF TypeOK, Commit
    <2>3. resting' \subseteq Events
      BY <1>9 DEF TypeOK, Commit, Errors
    <2>4. QED
      BY <1>9, <2>1, <2>2, <2>3, ForgetType DEF TypeOK, Commit
  <1>10. ASSUME NEW w \in Workers, CommitRaises(w) PROVE TypeOK'
    BY <1>10, ForgetType DEF TypeOK, CommitRaises
  <1>11. ASSUME NEW w \in Workers, LoseConnection(w) PROVE TypeOK'
    BY <1>11 DEF TypeOK, LoseConnection, AbortBatch
  <1>12. ASSUME NEW w \in Workers, Crash(w) PROVE TypeOK'
    <2>1. aborted' \in [Events -> Nat] /\ crashes' \in Nat
      BY <1>12 DEF TypeOK, Crash, AbortBatch
    <2>2. QED
      BY <1>12, <2>1, ForgetType DEF TypeOK, Crash
  <1>13. CASE UNCHANGED vars
    BY <1>13 DEF TypeOK, vars
  <1>14. QED
    BY <1>1, <1>2, <1>3, <1>4, <1>5, <1>6, <1>7, <1>8, <1>9, <1>10, <1>11, <1>12, <1>13
    DEF Next, WorkerStep

\* Every reachable state of the outbox is well typed.
THEOREM TypeCorrect == SafetySpec => []TypeOK
  <1>1. QED
    BY TypeInit, TypeStep, PTL DEF SafetySpec
-----------------------------------------------------------------------------
(* The row locks                                                           *)

\* A worker with a live transaction is the only one to hold its rows, because
\* selecting passes over locked rows and only the holder settles them.
LEMMA RowLocksStep == TypeOK /\ RowLocks /\ [Next]_vars => RowLocks'
  <1> SUFFICES ASSUME TypeOK, RowLocks, [Next]_vars PROVE RowLocks'
    OBVIOUS
  <1> USE DEF rows, worker, history
  <1> USE DEF RowLocks, HeldRowsExclusive, HeldRowsPending
  <1>1. ASSUME NEW e \in Events, Publish(e) PROVE RowLocks'
    BY <1>1 DEF TypeOK, Publish
  <1>2. ASSUME NEW e \in Events, BackoffElapses(e) PROVE RowLocks'
    BY <1>2 DEF BackoffElapses
  <1>3. ASSUME NEW w \in Workers, SelectBatch(w) PROVE RowLocks'
    <2>1. PICK S \in SUBSET Events : Selectable(S) /\ batch' = [batch EXCEPT ![w] = S]
      BY <1>3 DEF SelectBatch
    <2>2. \A e \in S : status[e] = "pending"
      BY <2>1 DEF Selectable, DueRows
    <2>3. \A v \in Workers : linked[v] => S \cap batch[v] = {}
      BY <2>1 DEF Selectable, LockedRows
    <2>4. linked' = [linked EXCEPT ![w] = TRUE] /\ status' = status
      BY <1>3 DEF SelectBatch
    <2>5. QED
      BY <2>1, <2>2, <2>3, <2>4 DEF TypeOK
  <1>4. ASSUME NEW w \in Workers, PollNothing(w) PROVE RowLocks'
    BY <1>4 DEF PollNothing, vars
  <1>5. ASSUME NEW w \in Workers, NEW e \in Events, BeginDispatch(w, e) PROVE RowLocks'
    BY <1>5 DEF BeginDispatch
  <1>6. ASSUME NEW w \in Workers, PublishToUser(w) PROVE RowLocks'
    BY <1>6 DEF PublishToUser
  <1>7. ASSUME NEW w \in Workers, DispatchReturns(w) PROVE RowLocks'
    BY <1>7 DEF DispatchReturns
  <1>8. ASSUME NEW w \in Workers, DispatchRaises(w) PROVE RowLocks'
    BY <1>8 DEF DispatchRaises
  <1>9. ASSUME NEW w \in Workers, Commit(w) PROVE RowLocks'
    BY <1>9 DEF TypeOK, Commit, Forget
  <1>10. ASSUME NEW w \in Workers, CommitRaises(w) PROVE RowLocks'
    BY <1>10 DEF TypeOK, CommitRaises, Forget
  <1>11. ASSUME NEW w \in Workers, LoseConnection(w) PROVE RowLocks'
    BY <1>11 DEF TypeOK, LoseConnection
  <1>12. ASSUME NEW w \in Workers, Crash(w) PROVE RowLocks'
    BY <1>12 DEF TypeOK, Crash, Forget
  <1>13. CASE UNCHANGED vars
    BY <1>13 DEF vars
  <1>14. QED
    BY <1>1, <1>2, <1>3, <1>4, <1>5, <1>6, <1>7, <1>8, <1>9, <1>10, <1>11, <1>12, <1>13
    DEF Next, WorkerStep

\* No two workers ever settle the same row: FOR UPDATE SKIP LOCKED excludes
\* them while their transactions live, and a held row is still pending.
THEOREM RowLocksHold == SafetySpec => []RowLocks
  <1>1. Init => RowLocks
    BY DEF Init, RowLocks, HeldRowsExclusive, HeldRowsPending
  <1>2. QED
    BY <1>1, TypeCorrect, RowLocksStep, PTL DEF SafetySpec

-----------------------------------------------------------------------------
(* Processed rows have reached everybody                                   *)

\* Where worker w is in its loop: rows it does not hold have no outcome, the
\* event it dispatches is one it holds and has not finished, and the publishes
\* that returned did reach their targets.
LoopState(w) ==
  /\ \A e \in Events \ batch[w] : outcome[w][e] = "none"
  /\ current[w] = None => sent[w] = 0
  /\ current[w] # None =>
       /\ current[w] \in batch[w]
       /\ sent[w] <= Len(Targets(current[w]))
       /\ \A i \in 1..sent[w] : copies[current[w]][Targets(current[w])[i]] > 0

DispatchProgress == \A w \in Workers : LoopState(w)

\* An outcome "sent" waiting to be committed is true.
SentMeansReached ==
  \A w \in Workers : \A e \in Events :
    outcome[w][e] = "sent" => TargetSet(e) \subseteq Reached(e)

LEMMA CopiesNeverShrink ==
  ASSUME TypeOK, [Next]_vars
  PROVE  \A e \in Events, u \in Users : copies'[e][u] >= copies[e][u]
  <1> USE DEF rows, worker, history
  <1>1. CASE UNCHANGED copies
    BY <1>1 DEF TypeOK
  <1>2. ASSUME NEW w \in Workers, PublishToUser(w)
        PROVE  \A e \in Events, u \in Users : copies'[e][u] >= copies[e][u]
    BY <1>2, HandOverEffect DEF PublishToUser
  <1>3. ASSUME NEW w \in Workers, DispatchRaises(w)
        PROVE  \A e \in Events, u \in Users : copies'[e][u] >= copies[e][u]
    BY <1>1, <1>3, HandOverEffect DEF DispatchRaises
  <1>4. ASSUME Next, copies' # copies
        PROVE  \E w \in Workers : PublishToUser(w) \/ DispatchRaises(w)
    BY <1>4 DEF Next, WorkerStep, Publish, BackoffElapses, SelectBatch, PollNothing,
                BeginDispatch, DispatchReturns, Commit, CommitRaises, LoseConnection,
                Crash, vars
  <1>5. QED
    BY <1>1, <1>2, <1>3, <1>4 DEF vars

LEMMA ReachedNeverShrinks ==
  ASSUME TypeOK, TypeOK', [Next]_vars
  PROVE  \A e \in Events : Reached(e) \subseteq Reached(e)'
  <1>1. \A e \in Events, u \in Users : copies[e][u] \in Nat /\ copies'[e][u] \in Nat
    BY DEF TypeOK
  <1>2. QED
    BY <1>1, CopiesNeverShrink DEF Reached

LEMMA ProgressStep == TypeOK /\ TypeOK' /\ DispatchProgress /\ [Next]_vars => DispatchProgress'
  <1> SUFFICES ASSUME TypeOK, TypeOK', DispatchProgress, [Next]_vars,
                      NEW v \in Workers
               PROVE  LoopState(v)'
    BY DEF DispatchProgress
  <1> USE DEF rows, worker, history
  <1>a. LoopState(v)
    BY DEF DispatchProgress
  <1>b. current[v] # None =>
          /\ current[v] \in Events
          /\ Len(Targets(current[v])) \in Nat
          /\ \A i \in 1..Len(Targets(current[v])) : Targets(current[v])[i] \in Users
    BY TargetsType DEF TypeOK
  <1>c. \A e \in Events, u \in Users :
          copies[e][u] \in Nat /\ copies'[e][u] \in Nat /\ copies'[e][u] >= copies[e][u]
    BY CopiesNeverShrink DEF TypeOK
  <1>d. sent[v] \in Nat
    BY DEF TypeOK
  <1>e. current[v] # None =>
          \A i \in 1..sent[v] : copies'[current[v]][Targets(current[v])[i]] > 0
    BY <1>a, <1>b, <1>c, <1>d DEF LoopState
  <1>f. ASSUME batch'[v] = batch[v], outcome'[v] = outcome[v],
               current'[v] = current[v], sent'[v] = sent[v]
        PROVE  LoopState(v)'
    BY <1>a, <1>e, <1>f DEF LoopState, Targets
  <1>g. ASSUME Forget(v) PROVE LoopState(v)'
    BY <1>g DEF TypeOK, LoopState, Forget
  <1>1. ASSUME NEW w \in Workers, SelectBatch(w) PROVE LoopState(v)'
    <2>1. CASE v # w
      BY <1>1, <1>f, <2>1 DEF TypeOK, SelectBatch
    <2>2. CASE v = w
      BY <1>1, <1>a, <2>2 DEF TypeOK, LoopState, SelectBatch
    <2>3. QED
      BY <2>1, <2>2
  <1>2. ASSUME NEW w \in Workers, NEW e \in Events, BeginDispatch(w, e) PROVE LoopState(v)'
    <2>1. CASE v # w
      BY <1>2, <1>f, <2>1 DEF TypeOK, BeginDispatch
    <2>2. CASE v = w
      <3>1. current'[v] = e /\ sent'[v] = 0 /\ e \in batch'[v] /\ e # None
        BY <1>2, <1>a, <2>2, NoneAssumption DEF TypeOK, LoopState, BeginDispatch
      <3>2. \A x \in Events \ batch'[v] : outcome'[v][x] = "none"
        BY <1>2, <1>a DEF LoopState, BeginDispatch
      <3>3. Len(Targets(e)) \in Nat
        BY TargetsType
      <3>4. QED
        BY <3>1, <3>2, <3>3 DEF LoopState, Targets
    <2>3. QED
      BY <2>1, <2>2
  <1>3. ASSUME NEW w \in Workers, PublishToUser(w) PROVE LoopState(v)'
    <2>1. CASE v # w
      BY <1>3, <1>f, <2>1 DEF TypeOK, PublishToUser
    <2>2. CASE v = w
      <3>1. sent'[v] = sent[v] + 1 /\ current'[v] = current[v] /\ current[v] # None
            /\ batch'[v] = batch[v] /\ outcome'[v] = outcome[v]
        BY <1>3, <2>2 DEF TypeOK, PublishToUser
      <3>2. sent[v] < Len(Targets(current[v]))
        BY <1>3, <2>2 DEF PublishToUser
      <3>3. copies'[current[v]][Targets(current[v])[sent[v] + 1]] > 0
        BY <1>3, <2>2, HandOverEffect DEF PublishToUser
      <3>4. \A i \in 1..(sent[v] + 1) : copies'[current[v]][Targets(current[v])[i]] > 0
        BY <1>d, <1>e, <3>1, <3>3
      <3>5. QED
        BY <1>a, <1>b, <1>d, <3>1, <3>2, <3>4 DEF LoopState, Targets
    <2>3. QED
      BY <2>1, <2>2
  <1>4. ASSUME NEW w \in Workers, NEW result \in {"sent", "error"},
               current[w] # None, Finish(w, result), batch' = batch
        PROVE  LoopState(v)'
    <2>1. CASE v # w
      BY <1>4, <1>f, <2>1 DEF TypeOK, Finish
    <2>2. CASE v = w
      <3>1. current'[v] = None /\ sent'[v] = 0
        BY <1>4, <2>2 DEF TypeOK, Finish
      <3>2. \A x \in Events \ batch'[v] : outcome'[v][x] = "none"
        BY <1>4, <1>a, <2>2 DEF TypeOK, LoopState, Finish
      <3>3. QED
        BY <3>1, <3>2 DEF LoopState
    <2>3. QED
      BY <2>1, <2>2
  <1>5. ASSUME NEW w \in Workers, Forget(w) PROVE LoopState(v)'
    <2>1. CASE v # w
      BY <1>5, <1>f, <2>1 DEF TypeOK, Forget
    <2>2. QED
      BY <1>5, <1>g, <2>1
  <1>6. CASE UNCHANGED <<batch, outcome, current, sent>>
    BY <1>6, <1>f
  <1>7. QED
    <2>1. ASSUME NEW w \in Workers, DispatchReturns(w) \/ DispatchRaises(w)
          PROVE  LoopState(v)'
      BY <1>4, <2>1 DEF DispatchReturns, DispatchRaises
    <2>2. ASSUME NEW w \in Workers, Commit(w) \/ CommitRaises(w) \/ Crash(w)
          PROVE  LoopState(v)'
      BY <1>5, <2>2 DEF Commit, CommitRaises, Crash
    <2>3. ASSUME NEW w \in Workers, PollNothing(w) \/ LoseConnection(w)
          PROVE  LoopState(v)'
      BY <1>6, <2>3 DEF PollNothing, LoseConnection, vars
    <2>4. ASSUME NEW e \in Events, Publish(e) \/ BackoffElapses(e)
          PROVE  LoopState(v)'
      BY <1>6, <2>4 DEF Publish, BackoffElapses
    <2>5. QED
      BY <1>1, <1>2, <1>3, <1>6, <2>1, <2>2, <2>3, <2>4 DEF Next, WorkerStep, vars

LEMMA SentMeansReachedStep ==
  TypeOK /\ TypeOK' /\ DispatchProgress /\ SentMeansReached /\ [Next]_vars => SentMeansReached'
  <1> SUFFICES ASSUME TypeOK, TypeOK', DispatchProgress, SentMeansReached, [Next]_vars,
                      NEW v \in Workers, NEW x \in Events, outcome'[v][x] = "sent"
               PROVE  TargetSet(x) \subseteq Reached(x)'
    BY DEF SentMeansReached, TargetSet, Targets
  <1> USE DEF rows, worker, history
  <1>1. Reached(x) \subseteq Reached(x)'
    BY ReachedNeverShrinks
  <1>2. CASE outcome[v][x] = "sent"
    BY <1>1, <1>2 DEF SentMeansReached
  <1>3. CASE outcome[v][x] # "sent"
    <2>1. PICK w \in Workers : DispatchReturns(w)
      <3>1. ASSUME NEW w \in Workers, Forget(w) PROVE outcome[v][x] = "sent"
        BY <3>1 DEF TypeOK, Forget
      <3>2. ASSUME NEW w \in Workers, DispatchRaises(w) PROVE outcome[v][x] = "sent"
        BY <3>2 DEF TypeOK, DispatchRaises, Finish
      <3>3. ASSUME outcome' = outcome PROVE FALSE
        BY <1>3, <3>3
      <3>4. QED
        BY <1>3, <3>1, <3>2, <3>3
        DEF Next, WorkerStep, Publish, BackoffElapses, SelectBatch, PollNothing, BeginDispatch,
            PublishToUser, Commit, CommitRaises, LoseConnection, Crash, vars
    <2>2. v = w /\ x = current[w]
      BY <1>3, <2>1 DEF TypeOK, DispatchReturns, Finish
    <2>3. \A i \in 1..Len(Targets(x)) : copies[x][Targets(x)[i]] > 0
      BY <2>1, <2>2 DEF DispatchProgress, LoopState, DispatchReturns
    <2>4. TargetSet(x) \subseteq Reached(x)
      BY <2>3, TargetsType DEF TargetSet, Reached
    <2>5. QED
      BY <1>1, <2>4
  <1>4. QED
    BY <1>2, <1>3

LEMMA ProcessedStep ==
  TypeOK /\ TypeOK' /\ SentMeansReached /\ ProcessedReachedAll /\ [Next]_vars => ProcessedReachedAll'
  <1> SUFFICES ASSUME TypeOK, TypeOK', SentMeansReached, ProcessedReachedAll, [Next]_vars,
                      NEW x \in Events, status'[x] = "processed"
               PROVE  TargetSet(x) \subseteq Reached(x)'
    BY DEF ProcessedReachedAll, TargetSet, Targets
  <1> USE DEF rows, worker, history
  <1>1. Reached(x) \subseteq Reached(x)'
    BY ReachedNeverShrinks
  <1>2. CASE status[x] = "processed"
    BY <1>1, <1>2 DEF ProcessedReachedAll
  <1>3. CASE status[x] # "processed"
    <2>1. PICK w \in Workers : Commit(w)
      <3>1. ASSUME NEW e \in Events, Publish(e) PROVE FALSE
        BY <1>3, <3>1 DEF TypeOK, Publish
      <3>2. QED
        BY <1>3, <3>1
        DEF Next, WorkerStep, BackoffElapses, SelectBatch, PollNothing, BeginDispatch,
            PublishToUser, DispatchReturns, DispatchRaises, CommitRaises, LoseConnection,
            Crash, vars
    <2>2. outcome[w][x] = "sent"
      BY <1>3, <2>1 DEF TypeOK, Commit, SettledStatus
    <2>3. QED
      BY <1>1, <2>2 DEF SentMeansReached
  <1>4. QED
    BY <1>2, <1>3

\* A row the worker reports processed was handed to Redis for every target,
\* for any number of workers, events, failures, lost connections and crashes.
THEOREM ProcessedRowsReachedAll == SafetySpec => []ProcessedReachedAll
  <1>1. Init => DispatchProgress /\ SentMeansReached /\ ProcessedReachedAll
    BY DEF Init, DispatchProgress, LoopState, SentMeansReached, ProcessedReachedAll
  <1>2. QED
    BY <1>1, TypeCorrect, ProgressStep, SentMeansReachedStep, ProcessedStep, PTL DEF SafetySpec

-----------------------------------------------------------------------------
(* The attempt counter                                                     *)

\* An error waiting to be committed has been counted in the history.
ErrorsCounted ==
  \A w \in Workers : \A e \in Events :
    linked[w] /\ outcome[w][e] = "error" => attempts[e] < failures[e]

\* How the committed counter and the committed status go together.
AttemptsMatchStatus ==
  \A e \in Events :
    /\ attempts[e] <= failures[e]
    /\ attempts[e] <= MaxAttempts
    /\ status[e] \in {"absent", "pending"} => attempts[e] < MaxAttempts
    /\ status[e] = "failed" => attempts[e] = MaxAttempts

AttemptInv == ErrorsCounted /\ AttemptsMatchStatus

LEMMA FailuresNeverShrink ==
  ASSUME TypeOK, TypeOK', [Next]_vars
  PROVE  \A e \in Events : failures'[e] >= failures[e]
  <1> USE DEF rows, worker, history
  <1>1. CASE UNCHANGED failures
    BY <1>1 DEF TypeOK
  <1>2. ASSUME NEW w \in Workers, DispatchRaises(w)
        PROVE  \A e \in Events : failures'[e] >= failures[e]
    BY <1>2 DEF TypeOK, DispatchRaises
  <1>3. QED
    BY <1>1, <1>2
    DEF Next, WorkerStep, Publish, BackoffElapses, SelectBatch, PollNothing, BeginDispatch,
        PublishToUser, DispatchReturns, Commit, CommitRaises, LoseConnection, Crash, vars

LEMMA AttemptStep ==
  TypeOK /\ TypeOK' /\ RowLocks /\ DispatchProgress /\ AttemptInv /\ [Next]_vars => AttemptInv'
  <1> SUFFICES ASSUME TypeOK, TypeOK', RowLocks, DispatchProgress, AttemptInv, [Next]_vars
               PROVE  AttemptInv'
    OBVIOUS
  <1> USE DEF rows, worker, history
  <1>t. \A e \in Events : /\ attempts[e] \in Nat /\ failures[e] \in Nat
                         /\ attempts'[e] \in Nat /\ failures'[e] \in Nat
                         /\ failures'[e] >= failures[e]
    BY FailuresNeverShrink DEF TypeOK
  <1>m. MaxAttempts \in Nat \ {0}
    BY BoundsAssumption
  <1>1. CASE UNCHANGED <<status, attempts>> /\
             \A w \in Workers : \A e \in Events :
               linked'[w] /\ outcome'[w][e] = "error" => linked[w] /\ outcome[w][e] = "error"
    BY <1>1, <1>t DEF AttemptInv, ErrorsCounted, AttemptsMatchStatus
  <1>2. ASSUME NEW e \in Events, Publish(e) PROVE AttemptInv'
    <2>1. AttemptsMatchStatus'
      BY <1>2, <1>t DEF TypeOK, Publish, AttemptInv, AttemptsMatchStatus
    <2>2. ErrorsCounted'
      BY <1>2 DEF Publish, AttemptInv, ErrorsCounted
    <2>3. QED
      BY <2>1, <2>2 DEF AttemptInv
  <1>3. ASSUME NEW w \in Workers, SelectBatch(w) PROVE AttemptInv'
    <2>1. \A e \in Events : outcome[w][e] = "none"
      BY <1>3 DEF SelectBatch, DispatchProgress, LoopState
    <2>2. ErrorsCounted'
      BY <1>3, <2>1 DEF TypeOK, SelectBatch, AttemptInv, ErrorsCounted
    <2>3. AttemptsMatchStatus'
      BY <1>3 DEF SelectBatch, AttemptInv, AttemptsMatchStatus
    <2>4. QED
      BY <2>2, <2>3 DEF AttemptInv
  <1>4. ASSUME NEW w \in Workers, DispatchRaises(w) PROVE AttemptInv'
    <2>1. UNCHANGED <<status, attempts, linked>>
      BY <1>4 DEF DispatchRaises
    <2>2. failures'[current[w]] > attempts[current[w]]
      BY <1>4, <1>t DEF TypeOK, DispatchRaises, AttemptInv, AttemptsMatchStatus
    <2>3. \A v \in Workers, e \in Events :
            outcome'[v][e] = "error" => outcome[v][e] = "error" \/ (v = w /\ e = current[w])
      BY <1>4 DEF TypeOK, DispatchRaises, Finish
    <2>4. ErrorsCounted'
      BY <1>t, <2>1, <2>2, <2>3 DEF AttemptInv, ErrorsCounted
    <2>5. AttemptsMatchStatus'
      BY <1>t, <2>1 DEF AttemptInv, AttemptsMatchStatus
    <2>6. QED
      BY <2>4, <2>5 DEF AttemptInv
  <1>5. ASSUME NEW w \in Workers, Commit(w) PROVE AttemptInv'
    <2>1. UNCHANGED failures
      BY <1>5 DEF Commit
    <2>2. \A e \in Events :
            attempts'[e] = IF e \in Errors(w) THEN attempts[e] + 1 ELSE attempts[e]
      BY <1>5 DEF TypeOK, Commit
    <2>3. \A e \in Errors(w) : /\ e \in Events /\ attempts[e] < failures[e]
                              /\ status[e] = "pending" /\ attempts[e] < MaxAttempts
      BY <1>5 DEF TypeOK, Commit, Errors, AttemptInv, ErrorsCounted, AttemptsMatchStatus,
                  RowLocks, HeldRowsPending
    <2>4. \A v \in Workers, e \in Events :
            linked'[v] /\ outcome'[v][e] = "error" =>
              v # w /\ linked[v] /\ outcome[v][e] = "error" /\ e \in batch[v]
      BY <1>5 DEF TypeOK, Commit, Forget, DispatchProgress, LoopState
    <2>5. \A v \in Workers, e \in Events :
            linked'[v] /\ outcome'[v][e] = "error" => e \notin Errors(w)
      BY <1>5, <2>4 DEF Commit, Errors, RowLocks, HeldRowsExclusive
    <2>6. ErrorsCounted'
      BY <2>1, <2>2, <2>4, <2>5 DEF AttemptInv, ErrorsCounted
    <2>7. \A e \in Events :
            /\ attempts'[e] <= failures'[e]
            /\ attempts'[e] <= MaxAttempts
      BY <1>t, <1>m, <2>1, <2>2, <2>3 DEF AttemptInv, AttemptsMatchStatus
    <2>8. ASSUME NEW e \in Events
          PROVE  /\ status'[e] \in {"absent", "pending"} => attempts'[e] < MaxAttempts
                 /\ status'[e] = "failed" => attempts'[e] = MaxAttempts
      <3>1. CASE e \in Errors(w)
        BY <1>5, <1>t, <1>m, <2>2, <2>3, <3>1
        DEF TypeOK, Commit, Errors, SettledStatus, Exhausted
      <3>2. CASE e \notin Errors(w) /\ e \in batch[w]
        BY <1>5, <3>2 DEF TypeOK, Commit, BatchDone, Errors, SettledStatus, Outcomes
      <3>3. CASE e \notin batch[w]
        BY <1>5, <2>2, <3>3 DEF TypeOK, Commit, Errors, AttemptInv, AttemptsMatchStatus
      <3>4. QED
        BY <3>1, <3>2, <3>3
    <2>9. AttemptsMatchStatus'
      BY <2>7, <2>8 DEF AttemptsMatchStatus
    <2>10. QED
      BY <2>6, <2>9 DEF AttemptInv
  <1>6. ASSUME NEW w \in Workers, DispatchReturns(w) PROVE AttemptInv'
    <2>1. \A v \in Workers, e \in Events :
            outcome'[v][e] = "error" => outcome[v][e] = "error"
      BY <1>6 DEF TypeOK, DispatchReturns, Finish
    <2>2. QED
      BY <1>1, <1>6, <2>1 DEF DispatchReturns
  <1>7. ASSUME NEW w \in Workers, CommitRaises(w) \/ Crash(w) PROVE AttemptInv'
    <2>1. \A v \in Workers, e \in Events :
            linked'[v] /\ outcome'[v][e] = "error" => linked[v] /\ outcome[v][e] = "error"
      BY <1>7 DEF TypeOK, CommitRaises, Crash, Forget
    <2>2. QED
      BY <1>1, <1>7, <2>1 DEF CommitRaises, Crash
  <1>8. ASSUME NEW w \in Workers, LoseConnection(w) PROVE AttemptInv'
    <2>1. \A v \in Workers : linked'[v] => linked[v]
      BY <1>8 DEF TypeOK, LoseConnection
    <2>2. QED
      BY <1>1, <1>8, <2>1 DEF LoseConnection
  <1>9. CASE UNCHANGED <<status, attempts, linked, outcome>>
    BY <1>1, <1>9
  <1>10. QED
    BY <1>2, <1>3, <1>4, <1>5, <1>6, <1>7, <1>8, <1>9
    DEF Next, WorkerStep, BackoffElapses, PollNothing, BeginDispatch, PublishToUser, vars

\* An event is given up exactly when MaxAttempts dispatches of it raised and
\* were committed; nothing else spends attempts.
THEOREM GivenUpLate == SafetySpec => []GivenUpOnlyAfterMaxAttempts
  <1>1. Init => DispatchProgress /\ AttemptInv /\ RowLocks
    BY BoundsAssumption
    DEF Init, DispatchProgress, LoopState, AttemptInv, ErrorsCounted, AttemptsMatchStatus,
        RowLocks, HeldRowsExclusive, HeldRowsPending
  <1>2. AttemptInv => GivenUpOnlyAfterMaxAttempts
    BY DEF AttemptInv, AttemptsMatchStatus, GivenUpOnlyAfterMaxAttempts
  <1>3. QED
    BY <1>1, <1>2, TypeCorrect, RowLocksStep, ProgressStep, AttemptStep, PTL DEF SafetySpec

-----------------------------------------------------------------------------
(* Surplus copies                                                          *)

\* The event under dispatch has no outcome yet.
Undecided == \A w \in Workers : current[w] # None => outcome[w][current[w]] = "none"

\* The batch of w has given e to u, in a dispatch that has not raised.
Given(w, e, u) ==
  outcome[w][e] = "sent" \/ (current[w] = e /\ \E i \in 1..sent[w] : Targets(e)[i] = u)

\* Workers without locks that may still give e to u: paid for when they lost them.
Owing(e, u) ==
  {w \in Workers : ~linked[w] /\ e \in batch[w] /\ outcome[w][e] = "none" /\ ~Given(w, e, u)}

\* The one copy that needs no excuse: of a live batch, or of the one that settled the row.
Earned(e, u) ==
  status[e] = "processed" \/ \E w \in Workers : linked[w] /\ e \in batch[w] /\ Given(w, e, u)

Credit(e, u) == IF Earned(e, u) THEN 1 ELSE 0

Balanced(e, u) ==
  /\ IsFiniteSet(Owing(e, u))
  /\ copies[e][u] + Cardinality(Owing(e, u)) <= failures[e] + aborted[e] + Credit(e, u)

Accounts == \A e \in Events, u \in Users : Balanced(e, u)

LEMMA UndecidedStep ==
  TypeOK /\ Undecided /\ [Next]_vars => Undecided'
  <1> SUFFICES ASSUME TypeOK, Undecided, [Next]_vars PROVE Undecided'
    OBVIOUS
  <1> USE DEF rows, worker, history
  <1>1. ASSUME NEW w \in Workers, Forget(w) PROVE Undecided'
    BY <1>1 DEF TypeOK, Undecided, Forget
  <1>2. ASSUME NEW w \in Workers, NEW result, Finish(w, result) PROVE Undecided'
    BY <1>2 DEF TypeOK, Undecided, Finish
  <1>3. ASSUME NEW w \in Workers, NEW e \in Events, BeginDispatch(w, e) PROVE Undecided'
    BY <1>3 DEF TypeOK, Undecided, BeginDispatch
  <1>4. CASE UNCHANGED <<current, outcome>>
    BY <1>4 DEF Undecided
  <1>5. QED
    BY <1>1, <1>2, <1>3, <1>4
    DEF Next, WorkerStep, Publish, BackoffElapses, SelectBatch, PollNothing, PublishToUser,
        DispatchReturns, DispatchRaises, Commit, CommitRaises, LoseConnection, Crash, vars

\* What has to be shown of a step: what it adds to one side of the account is
\* on the other side too.
LEMMA Ledger ==
  ASSUME TypeOK, TypeOK', NEW x \in Events, NEW y \in Users, Balanced(x, y), IsFiniteSet(Owing(x, y)'),
         copies'[x][y] + Cardinality(Owing(x, y)') + failures[x] + aborted[x] + Credit(x, y) <=
           copies[x][y] + Cardinality(Owing(x, y)) + failures'[x] + aborted'[x] + Credit(x, y)'
  PROVE  Balanced(x, y)'
  <1>1. /\ copies[x][y] \in Nat /\ failures[x] \in Nat /\ aborted[x] \in Nat
        /\ copies'[x][y] \in Nat /\ failures'[x] \in Nat /\ aborted'[x] \in Nat
    BY DEF TypeOK
  <1>2. Cardinality(Owing(x, y)) \in Nat /\ Cardinality(Owing(x, y)') \in Nat
    BY FS_CardinalityType DEF Balanced
  <1>3. Credit(x, y) \in Nat /\ Credit(x, y)' \in Nat
    BY DEF Credit
  <1>4. copies[x][y] + Cardinality(Owing(x, y)) <= failures[x] + aborted[x] + Credit(x, y)
    BY DEF Balanced
  <1>5. copies'[x][y] + Cardinality(Owing(x, y)') <= failures'[x] + aborted'[x] + Credit(x, y)'
    BY <1>1, <1>2, <1>3, <1>4
  <1>6. QED
    BY <1>5 DEF Balanced

\* No copy is made, nobody owes more, and what was earned stays or is paid for.
LEMMA NothingGiven ==
  ASSUME TypeOK, TypeOK', NEW x \in Events, NEW y \in Users, Balanced(x, y),
         Owing(x, y)' \subseteq Owing(x, y), copies'[x][y] = copies[x][y],
         failures'[x] >= failures[x], aborted'[x] >= aborted[x],
         \/ Earned(x, y) => Earned(x, y)'
         \/ failures'[x] > failures[x] \/ aborted'[x] > aborted[x]
  PROVE  Balanced(x, y)'
  <1>1. /\ copies[x][y] \in Nat /\ failures[x] \in Nat /\ aborted[x] \in Nat
        /\ copies'[x][y] \in Nat /\ failures'[x] \in Nat /\ aborted'[x] \in Nat
    BY DEF TypeOK
  <1>2. /\ IsFiniteSet(Owing(x, y)) /\ IsFiniteSet(Owing(x, y)')
        /\ Cardinality(Owing(x, y)') <= Cardinality(Owing(x, y))
    BY FS_Subset DEF Balanced
  <1>3. Cardinality(Owing(x, y)) \in Nat /\ Cardinality(Owing(x, y)') \in Nat
    BY <1>2, FS_CardinalityType
  <1>4. failures[x] + aborted[x] + Credit(x, y) <= failures'[x] + aborted'[x] + Credit(x, y)'
    BY <1>1 DEF Credit
  <1>5. Credit(x, y) \in Nat /\ Credit(x, y)' \in Nat
    BY DEF Credit
  <1>6. copies'[x][y] + Cardinality(Owing(x, y)') + failures[x] + aborted[x] + Credit(x, y) <=
          copies[x][y] + Cardinality(Owing(x, y)) + failures'[x] + aborted'[x] + Credit(x, y)'
    BY <1>1, <1>2, <1>3, <1>4, <1>5
  <1>7. QED
    BY <1>2, <1>6, Ledger

\* A copy that a live batch makes is its first, and the only one that is earned.
LEMMA NotYetEarned ==
  ASSUME TypeOK, RowLocks, DispatchProgress, Undecided,
         NEW w \in Workers, NEW x \in Events, NEW y \in Users,
         current[w] = x, sent[w] < Len(Targets(x)), y = Targets(x)[sent[w] + 1]
  PROVE  /\ x \in batch[w] /\ outcome[w][x] = "none" /\ ~Given(w, x, y)
         /\ linked[w] => ~Earned(x, y)
  <1>1. current[w] # None /\ x \in batch[w] /\ outcome[w][x] = "none"
    BY NoneAssumption DEF DispatchProgress, LoopState, Undecided
  <1>2. \A i \in 1..sent[w] : Targets(x)[i] # y
    <2>1. sent[w] \in Nat /\ Len(Targets(x)) \in Nat
      BY TargetsType DEF TypeOK
    <2>2. \A i, j \in 1..Len(Targets(x)) : Targets(x)[i] = Targets(x)[j] => i = j
      BY AudienceAssumption DEF Targets
    <2>3. QED
      BY <2>1, <2>2
  <1>3. ~Given(w, x, y)
    BY <1>1, <1>2 DEF Given
  <1>4. ASSUME linked[w] PROVE ~Earned(x, y)
    <2>1. status[x] = "pending"
      BY <1>1, <1>4 DEF RowLocks, HeldRowsPending
    <2>2. \A v \in Workers : linked[v] /\ x \in batch[v] => v = w
      BY <1>1, <1>4 DEF RowLocks, HeldRowsExclusive
    <2>3. QED
      BY <1>3, <2>1, <2>2 DEF Earned
  <1>5. QED
    BY <1>1, <1>3, <1>4

\* A copy is made: by a live batch that has earned it or raised, or by one
\* that owed it.
LEMMA OneGiven ==
  ASSUME TypeOK, TypeOK', NEW x \in Events, NEW y \in Users, Balanced(x, y), NEW w \in Workers,
         Owing(x, y)' \subseteq Owing(x, y) \ {w}, copies'[x][y] = copies[x][y] + 1,
         failures'[x] >= failures[x], aborted'[x] >= aborted[x],
         \/ ~Earned(x, y) /\ (Earned(x, y)' \/ failures'[x] > failures[x])
         \/ w \in Owing(x, y) /\ (Earned(x, y) => Earned(x, y)')
  PROVE  Balanced(x, y)'
  <1>1. /\ copies[x][y] \in Nat /\ failures[x] \in Nat /\ aborted[x] \in Nat
        /\ copies'[x][y] \in Nat /\ failures'[x] \in Nat /\ aborted'[x] \in Nat
    BY DEF TypeOK
  <1>2. /\ IsFiniteSet(Owing(x, y)) /\ IsFiniteSet(Owing(x, y)')
        /\ Cardinality(Owing(x, y)') <= Cardinality(Owing(x, y))
    BY FS_Subset DEF Balanced
  <1>3. Cardinality(Owing(x, y)) \in Nat /\ Cardinality(Owing(x, y)') \in Nat
    BY <1>2, FS_CardinalityType
  <1>4. Credit(x, y) \in Nat /\ Credit(x, y)' \in Nat
    BY DEF Credit
  <1>5. CASE ~Earned(x, y) /\ (Earned(x, y)' \/ failures'[x] > failures[x])
    <2>1. failures[x] + aborted[x] + Credit(x, y) + 1 <= failures'[x] + aborted'[x] + Credit(x, y)'
      BY <1>1, <1>5 DEF Credit
    <2>2. copies'[x][y] + Cardinality(Owing(x, y)') + failures[x] + aborted[x] + Credit(x, y) <=
            copies[x][y] + Cardinality(Owing(x, y)) + failures'[x] + aborted'[x] + Credit(x, y)'
      BY <1>1, <1>2, <1>3, <1>4, <2>1
    <2>3. QED
      BY <1>2, <2>2, Ledger
  <1>6. CASE w \in Owing(x, y) /\ (Earned(x, y) => Earned(x, y)')
    <2>1. IsFiniteSet(Owing(x, y) \ {w}) /\ Cardinality(Owing(x, y) \ {w}) = Cardinality(Owing(x, y)) - 1
      BY <1>2, <1>6, FS_RemoveElement
    <2>2. Cardinality(Owing(x, y)') <= Cardinality(Owing(x, y)) - 1
      BY <2>1, FS_Subset
    <2>3. failures[x] + aborted[x] + Credit(x, y) <= failures'[x] + aborted'[x] + Credit(x, y)'
      BY <1>1, <1>6 DEF Credit
    <2>4. copies'[x][y] + Cardinality(Owing(x, y)') + failures[x] + aborted[x] + Credit(x, y) <=
            copies[x][y] + Cardinality(Owing(x, y)) + failures'[x] + aborted'[x] + Credit(x, y)'
      BY <1>1, <1>2, <1>3, <1>4, <2>2, <2>3
    <2>5. QED
      BY <1>2, <2>4, Ledger
  <1>7. QED
    BY <1>5, <1>6

\* A batch that loses its locks may give a copy later: its abort pays for it.
LEMMA OneOwed ==
  ASSUME TypeOK, TypeOK', NEW x \in Events, NEW y \in Users, Balanced(x, y), NEW w \in Workers,
         Owing(x, y)' \subseteq Owing(x, y) \cup {w}, copies'[x][y] = copies[x][y],
         failures'[x] = failures[x], aborted'[x] = aborted[x] + 1, ~Earned(x, y)
  PROVE  Balanced(x, y)'
  <1>1. /\ copies[x][y] \in Nat /\ failures[x] \in Nat /\ aborted[x] \in Nat
        /\ copies'[x][y] \in Nat /\ failures'[x] \in Nat /\ aborted'[x] \in Nat
    BY DEF TypeOK
  <1>2. /\ IsFiniteSet(Owing(x, y)) /\ IsFiniteSet(Owing(x, y) \cup {w})
        /\ Cardinality(Owing(x, y) \cup {w}) =
             IF w \in Owing(x, y) THEN Cardinality(Owing(x, y)) ELSE Cardinality(Owing(x, y)) + 1
    BY FS_AddElement DEF Balanced
  <1>3. /\ IsFiniteSet(Owing(x, y)')
        /\ Cardinality(Owing(x, y)') <= Cardinality(Owing(x, y) \cup {w})
    BY <1>2, FS_Subset
  <1>4. Cardinality(Owing(x, y)) \in Nat /\ Cardinality(Owing(x, y)') \in Nat
    BY <1>2, <1>3, FS_CardinalityType
  <1>5. Cardinality(Owing(x, y)') <= Cardinality(Owing(x, y)) + 1
    BY <1>2, <1>3, <1>4
  <1>6. Credit(x, y) = 0 /\ Credit(x, y)' \in Nat
    BY DEF Credit
  <1>7. copies'[x][y] + Cardinality(Owing(x, y)') + failures[x] + aborted[x] + Credit(x, y) <=
          copies[x][y] + Cardinality(Owing(x, y)) + failures'[x] + aborted'[x] + Credit(x, y)'
    BY <1>1, <1>4, <1>5, <1>6
  <1>8. QED
    BY <1>3, <1>7, Ledger

LEMMA HandOverAdds ==
  ASSUME TypeOK, NEW w \in Workers, current[w] # None,
         sent[w] < Len(Targets(current[w])), HandOver(w), NEW x \in Events, NEW y \in Users
  PROVE  copies'[x][y] = IF x = current[w] /\ y = Targets(x)[sent[w] + 1]
                         THEN copies[x][y] + 1 ELSE copies[x][y]
  <1> DEFINE e == current[w]
             u == Targets(e)[sent[w] + 1]
  <1>1. e \in Events
    BY DEF TypeOK
  <1>2. sent[w] \in Nat /\ sent[w] + 1 \in 1..Len(Targets(e))
    BY <1>1, TargetsType DEF TypeOK
  <1>3. u \in Users
    BY <1>1, <1>2, TargetsType
  <1>4. copies' = [copies EXCEPT ![e] = [copies[e] EXCEPT ![u] = copies[e][u] + 1]]
    BY DEF HandOver
  <1>5. copies \in [Events -> [Users -> Nat]]
    BY DEF TypeOK
  <1>6. x = e => u = Targets(x)[sent[w] + 1]
    OBVIOUS
  <1> HIDE DEF e, u
  <1>7. copies'[x][y] = IF x = e /\ y = u THEN copies[x][y] + 1 ELSE copies[x][y]
    BY <1>1, <1>3, <1>4, <1>5
  <1>8. QED
    BY <1>6, <1>7 DEF e

\* The worker's memory of a batch that is dropped owes and earns nothing.
LEMMA ForgetsAll ==
  ASSUME TypeOK, NEW w \in Workers, Forget(w), NEW x \in Events, NEW y \in Users
  PROVE  /\ Owing(x, y)' \subseteq Owing(x, y)
         /\ \A v \in Workers : linked[v] /\ x \in batch[v] /\ Given(v, x, y) /\ v # w
                               => linked'[v] /\ x \in batch'[v] /\ Given(v, x, y)'
  <1>1. \A v \in Workers : v # w => /\ linked'[v] = linked[v] /\ batch'[v] = batch[v]
                                   /\ outcome'[v] = outcome[v] /\ current'[v] = current[v] /\ sent'[v] = sent[v]
    BY DEF TypeOK, Forget
  <1>2. batch'[w] = {}
    BY DEF TypeOK, Forget
  <1>3. \A v \in Workers : v # w => (Given(v, x, y)' <=> Given(v, x, y))
    BY <1>1 DEF Given, Targets
  <1>4. QED
    BY <1>1, <1>2, <1>3 DEF Owing

LEMMA AccountsStep ==
  TypeOK /\ TypeOK' /\ RowLocks /\ DispatchProgress /\ Undecided /\ Accounts /\ [Next]_vars => Accounts'
  <1> SUFFICES ASSUME TypeOK, TypeOK', RowLocks, DispatchProgress, Undecided, Accounts, [Next]_vars,
                      NEW x \in Events, NEW y \in Users
               PROVE  Balanced(x, y)'
    BY DEF Accounts
  <1> USE DEF rows, worker, history
  <1>a. Balanced(x, y)
    BY DEF Accounts
  <1>b. /\ copies[x][y] \in Nat /\ failures[x] \in Nat /\ aborted[x] \in Nat
    BY DEF TypeOK
  <1>1. ASSUME NEW e \in Events, Publish(e) PROVE Balanced(x, y)'
    <2>1. Owing(x, y)' = Owing(x, y) /\ (Earned(x, y) => Earned(x, y)')
      BY <1>1 DEF TypeOK, Publish, Owing, Earned, Given, Targets
    <2>2. QED
      BY <1>1, <1>a, <1>b, <2>1, NothingGiven DEF Publish
  <1>2. CASE UNCHANGED <<status, worker, history>>
    <2>1. Owing(x, y)' = Owing(x, y) /\ (Earned(x, y) => Earned(x, y)')
      BY <1>2 DEF Owing, Earned, Given, Targets
    <2>2. QED
      BY <1>2, <1>a, <1>b, <2>1, NothingGiven
  <1>3. ASSUME NEW w \in Workers, SelectBatch(w) PROVE Balanced(x, y)'
    <2>1. /\ batch[w] = {} /\ linked'[w] /\ UNCHANGED <<status, current, sent, outcome, history>>
          /\ \A v \in Workers : v # w => batch'[v] = batch[v] /\ linked'[v] = linked[v]
      BY <1>3 DEF TypeOK, SelectBatch
    <2>2. \A v \in Workers : Given(v, x, y)' <=> Given(v, x, y)
      BY <2>1 DEF Given, Targets
    <2>3. Owing(x, y)' \subseteq Owing(x, y) /\ (Earned(x, y) => Earned(x, y)')
      BY <2>1, <2>2 DEF Owing, Earned
    <2>4. QED
      BY <1>a, <1>b, <2>1, <2>3, NothingGiven
  <1>4. ASSUME NEW w \in Workers, NEW e \in Events, BeginDispatch(w, e) PROVE Balanced(x, y)'
    <2>1. /\ UNCHANGED <<status, batch, linked, sent, outcome, history>>
          /\ current[w] = None /\ sent[w] = 0 /\ \A v \in Workers : v # w => current'[v] = current[v]
      BY <1>4 DEF TypeOK, BeginDispatch, DispatchProgress, LoopState
    <2>2. \A v \in Workers : Given(v, x, y)' <=> Given(v, x, y)
      BY <2>1, NoneAssumption DEF Given, Targets
    <2>3. Owing(x, y)' = Owing(x, y) /\ (Earned(x, y) => Earned(x, y)')
      BY <2>1, <2>2 DEF Owing, Earned
    <2>4. QED
      BY <1>a, <1>b, <2>1, <2>3, NothingGiven
  <1>5. ASSUME NEW w \in Workers, PublishToUser(w) PROVE Balanced(x, y)'
    <2>1. /\ current[w] # None /\ sent[w] < Len(Targets(current[w])) /\ HandOver(w)
          /\ sent' = [sent EXCEPT ![w] = sent[w] + 1]
          /\ UNCHANGED <<status, batch, linked, current, outcome, failures, aborted>>
      BY <1>5 DEF PublishToUser
    <2>2. sent[w] \in Nat /\ sent'[w] = sent[w] + 1 /\ \A v \in Workers : v # w => sent'[v] = sent[v]
      BY <2>1 DEF TypeOK
    <2>3. \A v \in Workers : Given(v, x, y) => Given(v, x, y)'
      BY <2>1, <2>2 DEF Given, Targets
    <2>4. Owing(x, y)' \subseteq Owing(x, y) /\ (Earned(x, y) => Earned(x, y)')
      BY <2>1, <2>3 DEF Owing, Earned
    <2>5. CASE x = current[w] /\ y = Targets(x)[sent[w] + 1]
      <3>1. Given(w, x, y)'
        BY <2>1, <2>2, <2>5 DEF Given, Targets
      <3>2. /\ x \in batch[w] /\ outcome[w][x] = "none" /\ ~Given(w, x, y)
            /\ linked[w] => ~Earned(x, y)
        BY <2>1, <2>5, NotYetEarned
      <3>3. Owing(x, y)' \subseteq Owing(x, y) \ {w}
        BY <2>4, <3>1 DEF Owing
      <3>4. linked[w] => Earned(x, y)'
        BY <2>1, <3>1, <3>2 DEF Earned
      <3>5. linked[w] \/ w \in Owing(x, y)
        BY <3>2 DEF Owing
      <3>6. copies'[x][y] = copies[x][y] + 1
        BY <2>1, <2>5, HandOverAdds
      <3>7. QED
        BY <1>a, <1>b, <2>1, <2>4, <3>2, <3>3, <3>4, <3>5, <3>6, OneGiven
    <2>6. CASE ~(x = current[w] /\ y = Targets(x)[sent[w] + 1])
      <3>1. copies'[x][y] = copies[x][y]
        BY <2>1, <2>6, HandOverAdds
      <3>2. QED
        BY <1>a, <1>b, <2>1, <2>4, <3>1, NothingGiven
    <2>7. QED
      BY <2>5, <2>6
  <1>6. ASSUME NEW w \in Workers, DispatchReturns(w) PROVE Balanced(x, y)'
    <2>1. /\ current[w] # None /\ current[w] \in Events /\ outcome'[w][current[w]] = "sent"
          /\ UNCHANGED <<status, batch, linked, history>>
          /\ \A e \in Events : e # current[w] => outcome'[w][e] = outcome[w][e]
          /\ \A v \in Workers : v # w => /\ current'[v] = current[v] /\ sent'[v] = sent[v]
                                         /\ outcome'[v] = outcome[v]
      BY <1>6 DEF TypeOK, DispatchReturns, Finish
    <2>2. \A v \in Workers : Given(v, x, y) => Given(v, x, y)'
      BY <2>1 DEF Given, Targets
    <2>3. \A v \in Workers : outcome'[v][x] = "none" => outcome[v][x] = "none"
      BY <2>1 DEF Undecided
    <2>4. Owing(x, y)' \subseteq Owing(x, y) /\ (Earned(x, y) => Earned(x, y)')
      BY <2>1, <2>2, <2>3 DEF Owing, Earned
    <2>5. QED
      BY <1>a, <1>b, <2>1, <2>4, NothingGiven
  <1>7. ASSUME NEW w \in Workers, DispatchRaises(w) PROVE Balanced(x, y)'
    <2>1. /\ current[w] # None /\ current[w] \in Events /\ outcome'[w][current[w]] = "error"
          /\ UNCHANGED <<status, batch, linked, aborted>>
          /\ failures' = [failures EXCEPT ![current[w]] = failures[current[w]] + 1]
          /\ \A e \in Events : e # current[w] => outcome'[w][e] = outcome[w][e]
          /\ \A v \in Workers : v # w => /\ current'[v] = current[v] /\ sent'[v] = sent[v]
                                         /\ outcome'[v] = outcome[v]
      BY <1>7 DEF TypeOK, DispatchRaises, Finish
    <2>2. failures'[x] = IF x = current[w] THEN failures[x] + 1 ELSE failures[x]
      BY <2>1 DEF TypeOK
    <2>3. \A v \in Workers : x # current[w] \/ v # w => (Given(v, x, y) => Given(v, x, y)')
      BY <2>1 DEF Given, Targets
    <2>4. \A v \in Workers : x # current[w] \/ v # w => outcome'[v][x] = outcome[v][x]
      BY <2>1
    <2>5. Owing(x, y)' \subseteq Owing(x, y) /\ (x = current[w] => w \notin Owing(x, y)')
      BY <2>1, <2>3, <2>4 DEF Owing
    <2>6. x # current[w] => (Earned(x, y) => Earned(x, y)')
      BY <2>1, <2>3 DEF Earned
    <2>7. CASE copies'[x][y] = copies[x][y]
      BY <1>a, <1>b, <2>1, <2>2, <2>5, <2>6, <2>7, NothingGiven
    <2>8. CASE copies'[x][y] # copies[x][y]
      <3>1. sent[w] < Len(Targets(current[w])) /\ HandOver(w)
        BY <1>7, <2>8 DEF DispatchRaises
      <3>2. x = current[w] /\ y = Targets(x)[sent[w] + 1] /\ copies'[x][y] = copies[x][y] + 1
        BY <2>1, <2>8, <3>1, HandOverAdds
      <3>3. /\ x \in batch[w] /\ outcome[w][x] = "none" /\ ~Given(w, x, y)
            /\ linked[w] => ~Earned(x, y)
        BY <3>1, <3>2, NotYetEarned
      <3>4. linked[w] \/ w \in Owing(x, y)
        BY <3>3 DEF Owing
      <3>5. ~linked[w] => (Earned(x, y) => Earned(x, y)')
        BY <2>1, <2>3 DEF Earned
      <3>6. QED
        BY <1>a, <1>b, <2>1, <2>2, <2>5, <3>2, <3>3, <3>4, <3>5, OneGiven
    <2>9. QED
      BY <2>7, <2>8
  <1>8. ASSUME NEW w \in Workers, Commit(w) PROVE Balanced(x, y)'
    <2>1. Forget(w) /\ linked[w] /\ BatchDone(w) /\ UNCHANGED history
      BY <1>8 DEF Commit
    <2>2. x \notin batch[w] => status'[x] = status[x]
      BY <1>8 DEF Commit
    <2>3. x \in batch[w] /\ Given(w, x, y) => status'[x] = "processed"
      BY <1>8, <2>1, NoneAssumption DEF Commit, BatchDone, Given, SettledStatus
    <2>4. status[x] = "processed" => x \notin batch[w]
      BY <2>1 DEF RowLocks, HeldRowsPending
    <2>5. Earned(x, y) => Earned(x, y)'
      BY <2>1, <2>2, <2>3, <2>4, ForgetsAll DEF Earned
    <2>6. QED
      BY <1>a, <1>b, <2>1, <2>5, ForgetsAll, NothingGiven
  <1>9. ASSUME NEW w \in Workers, CommitRaises(w) PROVE Balanced(x, y)'
    <2>1. Forget(w) /\ ~linked[w] /\ UNCHANGED <<status, history>>
      BY <1>9 DEF CommitRaises
    <2>2. Earned(x, y) => Earned(x, y)'
      BY <2>1, ForgetsAll DEF Earned
    <2>3. QED
      BY <1>a, <1>b, <2>1, <2>2, ForgetsAll, NothingGiven
  <1>10. ASSUME NEW w \in Workers, Crash(w) PROVE Balanced(x, y)'
    <2>1. Forget(w) /\ UNCHANGED <<status, copies, failures>>
      BY <1>10 DEF Crash
    <2>2. aborted'[x] = IF x \in batch[w] /\ linked[w] THEN aborted[x] + 1 ELSE aborted[x]
      BY <1>10 DEF Crash, AbortBatch
    <2>3. ~(x \in batch[w] /\ linked[w]) => (Earned(x, y) => Earned(x, y)')
      BY <2>1, ForgetsAll DEF Earned
    <2>4. QED
      BY <1>a, <1>b, <2>1, <2>2, <2>3, ForgetsAll, NothingGiven
  <1>11. ASSUME NEW w \in Workers, LoseConnection(w) PROVE Balanced(x, y)'
    <2>1. /\ linked[w] /\ UNCHANGED <<status, batch, current, sent, outcome, copies, failures>>
          /\ ~linked'[w] /\ \A v \in Workers : v # w => linked'[v] = linked[v]
      BY <1>11 DEF TypeOK, LoseConnection
    <2>2. aborted'[x] = IF x \in batch[w] THEN aborted[x] + 1 ELSE aborted[x]
      BY <1>11, <2>1 DEF LoseConnection, AbortBatch
    <2>3. \A v \in Workers : Given(v, x, y)' <=> Given(v, x, y)
      BY <2>1 DEF Given, Targets
    <2>4. CASE x \notin batch[w] \/ Given(w, x, y)
      <3>1. Owing(x, y)' \subseteq Owing(x, y)
        BY <2>1, <2>3, <2>4 DEF Owing
      <3>2. x \notin batch[w] => (Earned(x, y) => Earned(x, y)')
        BY <2>1, <2>3 DEF Earned
      <3>3. QED
        BY <1>a, <1>b, <2>1, <2>2, <3>1, <3>2, NothingGiven
    <2>5. CASE x \in batch[w] /\ ~Given(w, x, y)
      <3>1. Owing(x, y)' \subseteq Owing(x, y) \cup {w}
        BY <2>1, <2>3 DEF Owing
      <3>2. status[x] = "pending" /\ \A v \in Workers : linked[v] /\ x \in batch[v] => v = w
        BY <2>1, <2>5 DEF RowLocks, HeldRowsPending, HeldRowsExclusive
      <3>3. ~Earned(x, y)
        BY <2>5, <3>2 DEF Earned
      <3>4. QED
        BY <1>a, <1>b, <2>1, <2>2, <2>5, <3>1, <3>3, OneOwed
    <2>6. QED
      BY <2>4, <2>5
  <1>12. QED
    BY <1>1, <1>2, <1>3, <1>4, <1>5, <1>6, <1>7, <1>8, <1>9, <1>10, <1>11
    DEF Next, WorkerStep, BackoffElapses, PollNothing, vars

\* Every copy that a user gets beyond the first has a dispatch that raised or
\* a batch that lost its locks behind it, and no two have the same one.
THEOREM CopiesAreAccountedFor == SafetySpec => []CopiesAccountedFor
  <1>1. Init => DispatchProgress /\ RowLocks /\ Undecided
    BY DEF Init, DispatchProgress, LoopState, RowLocks, HeldRowsExclusive, HeldRowsPending, Undecided
  <1>2. Init => Accounts
    <2>1. SUFFICES ASSUME Init, NEW x \in Events, NEW y \in Users PROVE Balanced(x, y)
      BY DEF Accounts
    <2>2. Owing(x, y) = {}
      BY <2>1 DEF Init, Owing
    <2>3. copies[x][y] = 0 /\ failures[x] = 0 /\ aborted[x] = 0 /\ Credit(x, y) \in Nat
      BY <2>1 DEF Init, Credit
    <2>4. QED
      BY <2>2, <2>3, FS_EmptySet DEF Balanced
  <1>3. ASSUME TypeOK, Accounts, NEW x \in Events, NEW y \in Users
        PROVE  copies[x][y] <= 1 + failures[x] + aborted[x]
    <2>1. copies[x][y] \in Nat /\ failures[x] \in Nat /\ aborted[x] \in Nat
      BY <1>3 DEF TypeOK
    <2>2. IsFiniteSet(Owing(x, y))
          /\ copies[x][y] + Cardinality(Owing(x, y)) <= failures[x] + aborted[x] + Credit(x, y)
      BY <1>3 DEF Accounts, Balanced
    <2>3. Cardinality(Owing(x, y)) \in Nat /\ Credit(x, y) \in {0, 1}
      BY <2>2, FS_CardinalityType DEF Credit
    <2>4. QED
      BY <2>1, <2>2, <2>3
  <1>4. TypeOK /\ Accounts => CopiesAccountedFor
    BY <1>3 DEF CopiesAccountedFor
  <1>5. QED
    BY <1>1, <1>2, <1>4, TypeCorrect, RowLocksStep, ProgressStep, UndecidedStep, AccountsStep, PTL
    DEF SafetySpec

-----------------------------------------------------------------------------
(* Outbox implements Delivery                                              *)

\* A row that some worker holds exists, whether or not its locks still live.
HeldRowsExist == \A w \in Workers : \A e \in batch[w] : status[e] # "absent"

LEMMA HeldRowsExistStep == TypeOK /\ HeldRowsExist /\ [Next]_vars => HeldRowsExist'
  <1> SUFFICES ASSUME TypeOK, HeldRowsExist, [Next]_vars,
                      NEW v \in Workers, NEW x \in batch'[v]
               PROVE  status'[x] # "absent"
    BY DEF HeldRowsExist
  <1> USE DEF rows, worker, history
  <1>1. x \in batch[v] \/ \E w \in Workers : SelectBatch(w) /\ status[x] = "pending"
    <2>1. ASSUME NEW w \in Workers, SelectBatch(w), x \notin batch[v]
          PROVE  status[x] = "pending"
      BY <2>1 DEF TypeOK, SelectBatch, Selectable, DueRows
    <2>2. ASSUME NEW w \in Workers, Forget(w) PROVE x \in batch[v]
      BY <2>2 DEF TypeOK, Forget
    <2>3. QED
      BY <2>1, <2>2
      DEF Next, WorkerStep, Publish, BackoffElapses, PollNothing, BeginDispatch,
          PublishToUser, DispatchReturns, DispatchRaises, Commit, CommitRaises,
          LoseConnection, Crash, vars
  <1>2. x \in Events /\ status[x] # "absent"
    BY <1>1 DEF TypeOK, HeldRowsExist, SelectBatch, Selectable, DueRows
  <1>3. CASE UNCHANGED status
    BY <1>2, <1>3
  <1>4. ASSUME NEW e \in Events, Publish(e) PROVE status'[x] # "absent"
    BY <1>2, <1>4 DEF TypeOK, Publish
  <1>5. ASSUME NEW w \in Workers, Commit(w) PROVE status'[x] # "absent"
    BY <1>2, <1>5 DEF TypeOK, Commit, SettledStatus
  <1>6. QED
    BY <1>3, <1>4, <1>5
    DEF Next, WorkerStep, BackoffElapses, SelectBatch, PollNothing, BeginDispatch,
        PublishToUser, DispatchReturns, DispatchRaises, CommitRaises, LoseConnection,
        Crash, vars

\* A hand-over of the outbox is a Reach step (or a repetition) of Delivery.
LEMMA HandOverReaches ==
  ASSUME TypeOK, TypeOK', HeldRowsExist, DispatchProgress,
         NEW w \in Workers, current[w] # None, sent[w] < Len(Targets(current[w])),
         HandOver(w), UNCHANGED status
  PROVE  \E e \in Events, u \in Users : D!Reach(e, u)
  <1>1. PICK e \in Events : e = current[w] /\ status[e] # "absent"
    BY DEF TypeOK, HeldRowsExist, DispatchProgress, LoopState
  <1>2. sent[w] + 1 \in 1..Len(Targets(e))
    <2>1. sent[w] \in Nat
      BY DEF TypeOK
    <2>2. Len(Targets(e)) \in Nat
      BY TargetsType
    <2>3. sent[w] < Len(Targets(e))
      BY <1>1
    <2>4. QED
      BY <2>1, <2>2, <2>3
  <1>3. PICK u \in Users : u = Targets(e)[sent[w] + 1] /\ u \in TargetSet(e)
    BY <1>1, <1>2, TargetsType DEF TargetSet
  <1>4. /\ \A x \in Events, y \in Users : copies'[x][y] >= copies[x][y]
        /\ copies'[e][u] > 0
        /\ \A x \in Events, y \in Users : copies'[x][y] # copies[x][y] => x = e /\ y = u
    BY <1>1, <1>3, HandOverEffect
  <1>5. \A x \in Events, y \in Users : copies[x][y] \in Nat /\ copies'[x][y] \in Nat
    BY DEF TypeOK
  <1>6. Reached(e)' = Reached(e) \cup {u}
    BY <1>1, <1>3, <1>4, <1>5 DEF Reached
  <1>7. \A x \in Events : x # e => Reached(x)' = Reached(x)
    BY <1>4 DEF Reached
  <1>8. [x \in Events |-> Reached(x)]' = [[x \in Events |-> Reached(x)] EXCEPT ![e] = @ \cup {u}]
    BY <1>1, <1>6, <1>7
  <1>9. D!Reach(e, u)
    BY <1>1, <1>3, <1>8 DEF D!Reach
  <1>10. QED
    BY <1>1, <1>3, <1>9

\* A committed batch is one Settle step.
LEMMA CommitSettles ==
  ASSUME TypeOK, RowLocks, DispatchProgress, SentMeansReached,
         NEW w \in Workers, Commit(w)
  PROVE  \E done, dropped \in SUBSET Events : D!Settle(done, dropped)
  <1> DEFINE done == {e \in batch[w] : outcome[w][e] = "sent"}
             dropped == {e \in Errors(w) : Exhausted(e)}
  <1>1. done \in SUBSET Events /\ dropped \in SUBSET Events /\ done \cap dropped = {}
    BY DEF TypeOK, Errors
  <1>2. \A e \in done \cup dropped : status[e] = "pending"
    BY DEF Commit, RowLocks, HeldRowsPending, Errors
  <1>3. \A e \in done : TargetSet(e) \subseteq Reached(e)
    BY <1>1 DEF SentMeansReached
  <1>4. status' = [e \in Events |-> CASE e \in done -> "processed"
                                     [] e \in dropped -> "failed"
                                     [] OTHER -> status[e]]
    BY <1>1 DEF TypeOK, Commit, BatchDone, SettledStatus, Errors, Outcomes, RowLocks, HeldRowsPending
  <1>5. UNCHANGED copies
    BY DEF Commit, history
  <1>6. [e \in Events |-> Reached(e)]' = [e \in Events |-> Reached(e)]
    BY <1>5 DEF Reached
  <1> HIDE DEF done, dropped
  <1>7. D!Settle(done, dropped)
    BY <1>1, <1>2, <1>3, <1>4, <1>6 DEF D!Settle
  <1>8. QED
    BY <1>1, <1>7

LEMMA StepRefines ==
  ASSUME TypeOK, TypeOK', RowLocks, DispatchProgress, SentMeansReached, HeldRowsExist,
         [Next]_vars
  PROVE  [D!Next]_(D!vars)
  <1> USE DEF rows, worker, history
  <1>1. ASSUME NEW e \in Events, Publish(e) PROVE D!Post(e)
    BY <1>1 DEF Publish, D!Post, Reached
  <1>2. ASSUME NEW w \in Workers, PublishToUser(w) PROVE D!Next
    BY <1>2, HandOverReaches DEF PublishToUser, D!Next
  <1>3. ASSUME NEW w \in Workers, DispatchRaises(w), copies' # copies PROVE D!Next
    BY <1>3, HandOverReaches DEF DispatchRaises, D!Next
  <1>4. ASSUME NEW w \in Workers, Commit(w) PROVE D!Next
    BY <1>4, CommitSettles DEF D!Next
  <1>5. CASE UNCHANGED <<status, copies>>
    BY <1>5 DEF D!vars, Reached
  <1>6. QED
    BY <1>1, <1>2, <1>3, <1>4, <1>5
    DEF D!Next, Next, WorkerStep, BackoffElapses, SelectBatch, PollNothing, BeginDispatch,
        DispatchReturns, DispatchRaises, CommitRaises, LoseConnection, Crash, vars

\* Workers, batches, locks, retries and crashes implement the outbox's
\* promise: nothing is handed over that no request committed, and a row is
\* reported processed only after all its targets were reached.
THEOREM OutboxImplementsDelivery == SafetySpec => DeliverySafety
  <1>1. Init => D!Init
    BY DEF Init, D!Init, Reached
  <1>2. Init => DispatchProgress /\ SentMeansReached /\ HeldRowsExist /\ RowLocks
    BY DEF Init, DispatchProgress, LoopState, SentMeansReached, HeldRowsExist,
           RowLocks, HeldRowsExclusive, HeldRowsPending
  <1>3. QED
    BY <1>1, <1>2, TypeCorrect, ProgressStep, SentMeansReachedStep, HeldRowsExistStep,
       RowLocksStep, StepRefines, PTL
    DEF SafetySpec, DeliverySafety, D!Safety
=============================================================================
