------------------------------- MODULE BatchProofs -------------------------------
(***************************************************************************)
(* Proofs about BatchService, for any number of tasks, workers and         *)
(* replicas: a task that ended keeps its status, the processing slots are  *)
(* the tasks the workers have, the counters account for every task, and a  *)
(* reply is read by the worker it answers.                                 *)
(***************************************************************************)
EXTENDS BatchService, FiniteSetTheorems, TLAPS

USE DEF Tasks, Ended, NoTask

--------------------------------------------------------------------------------
(* The task manager.                                                       *)

Fields == {"state", "stop", "table", "ended", "slots", "capacity", "zero", "total",
           "completed", "failed"}

\* A manager's tasks: numbered from 1 to `total'; a task that is pending or
\* processing is in the table; only a task that ended was stopped; a slot is
\* given to claimed tasks only.
Good(m) ==
  /\ m = [f \in Fields |-> m[f]]
  /\ m.state \in [Tasks -> TaskStates]
  /\ m.table \in SUBSET Tasks /\ m.slots \in SUBSET Tasks
  /\ m.total \in Nat
  /\ \A t \in Tasks :
       /\ t > m.total => m.state[t] = "new" /\ t \notin m.table
       /\ m.state[t] \in {"pending", "processing"} => t \in m.table
       /\ t \in m.stop => m.state[t] \in Ended
       /\ t \in m.slots => m.state[t] \notin {"new", "pending"}

\* What no operation does but a claim or a release.
Later(m, n) ==
  /\ n.slots = m.slots
  /\ \A t \in Tasks : /\ m.state[t] \in Ended => n.state[t] = m.state[t]
                      /\ n.state[t] = "processing" => m.state[t] = "processing"

LEMMA NewManagerIsGood == ASSUME NEW n PROVE Good(NewManager(n))
BY TaskAssumption DEF Good, NewManager, Fields, TaskStates

LEMMA CleanupFacts ==
    ASSUME NEW m, Good(m)
    PROVE  Good(Cleanup(m)) /\ Later(m, Cleanup(m))
<1> DEFINE excess == Cardinality(m.table) - KeepCount
           gone == {t \in Tasks : m.state[t] \in Ended
                      /\ \E i \in 1 .. Smaller(excess, Len(m.ended)) : m.ended[i] = t}
           n == [m EXCEPT !.table = m.table \ gone, !.ended = Without(m.ended, gone)]
<1>1. Cleanup(m) = m \/ Cleanup(m) = n
  BY DEF Cleanup, Good, Fields
<1>2. gone \subseteq Tasks /\ \A t \in gone : m.state[t] \in Ended
  OBVIOUS
<1> HIDE DEF gone
<1>3. Good(n) /\ Later(m, n)
  BY <1>2 DEF Good, Later, Fields
<1>4. Later(m, m)
  BY DEF Later
<1> QED
  BY <1>1, <1>3, <1>4

LEMMA CreateFacts ==
    ASSUME NEW m, Good(m), CanCreate(m)
    PROVE  Good(Create(m)) /\ Later(m, Create(m))
<1> DEFINE t0 == m.total + 1
           n == [m EXCEPT !.table = m.table \cup {t0}, !.state[t0] = "pending", !.total = t0]
<1>1. t0 \in Tasks /\ t0 > m.total /\ m.state[t0] = "new" /\ t0 \in Nat
  <2>1. m.total < MaxTasks /\ m.total \in Nat
    BY DEF CanCreate, Good
  <2>2. t0 \in Tasks /\ t0 > m.total /\ t0 \in Nat
    BY ONLY <2>1, TaskAssumption DEF t0
  <2>3. \A t \in Tasks : t > m.total => m.state[t] = "new"
    BY DEF Good
  <2> QED
    BY <2>2, <2>3
<1>2. Create(m) = Cleanup(n)
  BY DEF Create, Good, Fields
<1>3. Good(n) /\ Later(m, n)
  <2>1. /\ n.state = [m.state EXCEPT ![t0] = "pending"] /\ n.table = m.table \cup {t0}
        /\ n.slots = m.slots /\ n.total = t0 /\ n.stop = m.stop /\ n = [f \in Fields |-> n[f]]
    BY DEF Good, Fields
  <2>2. m.state \in [Tasks -> TaskStates] /\ m.table \in SUBSET Tasks /\ m.slots \in SUBSET Tasks
        /\ m.total \in Nat
    BY DEF Good
  <2> HIDE DEF n
  <2>3. \A t \in Tasks : n.state[t] = IF t = t0 THEN "pending" ELSE m.state[t]
    BY <2>1, <2>2
  <2>4. n.state \in [Tasks -> TaskStates]
    BY <1>1, <2>1, <2>2 DEF TaskStates
  <2>5. \A t \in Tasks : /\ t > t0 => t > m.total /\ t # t0
                         /\ t0 = m.total + 1
    BY <2>2
  <2> HIDE DEF t0
  <2> QED
    BY <1>1, <2>1, <2>2, <2>3, <2>4, <2>5 DEF Good, Later
<1>4. Good(Cleanup(n)) /\ Later(n, Cleanup(n))
  BY <1>3, CleanupFacts
<1> QED
  BY <1>2, <1>3, <1>4 DEF Later

LEMMA CompleteFacts ==
    ASSUME NEW m, Good(m), NEW t \in Tasks, m.state[t] # "new"
    PROVE  Good(Complete(m, t)) /\ Later(m, Complete(m, t)) /\ Complete(m, t).state[t] \in Ended
<1> DEFINE n == [m EXCEPT !.state[t] = "completed", !.ended = Append(m.ended, t),
                          !.completed = m.completed + 1]
<1>1. CASE Open(m, t)
  <2>1. Complete(m, t) = n
    BY <1>1 DEF Complete, Good, Fields
  <2>2. Good(n) /\ Later(m, n) /\ n.state[t] \in Ended
    BY <1>1 DEF Good, Later, Fields, TaskStates, Open
  <2> QED
    BY <2>1, <2>2
<1>2. CASE ~Open(m, t)
  <2>1. Complete(m, t) = m
    BY <1>2 DEF Complete
  <2>2. m.state[t] \in Ended
    BY <1>2 DEF Good, Open, TaskStates
  <2> QED
    BY <2>1, <2>2 DEF Later
<1> QED
  BY <1>1, <1>2

LEMMA FailFacts ==
    ASSUME NEW m, Good(m), NEW t \in Tasks, m.state[t] # "new"
    PROVE  Good(Fail(m, t)) /\ Later(m, Fail(m, t)) /\ Fail(m, t).state[t] \in Ended
<1> DEFINE n == [m EXCEPT !.state[t] = "failed", !.ended = Append(m.ended, t),
                          !.failed = m.failed + 1]
<1>1. CASE Open(m, t)
  <2>1. Fail(m, t) = n
    BY <1>1 DEF Fail, Good, Fields
  <2>2. Good(n) /\ Later(m, n) /\ n.state[t] \in Ended
    BY <1>1 DEF Good, Later, Fields, TaskStates, Open
  <2> QED
    BY <2>1, <2>2
<1>2. CASE ~Open(m, t)
  <2>1. Fail(m, t) = m
    BY <1>2 DEF Fail
  <2>2. m.state[t] \in Ended
    BY <1>2 DEF Good, Open, TaskStates
  <2> QED
    BY <2>1, <2>2 DEF Later
<1> QED
  BY <1>1, <1>2

LEMMA CancelFacts ==
    ASSUME NEW m, Good(m), NEW t \in Tasks, CanCancel(m, t)
    PROVE  Good(Cancel(m, t)) /\ Later(m, Cancel(m, t))
<1> DEFINE n == [m EXCEPT !.state[t] = "cancelled", !.stop = m.stop \cup {t},
                          !.ended = Append(Without(m.ended, {t}), t)]
<1>1. Cancel(m, t) = n
  BY DEF Cancel, Good, Fields
<1>2. Good(n) /\ Later(m, n)
  BY DEF Good, Later, Fields, TaskStates, CanCancel
<1> QED
  BY <1>1, <1>2

LEMMA SetCapacityFacts ==
    ASSUME NEW m, Good(m), NEW k
    PROVE  Good(SetCapacity(m, k)) /\ Later(m, SetCapacity(m, k))
<1> DEFINE set == [m EXCEPT !.capacity = k]
           none == [set EXCEPT !.zero = TRUE]
           pending == InState(none, "pending")
           inOrder == CHOOSE q \in [1 .. Cardinality(pending) -> pending] :
                        \A i, j \in DOMAIN q : i < j => q[i] < q[j]
           failed == [t \in Tasks |-> IF t \in pending THEN "failed" ELSE none.state[t]]
           n == [none EXCEPT !.state = failed, !.ended = none.ended \o inOrder,
                             !.failed = none.failed + Cardinality(pending)]
<1>1. Good(set) /\ Later(m, set)
  BY DEF Good, Later, Fields
<1> HIDE DEF set
<1>2. Good(none) /\ Later(set, none)
  BY <1>1 DEF Good, Later, Fields
<1> HIDE DEF none
<1>3. FailPending(none) = n
  BY <1>2 DEF FailPending, Good, Fields
<1>4. pending \subseteq Tasks /\ \A t \in pending : none.state[t] = "pending"
  BY <1>2 DEF Good, InState
<1>5. failed \in [Tasks -> TaskStates]
      /\ \A t \in Tasks : failed[t] = IF t \in pending THEN "failed" ELSE none.state[t]
  BY <1>2, <1>4 DEF Good, TaskStates
<1> HIDE DEF inOrder, pending, failed
<1>6. n.state = failed /\ n.table = none.table /\ n.slots = none.slots /\ n.total = none.total
      /\ n.stop = none.stop /\ n = [f \in Fields |-> n[f]]
  BY <1>2 DEF Good, Fields
<1> HIDE DEF n
<1>7. Good(n) /\ Later(none, n)
  BY <1>2, <1>4, <1>5, <1>6 DEF Good, Later
<1>8. SetCapacity(m, k) = set \/ SetCapacity(m, k) = n
  BY <1>3 DEF SetCapacity, set, none
<1> QED
  BY <1>1, <1>2, <1>7, <1>8 DEF Later

--------------------------------------------------------------------------------
(* The steps of the service.                                               *)

BatchInv ==
  /\ Good(tm)
  /\ work \in [Workers -> Tasks \cup {NoTask}]
  /\ SlotsMatchWorkers

\* A step that leaves the workers' tasks alone.
Works(n) == Good(n) /\ Later(tm, n) /\ tm' = n /\ UNCHANGED work

\* The worker's task has ended and its slot is given back.
Gives(w, n) ==
  /\ Good(n) /\ Later(tm, n)
  /\ work[w] # NoTask => n.state[work[w]] \in Ended
  /\ tm' = Release(n, work[w]) /\ work' = [work EXCEPT ![w] = NoTask]

LEMMA WorksKeepsInv ==
    ASSUME BatchInv, NEW n, Works(n)
    PROVE  BatchInv'
BY DEF BatchInv, Works, SlotsMatchWorkers, Later

LEMMA ReleaseFacts ==
    ASSUME NEW n, Good(n), NEW t
    PROVE  /\ Good(Release(n, t)) /\ Release(n, t).slots = n.slots \ {t}
           /\ Release(n, t).state = n.state
BY DEF Release, Good, Fields

LEMMA GivesKeepsInv ==
    ASSUME BatchInv, NEW w \in Workers, NEW n, Gives(w, n)
    PROVE  BatchInv'
<1>1. Good(tm') /\ tm'.slots = n.slots \ {work[w]} /\ tm'.state = n.state
  BY ReleaseFacts DEF Gives
<1>2. work' = [work EXCEPT ![w] = NoTask] /\ work' \in [Workers -> Tasks \cup {NoTask}]
  BY DEF Gives, BatchInv
<1>3. \A v \in Workers : work'[v] = IF v = w THEN NoTask ELSE work[v]
  BY <1>2 DEF BatchInv
<1>4. \A u, v \in Workers : work'[u] = work'[v] /\ u # v => work'[u] = NoTask
  BY <1>3 DEF BatchInv, SlotsMatchWorkers
<1>5. n.slots = {work[v] : v \in Workers} \ {NoTask}
  BY DEF Gives, Later, BatchInv, SlotsMatchWorkers
<1>6. \A v \in Workers : v # w /\ work[v] # NoTask => work[v] # work[w]
  BY DEF BatchInv, SlotsMatchWorkers
<1>7. tm'.slots = {work'[v] : v \in Workers} \ {NoTask}
  BY <1>1, <1>3, <1>5, <1>6
<1>8. \A t \in Tasks : tm'.state[t] = "processing" => t \in tm'.slots
  <2> SUFFICES ASSUME NEW t \in Tasks, tm'.state[t] = "processing" PROVE t \in tm'.slots
    OBVIOUS
  <2>1. n.state[t] = "processing" /\ tm.state[t] = "processing" /\ t \in n.slots
    BY <1>1 DEF Gives, Later, BatchInv, SlotsMatchWorkers
  <2>2. t # work[w]
    BY <2>1 DEF Gives
  <2> QED
    BY <1>1, <2>1, <2>2
<1> QED
  BY <1>1, <1>2, <1>4, <1>7, <1>8 DEF BatchInv, SlotsMatchWorkers

\* What the task of a worker is known to be.
LEMMA WorkFacts ==
    ASSUME BatchInv, NEW w \in Workers
    PROVE  /\ Good(tm) /\ Later(tm, tm) /\ work[w] \in Tasks \cup {NoTask}
           /\ work[w] # NoTask => work[w] \in Tasks /\ tm.state[work[w]] # "new"
           /\ work[w] # NoTask /\ (work[w] \in tm.stop \/ work[w] \notin tm.table) =>
                tm.state[work[w]] \in Ended
<1>1. Good(tm) /\ Later(tm, tm) /\ work[w] \in Tasks \cup {NoTask}
  BY DEF BatchInv, Later
<1>2. ASSUME work[w] # NoTask PROVE work[w] \in Tasks /\ work[w] \in tm.slots
  BY <1>1, <1>2 DEF BatchInv, SlotsMatchWorkers
<1> QED
  BY <1>1, <1>2 DEF Good, TaskStates

LEMMA NoTaskFacts ==
    ASSUME NEW m, Good(m)
    PROVE  Complete(m, NoTask) = m /\ Fail(m, NoTask) = m
BY TaskAssumption DEF Good, Complete, Fail, Open

LEMMA SettledGives ==
    ASSUME BatchInv, NEW w \in Workers, NEW m, Good(m), Later(tm, m),
           tm' = Settled(w, m), work' = [work EXCEPT ![w] = NoTask]
    PROVE  \E n : Gives(w, n)
<1> DEFINE n == IF work[w] \in m.stop THEN m ELSE Fail(m, work[w])
<1>1. tm' = Release(n, work[w])
  BY DEF Settled
<1>2. CASE work[w] = NoTask
  BY <1>1, <1>2, NoTaskFacts DEF Gives
<1>3. CASE work[w] # NoTask
  <2>1. work[w] \in Tasks /\ m.state[work[w]] # "new"
    <3>1. work[w] \in Tasks
      BY <1>3, WorkFacts
    <3>2. work[w] \in m.slots
      BY <1>3 DEF BatchInv, SlotsMatchWorkers, Later
    <3> QED
      BY <3>1, <3>2 DEF Good
  <2>2. Good(n) /\ Later(m, n) /\ n.state[work[w]] \in Ended
    <3>1. CASE work[w] \in m.stop
      BY <2>1, <3>1 DEF Good, Later
    <3>2. CASE work[w] \notin m.stop
      BY <2>1, <3>2, FailFacts
    <3> QED
      BY <3>1, <3>2
  <2>3. Later(tm, n)
    BY <2>2 DEF Later
  <2> HIDE DEF n
  <2> QED
    BY <1>1, <2>2, <2>3 DEF Gives
<1> QED
  BY <1>2, <1>3

LEMMA WithCapacityFacts ==
    ASSUME BatchInv
    PROVE  Good(WithCapacity(tm)) /\ Later(tm, WithCapacity(tm))
<1>1. Good(tm) /\ Later(tm, tm)
  BY DEF BatchInv, Later
<1>2. Good(SetCapacity(tm, liveCount')) /\ Later(tm, SetCapacity(tm, liveCount'))
  BY <1>1, SetCapacityFacts
<1> QED
  BY <1>1, <1>2 DEF WithCapacity

LEMMA ClaimsKeepsInv ==
    ASSUME BatchInv, NEW w \in Workers, Claims(w)
    PROVE  /\ BatchInv'
           /\ \A t \in Tasks : tm.state[t] \in Ended => tm'.state[t] = tm.state[t]
<1>1. PICK t \in Claimable(tm) : work' = [work EXCEPT ![w] = t] /\ tm' = Claim(tm, t)
  BY DEF Claims
<1>2. work[w] = NoTask /\ t \in Tasks /\ tm.state[t] = "pending" /\ t \in tm.table
  BY <1>1 DEF Claims, Claimable, InState, BatchInv, Good
<1>3. t \notin tm.slots /\ t # NoTask
  BY <1>2, TaskAssumption DEF BatchInv, Good
<1>4. tm' = [tm EXCEPT !.state[t] = "processing", !.slots = tm.slots \cup {t}]
  BY <1>1 DEF Claim, BatchInv, Good, Fields
<1>5. /\ tm'.state = [tm.state EXCEPT ![t] = "processing"] /\ tm'.slots = tm.slots \cup {t}
      /\ tm'.table = tm.table /\ tm'.total = tm.total /\ tm'.stop = tm.stop
      /\ tm' = [f \in Fields |-> tm'[f]]
  BY <1>4 DEF BatchInv, Good, Fields
<1>6. tm.state \in [Tasks -> TaskStates] /\ tm'.state \in [Tasks -> TaskStates]
      /\ \A u \in Tasks : tm'.state[u] = IF u = t THEN "processing" ELSE tm.state[u]
  BY <1>2, <1>5 DEF BatchInv, Good, TaskStates
<1>7. Good(tm')
  BY <1>2, <1>5, <1>6 DEF BatchInv, Good
<1>8. work' \in [Workers -> Tasks \cup {NoTask}]
      /\ \A v \in Workers : work'[v] = IF v = w THEN t ELSE work[v]
  BY <1>1, <1>2 DEF BatchInv
<1>9. \A v \in Workers : work[v] # t
  BY <1>3 DEF BatchInv, SlotsMatchWorkers
<1>10. SlotsMatchWorkers'
  <2>1. \A u, v \in Workers : work'[u] = work'[v] /\ u # v => work'[u] = NoTask
    BY <1>8, <1>9 DEF BatchInv, SlotsMatchWorkers
  <2>2. tm'.slots = {work'[v] : v \in Workers} \ {NoTask}
    BY <1>2, <1>3, <1>5, <1>8 DEF BatchInv, SlotsMatchWorkers
  <2>3. \A u \in Tasks : tm'.state[u] = "processing" => u \in tm'.slots
    BY <1>5, <1>6 DEF BatchInv, SlotsMatchWorkers
  <2> QED
    BY <2>1, <2>2, <2>3 DEF SlotsMatchWorkers
<1> QED
  BY <1>2, <1>6, <1>7, <1>8, <1>10 DEF BatchInv

\* The steps of the workers that are no claim.
LEMMA WorkerKinds ==
    ASSUME BatchInv, NEW w \in Workers,
           \/ Drops(w) \/ Begins(w) \/ NoCapacity(w) \/ NoCapacityCancelled(w)
           \/ Takes(w) \/ GetsReply(w) \/ Forwards(w) \/ FindsDead(w)
    PROVE  (\E n : Works(n)) \/ (\E n : Gives(w, n))
<1>1. CASE Drops(w)
  <2>1. Gives(w, tm)
    BY <1>1, WorkFacts DEF Drops, Frees, Gives
  <2> QED
    BY <2>1
<1>2. CASE Begins(w) \/ Forwards(w)
  <2>1. Works(tm)
    BY <1>2, WorkFacts DEF Begins, Forwards, Works, workerVars
  <2> QED
    BY <2>1
<1>3. CASE NoCapacity(w)
  <2>1. work[w] \in Tasks /\ tm.state[work[w]] # "new"
    BY <1>3, WorkFacts DEF NoCapacity
  <2>2. Gives(w, Fail(tm, work[w]))
    BY <1>3, <2>1, WorkFacts, FailFacts DEF NoCapacity, Frees, Gives
  <2> QED
    BY <2>2
<1>4. CASE NoCapacityCancelled(w)
  <2>1. Gives(w, tm)
    BY <1>4, WorkFacts DEF NoCapacityCancelled, Frees, Gives
  <2> QED
    BY <2>1
<1>5. CASE Takes(w)
  <2>1. Works(WithCapacity(tm))
    BY <1>5, WithCapacityFacts DEF Takes, Works, workerVars
  <2> QED
    BY <2>1
<1>6. CASE GetsReply(w)
  <2>1. work' = [work EXCEPT ![w] = NoTask]
        /\ \/ tm' = Release(Complete(tm, work[w]), work[w])
           \/ tm' = Settled(w, tm)
    BY <1>6 DEF GetsReply, Frees
  <2>2. CASE tm' = Release(Complete(tm, work[w]), work[w])
    <3>1. CASE work[w] = NoTask
      <4>1. Gives(w, tm)
        BY <2>1, <2>2, <3>1, NoTaskFacts, WorkFacts DEF Gives
      <4> QED
        BY <4>1
    <3>2. CASE work[w] # NoTask
      <4>1. Gives(w, Complete(tm, work[w]))
        BY <2>1, <2>2, <3>2, WorkFacts, CompleteFacts DEF Gives
      <4> QED
        BY <4>1
    <3> QED
      BY <3>1, <3>2
  <2>3. CASE tm' = Settled(w, tm)
    BY <2>1, <2>3, WorkFacts, SettledGives
  <2> QED
    BY <2>1, <2>2, <2>3
<1>7. CASE FindsDead(w)
  <2>1. work' = [work EXCEPT ![w] = NoTask] /\ tm' = Settled(w, WithCapacity(tm))
    BY <1>7 DEF FindsDead, Frees
  <2> QED
    BY <2>1, WithCapacityFacts, SettledGives
<1> QED
  BY <1>1, <1>2, <1>3, <1>4, <1>5, <1>6, <1>7

KeepsEnded == \A t \in Tasks : tm.state[t] \in Ended => tm'.state[t] = tm.state[t]

LEMMA BatchStep == BatchInv /\ [Next]_vars => BatchInv' /\ KeepsEnded
<1> SUFFICES ASSUME BatchInv, [Next]_vars PROVE BatchInv' /\ KeepsEnded
  OBVIOUS
<1>1. ASSUME NEW n, Works(n) PROVE BatchInv' /\ KeepsEnded
  BY <1>1, WorksKeepsInv DEF Works, Later, KeepsEnded
<1>2. ASSUME NEW w \in Workers, NEW n, Gives(w, n) PROVE BatchInv' /\ KeepsEnded
  <2>1. tm'.state = n.state
    BY <1>2, ReleaseFacts DEF Gives
  <2> QED
    BY <1>2, <2>1, GivesKeepsInv DEF Gives, Later, KeepsEnded
<1>3. Good(tm) /\ Later(tm, tm)
  BY DEF BatchInv, Later
<1>4. CASE CreateTask
  <2>1. Works(Create(tm))
    BY <1>3, <1>4, CreateFacts DEF CreateTask, Works, workerVars
  <2> QED
    BY <1>1, <2>1
<1>5. ASSUME NEW t \in Tasks, CancelTask(t) PROVE BatchInv' /\ KeepsEnded
  <2>1. Works(Cancel(tm, t))
    BY <1>3, <1>5, CancelFacts DEF CancelTask, Works, workerVars
  <2> QED
    BY <1>1, <2>1
<1>6. ASSUME NEW w \in Workers, Worker(w) \/ Forwards(w) \/ FindsDead(w)
      PROVE  BatchInv' /\ KeepsEnded
  <2>1. CASE Claims(w)
    BY <2>1, ClaimsKeepsInv DEF KeepsEnded
  <2>2. CASE ~Claims(w)
    BY <1>1, <1>2, <1>6, <2>2, WorkerKinds DEF Worker
  <2> QED
    BY <2>1, <2>2
<1>7. CASE UNCHANGED <<tm, work>>
  <2>1. Works(tm)
    BY <1>3, <1>7 DEF Works
  <2> QED
    BY <1>1, <2>1
<1>8. ASSUME NEW r \in Replicas, Dead(r) \/ Child(r) \/ Watches(r) \/ LateEnds(r)
      PROVE  UNCHANGED <<tm, work>>
  BY <1>8 DEF Dead, Child, Watches, LateEnds, Receives, Invokes, NotInvoked, Finishes, Overruns,
              Answers, workerVars
<1>9. CASE UNCHANGED vars
  BY <1>7, <1>9 DEF vars, workerVars
<1> QED
  BY <1>4, <1>5, <1>6, <1>7, <1>8, <1>9 DEF Next

LEMMA BatchInit == Init => BatchInv
<1> SUFFICES ASSUME Init PROVE BatchInv
  OBVIOUS
<1>1. tm = NewManager(NumReplicas) /\ work = [w \in Workers |-> NoTask]
  BY DEF Init
<1>2. Good(tm)
  BY <1>1, NewManagerIsGood
<1>3. SlotsMatchWorkers
  BY <1>1 DEF SlotsMatchWorkers, NewManager
<1> QED
  BY <1>1, <1>2, <1>3 DEF BatchInv

\* The inductive invariant of the tasks.
THEOREM BatchIsInvariant == Spec => []BatchInv
BY BatchInit, BatchStep, PTL DEF Spec

(* No worker's task is another's, the processing slots are the workers'    *)
(* tasks, and only those are PROCESSING, whatever cancellation, eviction   *)
(* or late reply came (TaskManager and the workers of AsyncTaskProcessor). *)
THEOREM SlotsAlwaysMatch == Spec => []SlotsMatchWorkers
<1>1. BatchInv => SlotsMatchWorkers
  BY DEF BatchInv
<1> QED
  BY <1>1, BatchIsInvariant, PTL

(* A task that ended keeps its status for ever.                            *)
THEOREM EndsAreFinal == Spec => TerminalIsFinal
<1>1. BatchInv /\ [Next]_vars => [KeepsEnded]_vars
  BY BatchStep
<1> QED
  BY <1>1, BatchIsInvariant, PTL DEF Spec, TerminalIsFinal, KeepsEnded

--------------------------------------------------------------------------------
(* The counters.                                                           *)

\* The tasks that neither completed nor failed.
Unsettled(m) == {t \in Tasks : m.state[t] \in {"pending", "processing", "cancelled"}}

\* Every task is unsettled or counted; the tasks in the table were created.
Counted(m) ==
  /\ m.completed \in Nat /\ m.failed \in Nat
  /\ \A t \in m.table : m.state[t] # "new"
  /\ m.total = m.completed + m.failed + Cardinality(Unsettled(m))

\* Subsets of the tasks are finite, and their sizes follow their elements.
LEMMA Sizes ==
    ASSUME NEW S \in SUBSET Tasks
    PROVE  /\ IsFiniteSet(S) /\ Cardinality(S) \in Nat
           /\ \A t \in Tasks \ S : Cardinality(S \cup {t}) = Cardinality(S) + 1
           /\ \A t \in S : Cardinality(S \ {t}) = Cardinality(S) - 1
           /\ \A T \in SUBSET S : /\ Cardinality(T) \in Nat
                                  /\ Cardinality(S \ T) = Cardinality(S) - Cardinality(T)
<1>1. IsFiniteSet(Tasks)
  BY TaskAssumption, FS_Interval
<1>2. IsFiniteSet(S) /\ Cardinality(S) \in Nat
  BY <1>1, FS_Subset, FS_CardinalityType
<1>3. \A t \in Tasks \ S : Cardinality(S \cup {t}) = Cardinality(S) + 1
  BY <1>2, FS_AddElement
<1>4. \A t \in S : Cardinality(S \ {t}) = Cardinality(S) - 1
  BY <1>2, FS_RemoveElement
<1>5. ASSUME NEW T \in SUBSET S
      PROVE  Cardinality(T) \in Nat /\ Cardinality(S \ T) = Cardinality(S) - Cardinality(T)
  <2>1. S \cap T = T
    OBVIOUS
  <2>2. Cardinality(T) \in Nat
    BY <1>2, FS_Subset, FS_CardinalityType
  <2>3. Cardinality(S \ T) = Cardinality(S) - Cardinality(S \cap T)
    BY <1>2, FS_Difference
  <2> QED
    BY <2>1, <2>2, <2>3
<1> QED
  BY <1>2, <1>3, <1>4, <1>5

\* Nothing else of a manager matters to the count.
LEMMA SameCount ==
    ASSUME NEW m, Counted(m), NEW n,
           n.completed = m.completed /\ n.failed = m.failed /\ n.total = m.total,
           n.table \subseteq m.table,
           \A t \in Tasks : n.state[t] = m.state[t]
                            \/ {m.state[t], n.state[t]} \subseteq {"pending", "processing", "cancelled"},
           n.table \subseteq Tasks
    PROVE  Counted(n)
<1>1. Unsettled(n) = Unsettled(m)
  BY DEF Unsettled
<1>2. \A t \in n.table : n.state[t] # "new"
  BY DEF Counted
<1> QED
  BY <1>1, <1>2 DEF Counted

LEMMA NewManagerCounts == ASSUME NEW n PROVE Counted(NewManager(n))
<1>1. Unsettled(NewManager(n)) = {}
  BY DEF Unsettled, NewManager
<1>2. Cardinality(Unsettled(NewManager(n))) = 0
  BY <1>1, FS_EmptySet
<1> QED
  BY <1>2 DEF Counted, NewManager

LEMMA CleanupCounts ==
    ASSUME NEW m, Good(m), Counted(m)
    PROVE  Counted(Cleanup(m))
<1> DEFINE excess == Cardinality(m.table) - KeepCount
           gone == {t \in Tasks : m.state[t] \in Ended
                      /\ \E i \in 1 .. Smaller(excess, Len(m.ended)) : m.ended[i] = t}
           n == [m EXCEPT !.table = m.table \ gone, !.ended = Without(m.ended, gone)]
<1>1. Cleanup(m) = m \/ Cleanup(m) = n
  BY DEF Cleanup, Good, Fields
<1> HIDE DEF gone
<1>2. /\ n.table = m.table \ gone /\ n.state = m.state /\ n.total = m.total
      /\ n.completed = m.completed /\ n.failed = m.failed /\ m.table \subseteq Tasks
  BY DEF Good, Fields
<1> HIDE DEF n
<1>3. Counted(n)
  BY <1>2, SameCount
<1> QED
  BY <1>1, <1>3

LEMMA CreateCounts ==
    ASSUME NEW m, Good(m), Counted(m), CanCreate(m)
    PROVE  Counted(Create(m))
<1> DEFINE t0 == m.total + 1
           n == [m EXCEPT !.table = m.table \cup {t0}, !.state[t0] = "pending", !.total = t0]
<1>1. t0 \in Tasks /\ m.state[t0] = "new"
  <2>1. m.total < MaxTasks /\ m.total \in Nat
    BY DEF CanCreate, Good
  <2>2. t0 \in Tasks /\ t0 > m.total
    BY ONLY <2>1, TaskAssumption DEF t0
  <2>3. \A t \in Tasks : t > m.total => m.state[t] = "new"
    BY DEF Good
  <2> QED
    BY <2>2, <2>3
<1>2. Create(m) = Cleanup(n)
  BY DEF Create, Good, Fields
<1>3. /\ n.state = [m.state EXCEPT ![t0] = "pending"] /\ n.table = m.table \cup {t0}
      /\ n.total = t0 /\ n.completed = m.completed /\ n.failed = m.failed
      /\ n.slots = m.slots /\ n.stop = m.stop /\ n = [f \in Fields |-> n[f]]
  BY DEF Good, Fields
<1>4. /\ m.state \in [Tasks -> TaskStates] /\ m.table \in SUBSET Tasks /\ m.total \in Nat
      /\ m.slots \in SUBSET Tasks
  BY DEF Good
<1> HIDE DEF n
<1>5. \A t \in Tasks : n.state[t] = IF t = t0 THEN "pending" ELSE m.state[t]
  BY <1>3, <1>4
<1>6. Unsettled(n) = Unsettled(m) \cup {t0} /\ t0 \notin Unsettled(m)
  BY <1>1, <1>5 DEF Unsettled
<1>7. Cardinality(Unsettled(n)) = Cardinality(Unsettled(m)) + 1
  <2>1. Unsettled(m) \in SUBSET Tasks
    BY DEF Unsettled
  <2> QED
    BY <1>1, <1>6, <2>1, Sizes
<1>8. Counted(n)
  <2>1. Cardinality(Unsettled(m)) \in Nat
    BY Sizes DEF Unsettled
  <2>2. \A t \in n.table : n.state[t] # "new"
    BY <1>1, <1>3, <1>4, <1>5 DEF Counted
  <2> QED
    BY <1>3, <1>4, <1>7, <2>1, <2>2 DEF Counted
<1>9. Good(n)
  <2>1. \A t \in Tasks : t > t0 => t > m.total /\ t # t0
    BY <1>4
  <2>2. n.state \in [Tasks -> TaskStates] /\ t0 \in Nat
    BY <1>1, <1>3, <1>4, TaskAssumption DEF TaskStates
  <2> HIDE DEF t0
  <2> QED
    BY <1>1, <1>3, <1>4, <1>5, <2>1, <2>2 DEF Good
<1> QED
  BY <1>2, <1>8, <1>9, CleanupCounts

\* A task that completes or fails moves from the unsettled ones to a counter.
LEMMA EndCounts ==
    ASSUME NEW m, Good(m), Counted(m), NEW t \in Tasks, Open(m, t), NEW n,
           \/ n = [m EXCEPT !.state[t] = "completed", !.ended = Append(m.ended, t),
                             !.completed = m.completed + 1]
           \/ n = [m EXCEPT !.state[t] = "failed", !.ended = Append(m.ended, t),
                             !.failed = m.failed + 1]
    PROVE  Counted(n)
<1>1. /\ \/ n.state = [m.state EXCEPT ![t] = "completed"]
            /\ n.completed = m.completed + 1 /\ n.failed = m.failed
         \/ n.state = [m.state EXCEPT ![t] = "failed"]
            /\ n.failed = m.failed + 1 /\ n.completed = m.completed
      /\ n.table = m.table /\ n.total = m.total
  BY DEF Good, Fields
<1>2. /\ m.state \in [Tasks -> TaskStates] /\ m.table \in SUBSET Tasks /\ m.total \in Nat
      /\ m.completed \in Nat /\ m.failed \in Nat
  BY DEF Good, Counted
<1>3. t \in Unsettled(m)
  BY <1>2 DEF Open, Counted, Unsettled, TaskStates
<1>4. \A u \in Tasks : u # t => n.state[u] = m.state[u]
  BY <1>1, <1>2
<1>5. n.state[t] \in {"completed", "failed"}
  BY <1>1, <1>2
<1>6. Unsettled(n) = Unsettled(m) \ {t}
  BY <1>4, <1>5 DEF Unsettled
<1>7. Cardinality(Unsettled(m)) \in Nat /\ Cardinality(Unsettled(n)) = Cardinality(Unsettled(m)) - 1
  <2>1. Unsettled(m) \in SUBSET Tasks
    BY DEF Unsettled
  <2> QED
    BY <1>3, <1>6, <2>1, Sizes
<1>8. \A u \in n.table : n.state[u] # "new"
  BY <1>1, <1>2, <1>4, <1>5 DEF Counted
<1>9. m.total = m.completed + m.failed + Cardinality(Unsettled(m))
  BY DEF Counted
<1>10. n.completed + n.failed = m.completed + m.failed + 1 /\ n.completed \in Nat /\ n.failed \in Nat
  BY <1>1, <1>2
<1> QED
  BY <1>1, <1>2, <1>7, <1>8, <1>9, <1>10 DEF Counted

LEMMA EndsCount ==
    ASSUME NEW m, Good(m), Counted(m), NEW t \in Tasks \cup {NoTask}
    PROVE  Counted(Complete(m, t)) /\ Counted(Fail(m, t))
<1>1. CASE ~Open(m, t)
  BY <1>1 DEF Complete, Fail
<1>2. CASE Open(m, t)
  <2>1. t \in Tasks
    BY <1>2 DEF Open, Good
  <2> DEFINE done == [m EXCEPT !.state[t] = "completed", !.ended = Append(m.ended, t),
                               !.completed = m.completed + 1]
             lost == [m EXCEPT !.state[t] = "failed", !.ended = Append(m.ended, t),
                               !.failed = m.failed + 1]
  <2>2. Complete(m, t) = done /\ Fail(m, t) = lost
    BY <1>2 DEF Complete, Fail, Good, Fields
  <2>3. Counted(done) /\ Counted(lost)
    BY <1>2, <2>1, EndCounts
  <2> QED
    BY <2>2, <2>3
<1> QED
  BY <1>1, <1>2

LEMMA CancelCounts ==
    ASSUME NEW m, Good(m), Counted(m), NEW t \in Tasks, CanCancel(m, t)
    PROVE  Counted(Cancel(m, t))
<1> DEFINE n == [m EXCEPT !.state[t] = "cancelled", !.stop = m.stop \cup {t},
                          !.ended = Append(Without(m.ended, {t}), t)]
<1>1. Cancel(m, t) = n
  BY DEF Cancel, Good, Fields
<1>2. /\ n.state = [m.state EXCEPT ![t] = "cancelled"] /\ n.table = m.table /\ n.total = m.total
      /\ n.completed = m.completed /\ n.failed = m.failed
      /\ m.state \in [Tasks -> TaskStates] /\ m.table \subseteq Tasks
  BY DEF Good, Fields
<1>3. m.state[t] \in {"pending", "processing", "cancelled"}
  BY <1>2 DEF CanCancel, Counted, TaskStates
<1> HIDE DEF n
<1>4. Counted(n)
  <2>1. \A u \in Tasks : n.state[u] = IF u = t THEN "cancelled" ELSE m.state[u]
    BY <1>2
  <2>2. \A u \in Tasks : n.state[u] = m.state[u]
          \/ {m.state[u], n.state[u]} \subseteq {"pending", "processing", "cancelled"}
    BY <1>3, <2>1
  <2> QED
    BY <1>2, <2>2, SameCount
<1> QED
  BY <1>1, <1>4

LEMMA ClaimCounts ==
    ASSUME NEW m, Good(m), Counted(m), NEW t \in Claimable(m)
    PROVE  Counted(Claim(m, t))
<1> DEFINE n == Claim(m, t)
<1>1. /\ n.state = [m.state EXCEPT ![t] = "processing"] /\ n.table = m.table /\ n.total = m.total
      /\ n.completed = m.completed /\ n.failed = m.failed
      /\ m.state \in [Tasks -> TaskStates] /\ m.table \subseteq Tasks
      /\ t \in Tasks /\ m.state[t] = "pending"
  BY DEF Claim, Claimable, InState, Good, Fields
<1> HIDE DEF n
<1>2. \A u \in Tasks : n.state[u] = IF u = t THEN "processing" ELSE m.state[u]
  BY <1>1
<1>3. \A u \in Tasks : n.state[u] = m.state[u]
        \/ {m.state[u], n.state[u]} \subseteq {"pending", "processing", "cancelled"}
  BY <1>1, <1>2
<1>4. Counted(n)
  BY <1>1, <1>3, SameCount
<1> QED
  BY <1>4 DEF n

LEMMA ReleaseCounts ==
    ASSUME NEW m, Good(m), Counted(m), NEW t
    PROVE  Counted(Release(m, t))
<1> DEFINE n == Release(m, t)
<1>1. /\ n.state = m.state /\ n.table = m.table /\ n.total = m.total
      /\ n.completed = m.completed /\ n.failed = m.failed /\ m.table \subseteq Tasks
  BY DEF Release, Good, Fields
<1> HIDE DEF n
<1>2. Counted(n)
  BY <1>1, SameCount
<1> QED
  BY <1>2 DEF n

\* A pool without replicas fails all pending tasks at once and counts them.
LEMMA SetCapacityCounts ==
    ASSUME NEW m, Good(m), Counted(m), NEW k
    PROVE  Counted(SetCapacity(m, k))
<1> DEFINE set == [m EXCEPT !.capacity = k]
           none == [set EXCEPT !.zero = TRUE]
           pending == InState(none, "pending")
           inOrder == CHOOSE q \in [1 .. Cardinality(pending) -> pending] :
                        \A i, j \in DOMAIN q : i < j => q[i] < q[j]
           failed == [t \in Tasks |-> IF t \in pending THEN "failed" ELSE none.state[t]]
           n == [none EXCEPT !.state = failed, !.ended = none.ended \o inOrder,
                             !.failed = none.failed + Cardinality(pending)]
<1>1. /\ set.state = m.state /\ set.table = m.table /\ set.total = m.total
      /\ set.completed = m.completed /\ set.failed = m.failed
      /\ none.state = m.state /\ none.table = m.table /\ none.total = m.total
      /\ none.completed = m.completed /\ none.failed = m.failed
      /\ none = [f \in Fields |-> none[f]]
  BY DEF Good, Fields
<1>2. /\ m.state \in [Tasks -> TaskStates] /\ m.table \in SUBSET Tasks /\ m.total \in Nat
      /\ m.completed \in Nat /\ m.failed \in Nat
  BY DEF Good, Counted
<1> HIDE DEF set
<1>3. Counted(set)
  BY <1>1, <1>2, SameCount
<1> HIDE DEF none
<1>4. FailPending(none) = n
  BY <1>1 DEF FailPending, Fields
<1>5. pending \subseteq Tasks /\ \A t \in Tasks : t \in pending <=> t \in m.table /\ m.state[t] = "pending"
  BY <1>1, <1>2 DEF InState
<1>6. \A t \in Tasks : failed[t] = IF t \in pending THEN "failed" ELSE m.state[t]
  BY <1>1
<1> HIDE DEF inOrder, pending, failed
<1>7. /\ n.state = failed /\ n.table = m.table /\ n.total = m.total
      /\ n.completed = m.completed /\ n.failed = m.failed + Cardinality(pending)
  BY <1>1 DEF Fields
<1> HIDE DEF n
<1>8. Unsettled(n) = Unsettled(m) \ pending /\ pending \subseteq Unsettled(m)
  BY <1>5, <1>6, <1>7 DEF Unsettled
<1>9. /\ Cardinality(Unsettled(n)) = Cardinality(Unsettled(m)) - Cardinality(pending)
      /\ Cardinality(Unsettled(m)) \in Nat /\ Cardinality(pending) \in Nat
  <2>1. Unsettled(m) \in SUBSET Tasks
    BY DEF Unsettled
  <2> QED
    BY <1>8, <2>1, Sizes
<1>10. \A t \in n.table : n.state[t] # "new"
  BY <1>2, <1>6, <1>7 DEF Counted
<1>11. m.total = m.completed + m.failed + Cardinality(Unsettled(m))
  BY DEF Counted
<1>12. Counted(n)
  BY <1>2, <1>7, <1>9, <1>10, <1>11 DEF Counted
<1>13. SetCapacity(m, k) = set \/ SetCapacity(m, k) = n
  BY <1>4 DEF SetCapacity, set, none
<1> QED
  BY <1>3, <1>12, <1>13

LEMMA WithCapacityCounts ==
    ASSUME BatchInv, Counted(tm)
    PROVE  Counted(WithCapacity(tm))
<1>1. Counted(SetCapacity(tm, liveCount'))
  BY SetCapacityCounts DEF BatchInv
<1> QED
  BY <1>1 DEF WithCapacity

LEMMA SettledCounts ==
    ASSUME NEW w \in Workers, work[w] \in Tasks \cup {NoTask}, NEW m, Good(m), Counted(m)
    PROVE  Counted(Settled(w, m))
<1> DEFINE n == IF work[w] \in m.stop THEN m ELSE Fail(m, work[w])
<1>1. Counted(n)
  BY EndsCount
<1>2. Good(n)
  <2>1. CASE work[w] = NoTask
    BY <2>1, NoTaskFacts
  <2>2. CASE work[w] \in Tasks /\ m.state[work[w]] # "new"
    BY <2>2, FailFacts
  <2>3. CASE work[w] \in Tasks /\ m.state[work[w]] = "new"
    BY <2>3 DEF Fail, Open, Counted
  <2> QED
    BY <2>1, <2>2, <2>3
<1> QED
  BY <1>1, <1>2, ReleaseCounts DEF Settled

LEMMA CountsStep == BatchInv /\ Counted(tm) /\ [Next]_vars => Counted(tm)'
<1> SUFFICES ASSUME BatchInv, Counted(tm), [Next]_vars PROVE Counted(tm')
  OBVIOUS
<1>1. Good(tm)
  BY DEF BatchInv
<1>2. CASE CreateTask
  BY <1>1, <1>2, CreateCounts DEF CreateTask
<1>3. ASSUME NEW t \in Tasks, CancelTask(t) PROVE Counted(tm')
  BY <1>1, <1>3, CancelCounts DEF CancelTask
<1>4. ASSUME NEW w \in Workers, Worker(w) \/ Forwards(w) \/ FindsDead(w) PROVE Counted(tm')
  <2>1. work[w] \in Tasks \cup {NoTask}
    BY WorkFacts
  <2>2. CASE Claims(w)
    BY <1>1, <2>2, ClaimCounts DEF Claims
  <2>3. CASE Drops(w) \/ NoCapacityCancelled(w)
    BY <1>1, <2>3, ReleaseCounts DEF Drops, NoCapacityCancelled
  <2>4. CASE Begins(w) \/ Forwards(w)
    BY <2>4 DEF Begins, Forwards
  <2>5. CASE NoCapacity(w)
    <3>1. work[w] \in Tasks /\ tm.state[work[w]] # "new"
      BY <2>5, WorkFacts DEF NoCapacity
    <3> QED
      BY <1>1, <2>5, <3>1, EndsCount, FailFacts, ReleaseCounts DEF NoCapacity
  <2>6. CASE Takes(w)
    BY <2>6, WithCapacityCounts DEF Takes
  <2>7. CASE GetsReply(w)
    <3>1. CASE tm' = Release(Complete(tm, work[w]), work[w])
      <4>1. Good(Complete(tm, work[w]))
        BY <1>1, <2>1, WorkFacts, NoTaskFacts, CompleteFacts
      <4> QED
        BY <1>1, <2>1, <3>1, <4>1, EndsCount, ReleaseCounts
    <3>2. CASE tm' = Settled(w, tm)
      BY <1>1, <2>1, <3>2, SettledCounts
    <3> QED
      BY <2>7, <3>1, <3>2 DEF GetsReply
  <2>8. CASE FindsDead(w)
    BY <2>1, <2>8, WithCapacityFacts, WithCapacityCounts, SettledCounts DEF FindsDead
  <2> QED
    BY <1>4, <2>2, <2>3, <2>4, <2>5, <2>6, <2>7, <2>8 DEF Worker
<1>5. ASSUME NEW r \in Replicas, Dead(r) \/ Child(r) \/ Watches(r) \/ LateEnds(r)
      PROVE  UNCHANGED tm
  BY <1>5 DEF Dead, Child, Watches, LateEnds, Receives, Invokes, NotInvoked, Finishes, Overruns,
              Answers
<1>6. CASE UNCHANGED vars
  BY <1>6 DEF vars
<1> QED
  BY <1>2, <1>3, <1>4, <1>5, <1>6 DEF Next

LEMMA CountsAgree == BatchInv /\ Counted(tm) => CountersConserve
<1> SUFFICES ASSUME BatchInv, Counted(tm) PROVE CountersConserve
  OBVIOUS
<1> DEFINE active == Active(tm)
           cancelled == {t \in Tasks : tm.state[t] = "cancelled"}
<1>1. active \subseteq Unsettled(tm) /\ cancelled = Unsettled(tm) \ active
  BY DEF BatchInv, Good, Active, InState, Unsettled
<1> HIDE DEF active, cancelled
<1>2. /\ Cardinality(cancelled) = Cardinality(Unsettled(tm)) - Cardinality(active)
      /\ Cardinality(Unsettled(tm)) \in Nat /\ Cardinality(active) \in Nat
  <2>1. Unsettled(tm) \in SUBSET Tasks
    BY DEF Unsettled
  <2> QED
    BY <1>1, <2>1, Sizes
<1>3. tm.completed \in Nat /\ tm.failed \in Nat
      /\ tm.total = tm.completed + tm.failed + Cardinality(Unsettled(tm))
  BY DEF Counted
<1>4. tm.total = tm.completed + tm.failed + Cardinality(active) + Cardinality(cancelled)
  BY <1>2, <1>3
<1> QED
  BY <1>4 DEF CountersConserve, active, cancelled

(* Every task created is completed, failed, cancelled or active, and       *)
(* counted as such, whatever late result, drain of the queue or cleanup it *)
(* met (TaskManager's counters).                                           *)
THEOREM CountersAlwaysConserve == Spec => []CountersConserve
<1>1. Init => Counted(tm)
  BY NewManagerCounts DEF Init
<1>2. BatchInv /\ Counted(tm) /\ [Next]_vars => Counted(tm)'
  BY CountsStep
<1> QED
  BY <1>1, <1>2, CountsAgree, BatchIsInvariant, PTL DEF Spec

--------------------------------------------------------------------------------
(* Replies and the workers that read them.                                 *)

Distinct(q) == \A i, j \in 1 .. Len(q) : q[i] = q[j] => i = j
Waits(q, r) == \E i \in 1 .. Len(q) : q[i] = r
InUse(r) == reply[r] # "none" \/ child[r] # "idle"

OwnTypes ==
  /\ status \in [Replicas -> {"idle", "busy", "dead"}]
  /\ available \in Seq(Replicas)
  /\ phase \in [Workers -> {"out", "waiting", "holding"}]
  /\ holds \in [Workers -> Replicas \cup {NoReplica}]
  /\ child \in [Replicas -> ChildStates] /\ reply \in [Replicas -> Replies \cup {"none"}]
  /\ called \in SUBSET Workers /\ ~closed

\* A replica in the queue is there once and idle; one that a worker holds is busy,
\* that worker's alone, and was sent its call; a task loop has a task or a reply
\* only for the worker that holds the replica, unless the replica was evicted.
OwnInv ==
  /\ OwnTypes
  /\ Distinct(available)
  /\ \A r \in Replicas : Waits(available, r) => status[r] = "idle"
  /\ \A w \in Workers : /\ phase[w] = "holding" <=> holds[w] # NoReplica
                        /\ w \in called <=> holds[w] # NoReplica
                        /\ holds[w] # NoReplica => status[holds[w]] = "busy"
  /\ \A v, w \in Workers : holds[v] = holds[w] /\ holds[v] # NoReplica => v = w
  /\ \A r \in Replicas : /\ child[r] # "idle" => reply[r] = "none"
                         /\ InUse(r) => status[r] = "dead" \/ \E w \in Workers : holds[w] = r

LEMMA NoReplicaIsNone == NoReplica \notin Replicas
BY PoolAssumption DEF Replicas, NoReplica

\* Taking the first of a queue leaves the others.
LEMMA TailWaits ==
    ASSUME NEW q \in Seq(Replicas), Distinct(q), q # << >>
    PROVE  /\ Tail(q) \in Seq(Replicas) /\ Distinct(Tail(q))
           /\ Head(q) \in Replicas /\ Waits(q, Head(q))
           /\ \A r \in Replicas : Waits(Tail(q), r) => Waits(q, r) /\ r # Head(q)
<1>1. /\ Tail(q) \in Seq(Replicas) /\ Len(q) \in Nat \ {0} /\ Len(Tail(q)) = Len(q) - 1
      /\ \A i \in 1 .. Len(q) - 1 : Tail(q)[i] = q[i + 1]
      /\ Head(q) = q[1] /\ q[1] \in Replicas
  OBVIOUS
<1>2. 1 \in 1 .. Len(q) /\ \A i \in 1 .. Len(q) - 1 : i + 1 \in 1 .. Len(q) /\ i + 1 # 1
  BY <1>1
<1>3. Distinct(Tail(q))
  BY <1>1 DEF Distinct
<1>4. ASSUME NEW r \in Replicas, Waits(Tail(q), r) PROVE Waits(q, r) /\ r # Head(q)
  <2>1. PICK i \in 1 .. Len(q) - 1 : q[i + 1] = r
    BY <1>1, <1>4 DEF Waits
  <2> QED
    BY <1>1, <1>2, <2>1 DEF Waits, Distinct
<1> QED
  BY <1>1, <1>2, <1>3, <1>4 DEF Waits

\* So does appending one that did not wait.
LEMMA AppendWaits ==
    ASSUME NEW q \in Seq(Replicas), Distinct(q), NEW r \in Replicas, ~Waits(q, r)
    PROVE  /\ Append(q, r) \in Seq(Replicas) /\ Distinct(Append(q, r))
           /\ \A x \in Replicas : Waits(Append(q, r), x) => Waits(q, x) \/ x = r
<1>1. /\ Append(q, r) \in Seq(Replicas) /\ Len(q) \in Nat /\ Len(Append(q, r)) = Len(q) + 1
      /\ \A i \in 1 .. Len(q) : Append(q, r)[i] = q[i]
      /\ Append(q, r)[Len(q) + 1] = r
  OBVIOUS
<1>2. \A i \in 1 .. Len(q) + 1 : i \in 1 .. Len(q) \/ i = Len(q) + 1
  BY <1>1
<1>3. \A i \in 1 .. Len(q) : q[i] # r
  BY DEF Waits
<1>4. Distinct(Append(q, r))
  BY <1>1, <1>2, <1>3 DEF Distinct
<1>5. \A x \in Replicas : Waits(Append(q, r), x) => Waits(q, x) \/ x = r
  BY <1>1, <1>2 DEF Waits
<1> QED
  BY <1>1, <1>4, <1>5

callVars == <<phase, holds, called>>
loopVars == <<child, reply>>

\* A worker that holds no replica moves on.
LEMMA OwnIdles ==
    ASSUME OwnInv, NEW w \in Workers, phase[w] # "holding",
           NEW p \in {"out", "waiting"}, phase' \in {phase, [phase EXCEPT ![w] = p]},
           holds' \in {holds, [holds EXCEPT ![w] = NoReplica]},
           called' \in {called, called \ {w}},
           UNCHANGED <<status, available, closed, loopVars>>
    PROVE  OwnInv'
<1>1. holds[w] = NoReplica /\ w \notin called
  BY DEF OwnInv
<1>2. holds' = holds /\ called' = called
  BY <1>1 DEF OwnInv, OwnTypes
<1>3. /\ phase' \in [Workers -> {"out", "waiting", "holding"}]
      /\ \A v \in Workers : phase'[v] = "holding" <=> phase[v] = "holding"
  BY DEF OwnInv, OwnTypes
<1> QED
  BY <1>2, <1>3 DEF OwnInv, OwnTypes, InUse, loopVars

\* A worker takes the first replica of the queue and sends its task.
LEMMA OwnTakes ==
    ASSUME OwnInv, NEW w \in Workers, phase[w] = "waiting", available # << >>,
           NEW r, r = Head(available),
           available' = Tail(available),
           status' = [status EXCEPT ![r] = "busy"],
           phase' = [phase EXCEPT ![w] = "holding"],
           holds' = [holds EXCEPT ![w] = r],
           called' = called \cup {w},
           child' = [child EXCEPT ![r] = "sent"],
           UNCHANGED <<closed, reply>>
    PROVE  OwnInv'
<1>1. /\ available' \in Seq(Replicas) /\ Distinct(available') /\ r \in Replicas
      /\ status[r] = "idle"
      /\ \A x \in Replicas : Waits(available', x) => status[x] = "idle" /\ x # r
  BY TailWaits DEF OwnInv, OwnTypes
<1>2. /\ r # NoReplica /\ \A v \in Workers : holds[v] # r
      /\ reply[r] = "none" /\ holds[w] = NoReplica
  BY <1>1, NoReplicaIsNone DEF OwnInv, InUse
<1>4. OwnTypes'
  BY <1>1 DEF OwnInv, OwnTypes, ChildStates
<1>5. /\ \A x \in Replicas : status'[x] = IF x = r THEN "busy" ELSE status[x]
      /\ \A x \in Replicas : child'[x] = IF x = r THEN "sent" ELSE child[x]
      /\ \A v \in Workers : phase'[v] = IF v = w THEN "holding" ELSE phase[v]
      /\ \A v \in Workers : holds'[v] = IF v = w THEN r ELSE holds[v]
  BY <1>1 DEF OwnInv, OwnTypes
<1>6. \A x \in Replicas : Waits(available', x) => status'[x] = "idle"
  BY <1>1, <1>5
<1>7. ASSUME NEW v \in Workers
      PROVE  /\ phase'[v] = "holding" <=> holds'[v] # NoReplica
             /\ v \in called' <=> holds'[v] # NoReplica
             /\ holds'[v] # NoReplica => status'[holds'[v]] = "busy"
  <2>1. CASE v = w
    BY <1>1, <1>2, <1>5, <2>1
  <2>2. CASE v # w
    BY <1>2, <1>5, <2>2 DEF OwnInv, OwnTypes
  <2> QED
    BY <2>1, <2>2
<1>8. \A u, v \in Workers : holds'[u] = holds'[v] /\ holds'[u] # NoReplica => u = v
  BY <1>2, <1>5 DEF OwnInv
<1>9. \A x \in Replicas :
        /\ child'[x] # "idle" => reply'[x] = "none"
        /\ InUse(x)' => status'[x] = "dead" \/ \E v \in Workers : holds'[v] = x
  <2>1. \A x \in Replicas : x # r => (InUse(x)' <=> InUse(x))
    BY <1>5 DEF InUse
  <2>2. \A x \in Replicas, v \in Workers : holds[v] = x => holds'[v] = x
    BY <1>2, <1>5, NoReplicaIsNone
  <2>3. holds'[w] = r
    BY <1>5
  <2> QED
    BY <1>2, <1>5, <2>1, <2>2, <2>3 DEF OwnInv
<1> QED
  BY ONLY <1>1, <1>4, <1>6, <1>7, <1>8, <1>9 DEF OwnInv, InUse

\* The first replica of the queue is found dead.
LEMMA OwnEvicts ==
    ASSUME OwnInv, available # << >>, available' = Tail(available),
           NEW r, r = Head(available),
           status' \in {status, [status EXCEPT ![r] = "dead"]},
           UNCHANGED <<closed, callVars, loopVars>>
    PROVE  OwnInv'
<1>1. /\ available' \in Seq(Replicas) /\ Distinct(available') /\ r \in Replicas
      /\ status[r] = "idle"
      /\ \A x \in Replicas : Waits(available', x) => status[x] = "idle" /\ x # r
  BY TailWaits DEF OwnInv, OwnTypes
<1>2. \A v \in Workers : holds[v] # r
  BY <1>1, NoReplicaIsNone DEF OwnInv
<1>3. /\ \A x \in Replicas : status'[x] = status[x] \/ (x = r /\ status'[x] = "dead")
      /\ status' \in [Replicas -> {"idle", "busy", "dead"}]
  BY <1>1 DEF OwnInv, OwnTypes
<1>4. \A x \in Replicas : Waits(available', x) => status'[x] = "idle"
  BY <1>1, <1>3
<1>5. \A v \in Workers : holds'[v] # NoReplica => status'[holds'[v]] = "busy"
  BY <1>2, <1>3 DEF OwnInv, OwnTypes, callVars
<1>6. \A x \in Replicas : status[x] = "dead" => status'[x] = "dead"
  BY <1>3
<1> QED
  BY <1>1, <1>3, <1>4, <1>5, <1>6 DEF OwnInv, OwnTypes, InUse, callVars, loopVars

\* A worker lets its replica go: back to the queue, evicted, or left busy.
LEMMA OwnEnds ==
    ASSUME OwnInv, NEW w \in called, NEW r, r = holds[w],
           phase' = [phase EXCEPT ![w] = "out"],
           holds' = [holds EXCEPT ![w] = NoReplica],
           called' = called \ {w},
           reply' \in {reply, [reply EXCEPT ![r] = "none"]},
           UNCHANGED <<closed, child>>,
           \/ /\ available' = Append(available, r)
              /\ status' = [status EXCEPT ![r] = "idle"]
              /\ reply'[r] = "none" /\ child[r] = "idle"
           \/ /\ status' = [status EXCEPT ![r] = "dead"]
              /\ UNCHANGED available
           \/ /\ reply'[r] = "none" /\ child[r] = "idle"
              /\ UNCHANGED <<status, available>>
    PROVE  OwnInv'
<1>1. /\ w \in Workers /\ r \in Replicas /\ status[r] = "busy" /\ ~Waits(available, r)
      /\ \A v \in Workers : v # w => holds[v] # r
  BY DEF OwnInv, OwnTypes
<1>2. /\ \A v \in Workers : phase'[v] = IF v = w THEN "out" ELSE phase[v]
      /\ \A v \in Workers : holds'[v] = IF v = w THEN NoReplica ELSE holds[v]
      /\ \A x \in Replicas : x # r => reply'[x] = reply[x] /\ status'[x] = status[x]
      /\ reply'[r] = reply[r] \/ reply'[r] = "none"
      /\ child' = child /\ closed' = closed /\ called' = called \ {w}
  BY DEF OwnInv, OwnTypes
<1>3. /\ phase' \in [Workers -> {"out", "waiting", "holding"}]
      /\ holds' \in [Workers -> Replicas \cup {NoReplica}]
      /\ reply' \in [Replicas -> Replies \cup {"none"}]
      /\ status' \in [Replicas -> {"idle", "busy", "dead"}]
  BY DEF OwnInv, OwnTypes
<1>4. /\ available' \in Seq(Replicas) /\ Distinct(available')
      /\ \A x \in Replicas : Waits(available', x) => status'[x] = "idle"
  <2>1. CASE available' = Append(available, r) /\ status'[r] = "idle"
    BY <1>1, <1>2, <2>1, AppendWaits DEF OwnInv, OwnTypes
  <2>2. CASE available' = available
    BY <1>1, <1>2, <2>2 DEF OwnInv, OwnTypes
  <2>3. \/ available' = Append(available, r) /\ status'[r] = "idle"
        \/ available' = available
    BY <1>1 DEF OwnInv, OwnTypes
  <2> QED
    BY <2>1, <2>2, <2>3
<1>5. OwnTypes'
  BY <1>2, <1>3, <1>4 DEF OwnInv, OwnTypes
<1>6. ASSUME NEW v \in Workers
      PROVE  /\ phase'[v] = "holding" <=> holds'[v] # NoReplica
             /\ v \in called' <=> holds'[v] # NoReplica
             /\ holds'[v] # NoReplica => status'[holds'[v]] = "busy"
  <2>1. CASE v = w
    BY <1>2, <2>1
  <2>2. CASE v # w
    BY <1>1, <1>2, <2>2 DEF OwnInv, OwnTypes
  <2> QED
    BY <2>1, <2>2
<1>7. \A u, v \in Workers : holds'[u] = holds'[v] /\ holds'[u] # NoReplica => u = v
  BY <1>2 DEF OwnInv
<1>8. InUse(r)' => status'[r] = "dead"
  BY <1>1, <1>2 DEF OwnInv, OwnTypes, InUse
<1>9. ASSUME NEW x \in Replicas
      PROVE  /\ child'[x] # "idle" => reply'[x] = "none"
             /\ InUse(x)' => status'[x] = "dead" \/ \E v \in Workers : holds'[v] = x
  <2>1. child'[x] # "idle" => reply'[x] = "none"
    BY <1>2 DEF OwnInv
  <2>2. CASE x = r
    BY <1>8, <2>1, <2>2
  <2>3. CASE x # r
    <3>1. InUse(x)' => InUse(x)
      BY <1>2, <2>3 DEF InUse
    <3>2. \A v \in Workers : holds[v] = x => holds'[v] = x
      BY <1>1, <1>2, <2>3
    <3> QED
      BY <1>2, <2>1, <2>3, <3>1, <3>2 DEF OwnInv
  <2> QED
    BY <2>2, <2>3
<1> QED
  BY ONLY <1>4, <1>5, <1>6, <1>7, <1>9 DEF OwnInv, InUse

\* The task loop goes on with its task or answers it.
LEMMA OwnAnswers ==
    ASSUME OwnInv, NEW r \in Replicas, child[r] # "idle",
           \/ /\ child' \in {[child EXCEPT ![r] = "locking"], [child EXCEPT ![r] = "running"]}
              /\ UNCHANGED reply
           \/ /\ child' = [child EXCEPT ![r] = "idle"]
              /\ \E result \in Replies : reply' = [reply EXCEPT ![r] = result],
           UNCHANGED <<status, available, closed, callVars>>
    PROVE  OwnInv'
<1>1. /\ child' \in [Replicas -> ChildStates] /\ reply' \in [Replicas -> Replies \cup {"none"}]
      /\ \A x \in Replicas : x # r => child'[x] = child[x] /\ reply'[x] = reply[x]
      /\ child'[r] # "idle" => reply'[r] = "none"
  BY DEF OwnInv, OwnTypes, ChildStates
<1>2. \A x \in Replicas : InUse(x)' => InUse(x)
  BY <1>1 DEF InUse
<1> QED
  BY <1>1, <1>2 DEF OwnInv, OwnTypes, callVars

LEMMA OwnFrame ==
    ASSUME OwnInv, UNCHANGED <<status, available, closed, callVars, loopVars>>
    PROVE  OwnInv'
BY DEF OwnInv, OwnTypes, InUse, callVars, loopVars

LEMMA OwnInit == Init => OwnInv
<1> SUFFICES ASSUME Init PROVE OwnInv
  OBVIOUS
<1>1. /\ status = [r \in Replicas |-> "idle"] /\ available = [i \in Replicas |-> i]
      /\ phase = [c \in Workers |-> "out"] /\ holds = [c \in Workers |-> NoReplica]
      /\ called = {} /\ child = [r \in Replicas |-> "idle"] /\ closed = FALSE
      /\ reply = [r \in Replicas |-> "none"]
  BY DEF Init, PoolInit, Workers
<1>2. available \in Seq(Replicas) /\ Len(available) = NumReplicas
      /\ \A i \in 1 .. Len(available) : available[i] = i
  BY <1>1, PoolAssumption DEF Replicas
<1>3. Distinct(available)
  BY <1>2 DEF Distinct
<1>4. OwnTypes
  BY <1>1, <1>2 DEF OwnTypes, ChildStates, Replies
<1> QED
  BY <1>1, <1>3, <1>4 DEF OwnInv, InUse

LEMMA OwnWorker ==
    ASSUME OwnInv, NEW w \in Workers, Worker(w) \/ Forwards(w) \/ FindsDead(w)
    PROVE  OwnInv'
<1>1. CASE Claims(w) \/ Forwards(w)
  BY <1>1, OwnFrame DEF Claims, Forwards, poolVars, replicaVars, callerVars, childVars, callVars,
                        loopVars
<1>2. CASE Drops(w)
  BY <1>2, OwnIdles DEF Drops, Frees, poolVars, replicaVars, callerVars, childVars, loopVars
<1>3. CASE Begins(w)
  BY <1>3, OwnIdles DEF Begins, AcquireBegins, Enter, replicaVars, workerVars, childVars, loopVars
<1>4. CASE NoCapacity(w) \/ NoCapacityCancelled(w)
  BY <1>4, OwnIdles DEF NoCapacity, NoCapacityCancelled, AcquireFails, Enter, Frees, poolVars,
                        replicaVars, callerVars, childVars, loopVars
<1>5. CASE Takes(w)
  <2> DEFINE r == Head(available)
  <2>1. r \in Replicas /\ r # NoReplica /\ ~closed
    BY <1>5, TailWaits, NoReplicaIsNone DEF Takes, AcquireTakes, OwnInv, OwnTypes
  <2>2. phase[w] = "waiting" /\ available # << >> /\ available' = Tail(available)
        /\ closed' = closed
    BY <1>5 DEF Takes, AcquireTakes
  <2>3. holds[w] = NoReplica /\ holds \in [Workers -> Replicas \cup {NoReplica}]
    BY <2>2 DEF OwnInv, OwnTypes
  <2>4. CASE status' = [status EXCEPT ![r] = "busy"] /\ Enter(w, "holding", r)
    <3>1. holds'[w] = r
      BY <2>3, <2>4 DEF Enter
    <3>2. /\ called' = called \cup {w} /\ child' = [child EXCEPT ![r] = "sent"]
          /\ reply' = reply
      BY <1>5, <2>1, <3>1 DEF Takes
    <3> QED
      BY <2>2, <2>4, <3>2, OwnTakes DEF Enter
  <2>5. CASE Evict(r) /\ UNCHANGED callerVars
    <3>1. holds'[w] = NoReplica
      BY <2>3, <2>5 DEF callerVars
    <3>2. UNCHANGED <<called, child, reply>>
      BY <1>5, <3>1 DEF Takes, workerVars, childVars
    <3>3. status' \in {status, [status EXCEPT ![r] = "dead"]}
      BY <2>5 DEF Evict, replicaVars
    <3> QED
      BY <2>2, <2>5, <3>2, <3>3, OwnEvicts DEF callerVars, callVars, loopVars
  <2> QED
    BY <1>5, <2>1, <2>4, <2>5 DEF Takes, AcquireTakes
<1>6. CASE GetsReply(w)
  <2>1. /\ w \in called /\ reply[holds[w]] # "none" /\ (CallRaises(w) \/ CallReturns(w))
        /\ reply' = [reply EXCEPT ![holds[w]] = "none"] /\ Frees(w) /\ UNCHANGED child
    BY <1>6 DEF GetsReply
  <2>2. /\ holds[w] \in Replicas /\ ~closed /\ child[holds[w]] = "idle"
        /\ reply'[holds[w]] = "none"
    BY <2>1 DEF OwnInv, OwnTypes
  <2> QED
    BY <2>1, <2>2, OwnEnds DEF CallRaises, CallReturns, Frees, Enter, replicaVars
<1>7. CASE FindsDead(w)
  <2>1. holds[w] \in Replicas /\ ~closed /\ status[holds[w]] = "busy"
    BY <1>7 DEF FindsDead, OwnInv, OwnTypes
  <2> QED
    BY <1>7, <2>1, OwnEnds DEF FindsDead, CallDies, Evict, Frees, Enter, childVars
<1> QED
  BY <1>1, <1>2, <1>3, <1>4, <1>5, <1>6, <1>7 DEF Worker

LEMMA OwnReplica ==
    ASSUME OwnInv, NEW r \in Replicas, Dead(r) \/ Child(r) \/ Watches(r) \/ LateEnds(r)
    PROVE  OwnInv'
<1>1. CASE Dead(r) \/ Watches(r) \/ LateEnds(r)
  BY <1>1, OwnFrame DEF Dead, Dies, Watches, LateEnds, poolVars, replicaVars, callerVars,
                        workerVars, childVars, callVars, loopVars
<1>2. CASE Child(r)
  <2>1. /\ child[r] # "idle"
        /\ UNCHANGED <<status, available, closed, callVars>>
    BY <1>2 DEF Child, Receives, Invokes, NotInvoked, Finishes, Overruns, Answers, poolVars,
                replicaVars, callerVars, workerVars, callVars
  <2>2. "failure" \in Replies
    BY DEF Replies
  <2>3. \/ /\ child' \in {[child EXCEPT ![r] = "locking"], [child EXCEPT ![r] = "running"]}
           /\ UNCHANGED reply
        \/ /\ child' = [child EXCEPT ![r] = "idle"]
           /\ \E result \in Replies : reply' = [reply EXCEPT ![r] = result]
    BY <1>2, <2>2 DEF Child, Receives, Invokes, NotInvoked, Finishes, Overruns, Answers
  <2> QED
    BY <2>1, <2>3, OwnAnswers
<1> QED
  BY <1>1, <1>2

LEMMA OwnStep == OwnInv /\ [Next]_vars => OwnInv'
<1> SUFFICES ASSUME OwnInv, [Next]_vars PROVE OwnInv'
  OBVIOUS
<1>1. CASE CreateTask \/ (\E t \in Tasks : CancelTask(t)) \/ UNCHANGED vars
  BY <1>1, OwnFrame DEF CreateTask, CancelTask, vars, poolVars, replicaVars, callerVars,
                        workerVars, childVars, callVars, loopVars
<1> QED
  BY <1>1, OwnWorker, OwnReplica DEF Next

\* The inductive invariant of the calls.
THEOREM CallsAreSound == Spec => []OwnInv
BY OwnInit, OwnStep, PTL DEF Spec

(* A replica that is not evicted has a task or a reply only for the worker *)
(* in a call on it, and a replica in the queue has neither: no reply of an *)
(* earlier task is read by a later one (run_task and _process_task).       *)
THEOREM RepliesStayOwned == Spec => []RepliesAreOwned
<1>1. OwnInv => RepliesAreOwned
  <2> SUFFICES ASSUME OwnInv, NEW r \in Replicas
               PROVE  /\ status[r] # "dead" /\ (reply[r] # "none" \/ child[r] # "idle") =>
                           \E w \in called : holds[w] = r
                      /\ Queued(r) # {} => reply[r] = "none" /\ child[r] = "idle"
    BY DEF RepliesAreOwned
  <2>1. r # NoReplica
    BY NoReplicaIsNone
  <2>2. Queued(r) # {} => Waits(available, r)
    BY DEF Queued, Waits
  <2> QED
    BY <2>1, <2>2 DEF OwnInv, InUse
<1> QED
  BY <1>1, CallsAreSound, PTL
================================================================================
