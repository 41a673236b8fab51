---------------------------- MODULE TaskManager ----------------------------
(***************************************************************************)
(* The queue and the statuses of batch tasks: TaskManager                  *)
(* (telefuser/service/core/task_manager.py).  Every method runs under the  *)
(* manager's lock, so each is one operator from the manager's state to its *)
(* next state.                                                             *)
(*                                                                         *)
(* Tasks are numbered in creation order; ids are generated (uuid), never   *)
(* chosen by a client.  The manager is a record: the status and the stop   *)
(* event of each task (a worker keeps its TaskInfo after the table dropped *)
(* it), the `table' of known tasks, the terminal ones in the order they    *)
(* `ended', the processing `slots' and their `capacity', and the counters. *)
(* Pending tasks keep their place in the ordered table, so the next one to *)
(* claim is the oldest.  Metrics are left out.                             *)
(***************************************************************************)
EXTENDS Integers, Sequences, FiniteSets

CONSTANTS MaxTasks,       \* bound: tasks created over the run
          MaxQueueSize,   \* max_queue_size
          KeepCount       \* cleanup_keep_count

ASSUME TaskAssumption ==
  MaxTasks \in Nat \ {0} /\ MaxQueueSize \in Nat \ {0} /\ KeepCount \in Nat

Tasks == 1 .. MaxTasks
NoTask == 0
Ended == {"completed", "failed", "cancelled"}
TaskStates == {"new", "pending", "processing"} \cup Ended

NewManager(slots) ==
  [state |-> [t \in Tasks |-> "new"], stop |-> {}, table |-> {}, ended |-> << >>,
   slots |-> {}, capacity |-> slots, zero |-> FALSE,
   total |-> 0, completed |-> 0, failed |-> 0]

InState(tm, s) == {t \in tm.table : tm.state[t] = s}
Active(tm) == InState(tm, "pending") \cup InState(tm, "processing")

Without(seq, S) ==
  LET Test(t) == t \notin S
  IN  SelectSeq(seq, Test)
Smaller(a, b) == IF a < b THEN a ELSE b

(* _cleanup_old_tasks: the tasks that ended first leave the table.         *)
Cleanup(tm) ==
  LET excess == Cardinality(tm.table) - KeepCount
      First(t) == \E i \in 1 .. Smaller(excess, Len(tm.ended)) : tm.ended[i] = t
      gone == {t \in Tasks : tm.state[t] \in Ended /\ First(t)}
  IN  IF excess <= 0 THEN tm
      ELSE [tm EXCEPT !.table = @ \ gone, !.ended = Without(@, gone)]

CanCreate(tm) ==
  ~tm.zero /\ Cardinality(Active(tm)) < MaxQueueSize /\ tm.total < MaxTasks

Create(tm) ==
  LET t == tm.total + 1
  IN  Cleanup([tm EXCEPT !.table = @ \cup {t}, !.state[t] = "pending", !.total = t])

(* complete_task and fail_task ignore a task that is unknown or ended.     *)
Open(tm, t) == t \in tm.table /\ tm.state[t] \notin Ended

\* Mutant: a completion does not look at the task's status.
M_CompleteOverrides(tm, t) ==
  IF t \in tm.table
    THEN [tm EXCEPT !.state[t] = "completed", !.ended = Append(Without(@, {t}), t),
                    !.completed = @ + 1]
    ELSE tm

Complete(tm, t) ==
  IF Open(tm, t)
    THEN [tm EXCEPT !.state[t] = "completed", !.ended = Append(@, t), !.completed = @ + 1]
    ELSE tm

Fail(tm, t) ==
  IF Open(tm, t)
    THEN [tm EXCEPT !.state[t] = "failed", !.ended = Append(@, t), !.failed = @ + 1]
    ELSE tm

\* Mutant: draining the queue forgets to count.
M_FailPendingUncounted(tm) ==
  [tm EXCEPT !.state = [t \in Tasks |-> IF t \in InState(tm, "pending") THEN "failed" ELSE @[t]]]

(* _fail_all_pending, oldest first.                                        *)
FailPending(tm) ==
  LET pending == InState(tm, "pending")
      inOrder == CHOOSE q \in [1 .. Cardinality(pending) -> pending] :
                   \A i, j \in DOMAIN q : i < j => q[i] < q[j]
  IN  [tm EXCEPT !.state = [t \in Tasks |-> IF t \in pending THEN "failed" ELSE @[t]],
                 !.ended = @ \o inOrder, !.failed = @ + Cardinality(pending)]

CanCancel(tm, t) == t \in tm.table /\ tm.state[t] \notin {"completed", "failed"}

\* Cancelling a cancelled task renews its end time.
Cancel(tm, t) ==
  [tm EXCEPT !.state[t] = "cancelled", !.stop = @ \cup {t},
             !.ended = Append(Without(@, {t}), t)]

(* claim_next_pending_task; without capacity it drains the queue instead.  *)
CanClaim(tm) == ~tm.zero /\ Cardinality(tm.slots) < tm.capacity

\* The oldest pending task.
Claimable(tm) == {t \in InState(tm, "pending") : \A u \in InState(tm, "pending") : t <= u}

\* Mutant: the claim does not mark the task.
M_ClaimUnmarked(tm, t) == [tm EXCEPT !.slots = @ \cup {t}]

Claim(tm, t) == [tm EXCEPT !.state[t] = "processing", !.slots = @ \cup {t}]

Release(tm, t) == [tm EXCEPT !.slots = @ \ {t}]

(* set_max_concurrent_processing, called by the pool on an eviction.       *)
SetCapacity(tm, n) ==
  LET set == [tm EXCEPT !.capacity = n]
  IN  IF n = 0 THEN FailPending([set EXCEPT !.zero = TRUE]) ELSE set
=============================================================================
