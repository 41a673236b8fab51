---------------------------- MODULE BatchService ----------------------------
(***************************************************************************)
(* Batch tasks from creation to their result: TaskManager, the workers of  *)
(* AsyncTaskProcessor (telefuser/service/core/task_processor.py), the      *)
(* replica pool they call and the replica process with its PipelineRunner  *)
(* (replica_worker.py, pipeline_runner.py).                                *)
(*                                                                         *)
(* The workers share one event loop; clients create and cancel from other  *)
(* threads; a replica has its task loop, the watcher thread that turns the *)
(* shared cancel event into the task's stop event, and the runner, whose   *)
(* timed-out invocations go on in the background.  The forwarder thread    *)
(* carries a cancellation from the main process to the cancel event.       *)
(***************************************************************************)
EXTENDS ReplicaPool, TaskManager

Workers == Callers

VARIABLES
  tm,           \* the TaskManager
  work,         \* the task each worker claimed
  called,       \* workers whose call was sent to a replica
  forwarder,    \* the cancel forwarder of each worker's call
  child,        \* the replica's task: where it stands
  cancelEvent,  \* replicas whose shared cancel event is set
  stopSeen,     \* replicas whose current task saw the cancellation
  reply,        \* the reply in each replica's pipe
  runLock,      \* replicas whose runner lock is held
  invocations   \* pipeline invocations in progress, timed-out ones included

workerVars == <<work, called, forwarder>>
childVars == <<child, cancelEvent, stopSeen, reply, runLock, invocations>>
vars == <<poolVars, tm, workerVars, childVars>>

Replies == {"success", "failure", "error"}
ChildStates == {"idle", "sent", "locking", "running"}

Init ==
  /\ PoolInit
  /\ tm = NewManager(NumReplicas)
  /\ work = [w \in Workers |-> NoTask]
  /\ called = {}
  /\ forwarder = [w \in Workers |-> "off"]
  /\ child = [r \in Replicas |-> "idle"]
  /\ cancelEvent = {} /\ stopSeen = {}
  /\ reply = [r \in Replicas |-> "none"]
  /\ runLock = {}
  /\ invocations = [r \in Replicas |-> 0]

-----------------------------------------------------------------------------
(* Clients.                                                                *)
CreateTask ==
  /\ CanCreate(tm)
  /\ tm' = Create(tm)
  /\ UNCHANGED <<poolVars, workerVars, childVars>>

CancelTask(t) ==
  /\ CanCancel(tm, t)
  /\ tm' = Cancel(tm, t)
  /\ UNCHANGED <<poolVars, workerVars, childVars>>

-----------------------------------------------------------------------------
(* Workers.                                                                *)
Claims(w) ==
  /\ work[w] = NoTask /\ CanClaim(tm)
  /\ \E t \in Claimable(tm) : /\ work' = [work EXCEPT ![w] = t]
                              /\ tm' = Claim(tm, t)
  /\ UNCHANGED <<poolVars, called, forwarder, childVars>>

\* The end of _process_task: the worker is free again.
Frees(w) ==
  /\ work' = [work EXCEPT ![w] = NoTask]
  /\ called' = called \ {w}
  /\ forwarder' = [forwarder EXCEPT ![w] = "off"]

\* A claimed task that was cancelled meanwhile is dropped.
Drops(w) ==
  LET t == work[w]
  IN  /\ t # NoTask /\ phase[w] = "out"
      /\ t \in tm.stop \/ t \notin tm.table
      /\ tm' = Release(tm, t)
      /\ Frees(w)
      /\ UNCHANGED <<poolVars, childVars>>

Begins(w) ==
  /\ work[w] # NoTask /\ work[w] \notin tm.stop /\ work[w] \in tm.table
  /\ AcquireBegins(w)
  /\ UNCHANGED <<tm, workerVars, childVars>>

\* Mutant: the capacity is checked when acquire() begins and never again.
M_NoCapacityOnce(w) ==
  /\ work[w] # NoTask /\ work[w] \notin tm.stop
  /\ phase[w] = "out" /\ liveCount = 0
  /\ tm' = Release(Fail(tm, work[w]), work[w])
  /\ Frees(w)
  /\ UNCHANGED <<poolVars, childVars>>

\* acquire() raises: all replicas are dead.
NoCapacity(w) ==
  /\ work[w] # NoTask /\ work[w] \notin tm.stop
  /\ AcquireFails(w) \/ (phase[w] = "out" /\ liveCount = 0 /\ UNCHANGED poolVars)
  /\ tm' = Release(Fail(tm, work[w]), work[w])
  /\ Frees(w)
  /\ UNCHANGED childVars

\* The same for a task cancelled while it waited: its status stands.
NoCapacityCancelled(w) ==
  /\ work[w] \in tm.stop
  /\ AcquireFails(w)
  /\ tm' = Release(tm, work[w])
  /\ Frees(w)
  /\ UNCHANGED childVars

\* Evictions tell the task manager the new capacity.
WithCapacity(manager) ==
  IF liveCount' # liveCount THEN SetCapacity(manager, liveCount') ELSE manager

\* The worker gets a replica and run_task sends the task without a pause:
\* the cancel event is cleared and the forwarder starts to watch.
Takes(w) ==
  LET r == holds'[w]
  IN  /\ AcquireTakes(w)
      /\ tm' = WithCapacity(tm)
      /\ IF r = NoReplica
           THEN UNCHANGED <<workerVars, childVars>>
           ELSE /\ called' = called \cup {w}
                /\ forwarder' = [forwarder EXCEPT ![w] = "watching"]
                /\ cancelEvent' = cancelEvent \ {r}
                /\ child' = [child EXCEPT ![r] = "sent"]
                /\ stopSeen' = stopSeen \ {r}
                /\ UNCHANGED <<work, reply, runLock, invocations>>

\* _forward_cancel_fn sets the event once and ends.
Forwards(w) ==
  /\ forwarder[w] = "watching" /\ work[w] \in tm.stop
  /\ forwarder' = [forwarder EXCEPT ![w] = "done"]
  /\ cancelEvent' = cancelEvent \cup {holds[w]}
  /\ UNCHANGED <<poolVars, tm, work, called, child, stopSeen, reply, runLock,
                 invocations>>

\* Whatever went wrong, a cancelled task keeps its status.
Settled(w, manager) ==
  Release(IF work[w] \in manager.stop THEN manager ELSE Fail(manager, work[w]), work[w])

\* The reply is taken out of the pipe: a result, a failed result (the replica is
\* returned, the service raises) or an `error' (raised through acquire()).
GetsReply(w) ==
  LET r == holds[w]
  IN  /\ w \in called /\ reply[r] # "none"
      /\ IF reply[r] = "error" THEN CallRaises(w) ELSE CallReturns(w)
      /\ tm' = IF reply[r] = "success" THEN Release(Complete(tm, work[w]), work[w])
                                       ELSE Settled(w, tm)
      /\ reply' = [reply EXCEPT ![r] = "none"]
      /\ Frees(w)
      /\ UNCHANGED <<child, cancelEvent, stopSeen, runLock, invocations>>

\* The replica died or did not answer in time: ReplicaDeadError.
FindsDead(w) ==
  /\ w \in called /\ reply[holds[w]] = "none"
  /\ CallDies(w)
  /\ tm' = Settled(w, WithCapacity(tm))
  /\ Frees(w)
  /\ UNCHANGED childVars

-----------------------------------------------------------------------------
(* Replica processes.                                                      *)
Dead(r) == /\ Dies(r)
           /\ UNCHANGED <<tm, workerVars, childVars>>

\* The task loop receives the task: it clears the event again, which wipes a
\* cancellation the forwarder already signalled.
Receives(r) ==
  /\ r \in alive /\ child[r] = "sent"
  /\ child' = [child EXCEPT ![r] = "locking"]
  /\ cancelEvent' = cancelEvent \ {r}
  /\ UNCHANGED <<poolVars, tm, workerVars, stopSeen, reply, runLock, invocations>>

\* _cancel_watcher_fn.
Watches(r) ==
  /\ r \in alive /\ child[r] \in {"locking", "running"}
  /\ r \in cancelEvent /\ r \notin stopSeen
  /\ stopSeen' = stopSeen \cup {r}
  /\ UNCHANGED <<poolVars, tm, workerVars, child, cancelEvent, reply, runLock,
                 invocations>>

\* The task loop answers and sets the event to end the watcher.
Answers(r, result) ==
  /\ reply' = [reply EXCEPT ![r] = result]
  /\ child' = [child EXCEPT ![r] = "idle"]
  /\ cancelEvent' = cancelEvent \cup {r}
  /\ UNCHANGED <<poolVars, tm, workerVars, stopSeen>>

\* PipelineRunner.run takes its lock and invokes the pipeline, unless the task
\* was stopped.
Invokes(r) ==
  /\ r \in alive /\ child[r] = "locking" /\ r \notin runLock /\ r \notin stopSeen
  /\ child' = [child EXCEPT ![r] = "running"]
  /\ runLock' = runLock \cup {r}
  /\ invocations' = [invocations EXCEPT ![r] = @ + 1]
  /\ UNCHANGED <<poolVars, tm, workerVars, cancelEvent, stopSeen, reply>>

\* It does not invoke it: stopped, or the lock was not free before the timeout.
NotInvoked(r) ==
  /\ r \in alive /\ child[r] = "locking"
  /\ r \in runLock \/ r \in stopSeen
  /\ Answers(r, "failure")
  /\ UNCHANGED <<runLock, invocations>>

\* The invocation ends: a result, an exception of the pipeline, or an exception
\* around the runner, which the task loop answers with `error'.
Finishes(r, result) ==
  /\ r \in alive /\ child[r] = "running"
  /\ Answers(r, result)
  /\ runLock' = runLock \ {r}
  /\ invocations' = [invocations EXCEPT ![r] = @ - 1]

\* The task's timeout: the answer is an error, the invocation goes on and keeps
\* the lock until it is over.
Overruns(r) ==
  /\ r \in alive /\ child[r] = "running"
  /\ Answers(r, "failure")
  /\ UNCHANGED <<runLock, invocations>>

LateEnds(r) ==
  /\ r \in alive /\ child[r] # "running" /\ invocations[r] > 0
  /\ invocations' = [invocations EXCEPT ![r] = @ - 1]
  /\ runLock' = runLock \ {r}
  /\ UNCHANGED <<poolVars, tm, workerVars, child, cancelEvent, stopSeen, reply>>

-----------------------------------------------------------------------------
Worker(w) ==
  \/ Claims(w) \/ Drops(w) \/ Begins(w) \/ NoCapacity(w) \/ NoCapacityCancelled(w)
  \/ Takes(w) \/ GetsReply(w)

Child(r) ==
  \/ Receives(r) \/ Invokes(r) \/ NotInvoked(r)
  \/ \E result \in Replies : Finishes(r, result)
  \/ Overruns(r)

Next ==
  \/ CreateTask
  \/ \E t \in Tasks : CancelTask(t)
  \/ \E w \in Workers : Worker(w) \/ Forwards(w) \/ FindsDead(w)
  \/ \E r \in Replicas : Dead(r) \/ Child(r) \/ Watches(r) \/ LateEnds(r)

Spec == Init /\ [][Next]_vars

(* Workers poll once a second, replica processes and the IPC timeout run   *)
(* on; nothing makes a client act, a replica die, a thread notice a        *)
(* cancellation in time or a timed-out invocation end.                     *)
FairSpec ==
  /\ Spec
  /\ \A w \in Workers : WF_vars(Worker(w)) /\ WF_vars(FindsDead(w))
  /\ \A r \in Replicas : WF_vars(Child(r))

-----------------------------------------------------------------------------
(* A task is claimed by one worker, the processing slots are the tasks     *)
(* the workers have, and a task is PROCESSING only while a worker has it:  *)
(* none is stuck after cancellation, eviction or an error.                 *)
SlotsMatchWorkers ==
  /\ \A v, w \in Workers : work[v] = work[w] /\ v # w => work[v] = NoTask
  /\ tm.slots = {work[w] : w \in Workers} \ {NoTask}
  /\ \A t \in Tasks : tm.state[t] = "processing" => t \in tm.slots

(* Every task created is counted once: completed, failed, cancelled or     *)
(* still active, whatever late result, cancellation, drain or cleanup met  *)
(* it on the way.                                                          *)
CountersConserve ==
  tm.total = tm.completed + tm.failed + Cardinality(Active(tm))
             + Cardinality({t \in Tasks : tm.state[t] = "cancelled"})

(* A reply is read by the caller whose task it answers: whenever a replica *)
(* has a reply waiting or a task in hand, exactly one worker is in a call  *)
(* on it, and an idle replica in the queue has neither.                    *)
RepliesAreOwned ==
  \A r \in Replicas :
    /\ status[r] # "dead" /\ (reply[r] # "none" \/ child[r] # "idle") =>
         \E w \in called : holds[w] = r
    /\ Queued(r) # {} => reply[r] = "none" /\ child[r] = "idle"

(* A terminal status is final: a result, a failure or a drain that comes   *)
(* after a cancellation does not replace it, nor the other way round.      *)
TerminalIsFinal ==
  [][\A t \in Tasks : tm.state[t] \in Ended => tm'.state[t] = tm.state[t]]_vars

(* Every task ends, unless the exceptions that pass acquire() by have      *)
(* abandoned every replica still counted as live.                          *)
Stranded == liveCount > 0 /\ \A r \in LiveReplicas : Abandoned(r)
TasksEnd ==
  \A t \in Tasks : (tm.state[t] \in {"pending", "processing"})
                     ~> (tm.state[t] \in Ended \/ Stranded)
=============================================================================
