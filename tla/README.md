# TeleFuser in TLA+

TeleFuser serves multimodal generation models: batch tasks over HTTP, streaming
world models over WebRTC (LiveKit), vision-language-action policies. Its core
logic outside the numerical code is concurrent bookkeeping: schedulers, queues,
leases, mailboxes, cleanup protocols. This directory models that bookkeeping,
model-checks it with TLC on small instances and proves the properties that
matter most with TLAPS for every instance.

Modelled are: the scheduler of the streaming pipelines
(`telefuser/orchestrator/streaming_pipeline_orchestrator.py`, called "the
orchestrator" below) with an abstract specification it implements; the sessions
of vision-language-action policies; the pool of pipeline replicas with its
session leases; batch tasks from creation to result; the sessions of the LiveKit
server; and the sessions of the LingBot world model, which share one pipeline
through an execution lease. The section *Plan* says what could come next.

## The system

Paths are below `src/telefuser/`.

| Component | State | Operations | What is hard | Correct when |
|---|---|---|---|---|
| **Streaming scheduler** `orchestrator/streaming_pipeline_orchestrator.py` | per session a `_SessionRuntime` (status, artifact slots, in-flight set, frontiers, pending and emitted outputs, cleanup flags); session table, turn order, queue of failed cleanups | `create_session`, `try_push_inputs`, `finish_inputs`, `poll_outputs`, `cancel_session`, `close_session`, `close`; `_pump_all`, `_complete`, `_cleanup_session` | actor threads call back into a re-entrant lock; callbacks may run inside the pump; cleanups outside the lock race handlers and deadlines | capacities and limits hold, strict stages see each sequence once and in order, outputs are in order, stage state is released only after the drain, nothing ready is left behind |
| **LocalStageActor** (same file) | mailbox, health, thread | `submit`, `close_session`, `close`, `_run`, `_fail` | its thread may die while others enqueue | each accepted message is resolved |
| **ParallelWorkerStageActor** `orchestrator/parallel_worker_stage_actor.py` | a local actor and a distributed worker behind it | the same, and worker failure | health turns while the local mailbox goes on | an unhealthy worker fails all sessions, once |
| **LingBot sessions** `pipelines/lingbot_world_fast/lease.py`, `service.py` | lease entries, waiting queue, holder; per session its worker thread, activity flag, pending control | push controls, take turns, submit chunks, stop, close, release | worker threads, the event loop and closers meet in one lock, and pass it between check and use | one session at a time is in the pipeline; the lease moves on; a session that ended leaves |
| **LingBot client** `pipelines/lingbot_world_fast/streaming.py` | prefetch window, next chunk | pushes controls, polls frames | back-pressure against a window | no chunk is lost or sent twice |
| **Batch orchestrator** `orchestrator/pipeline_orchestrator.py` | one request's artifacts | runs stages in order | little | each stage sees its inputs |
| **Task manager and processor** `service/core/task_manager.py`, `task_processor.py` | tasks and their status, pending queue, processing count, counters | create, claim, complete, fail, cancel, forget, capacity loss | `asyncio` interleavings of claim, cancel and completion | a task ends once; the counts match the statuses |
| **Replica pool** `service/core/pipeline_pool.py`, `replica_worker.py` | replicas, leases, session reservations, cancel events | acquire, release, run, cancel, replica death | errors while a lease is held; cancel racing the next task | no lease leaks, no replica has two tasks |
| **LiveKit serving** `service/livekit/scheduler.py`, `runtime.py`, worker pools | worker slots, assigned and queued sessions | admit, queue, assign, finish, expire, drain, worker failure | `await` between check and use | each session has at most one worker and capacity holds |
| **TurboServe** `service/livekit/turboserve.py`, `pipeline_router.py` | ownership table, pending migrations | place, prepare, commit, roll back | a failing target in the middle | one owner per session |
| **VLA sessions** `vla/runtime/chunk_state.py`, `service/vla_session.py`, `vla/session.py` | request records, pending and ready slot, waiting request, runner, barrier; the policy's order and history | submit, predict, time out, recover, RESET, CLOSE, disconnect | late and superseded predictions; two sides that reset at their own moments | an undelivered inference leaves no trace in a stateful policy; every request is answered |
| **Parallel worker, tensor channel** `worker/` | shared slots, worker processes | acquire, send, release, fail | slot reuse against readers | a slot is not overwritten while read |
| **Caches** `cache/kv_cache.py`, `cache/session_memory.py` | ring positions, slots | append, evict, restore | wrap-around | positions never alias |
| **Offload** `offload/` | blocks on device, prefetch window | prefetch, evict | asynchronous copies | a block is resident when used |
| **Artifact store, HTTP API, configuration, metrics** `service/` | files, configuration | I/O | | |
| **Models, kernels, distributed, pipelines** | tensors | arithmetic | | out of a model checker's reach |

Interactions: a client (the LingBot service, driven by a LiveKit worker) calls
the orchestrator; the orchestrator submits invocations to stage actors and gets
their results through future callbacks in the actors' threads; the cleanup
thread and callers of `cancel_session`/`close_session` send close messages to
the same mailboxes. The HTTP service creates tasks, the task processor claims
them and runs them on replicas of the pool. The LiveKit runtime asks the
scheduler for a worker and the pipeline router for an owner.

`PROJECT.json` lists every component with its status, every definition with the
lines it models, and the hazards: the places where an interleaving, a late
message, a timeout or a limit can go wrong and a unit test would hardly reach.

## Modules

| Module | What it is |
|---|---|
| `StreamScheduler` | the orchestrator, its actors' mailboxes and threads, its cleanup thread |
| `StreamSchedulerProps` | type invariant, safety properties, the inductive invariant, fairness and liveness, the refinement mapping |
| `OrderedStreams` | abstract: what a streaming pipeline promises a session's client |
| `ActionChunks` | `ActionChunkStateMachine`, each method one operator on its state |
| `VlaSession` | a VLA session: `_SessionRuntime`, its runner and receiver, the policy session; uses `ActionChunks` |
| `ReplicaPool` | the queue of replicas, `acquire()`, eviction |
| `PoolSessions` | `ReplicaPool` with session leases, VLA connections and `aclose()` |
| `TaskManager` | `TaskManager`, each method one operator on its state |
| `BatchService` | `ReplicaPool` and `TaskManager` with the workers of `AsyncTaskProcessor`, the replica process and `PipelineRunner` |
| `LiveKitScheduler` | `LiveKitScheduler`, each method one operator on its state |
| `LiveKitServing` | the LiveKit runtime: admission, runners, DELETE, reaper, migration, scaling; uses `LiveKitScheduler` |
| `ExecutionLease` | `ExecutionLeaseManager`, each method one operator on its state |
| `LingBotService` | LingBot sessions: worker threads, `push_chunk`, `close_session`; uses `ExecutionLease` |
| `MC...` | instances for TLC |
| `StreamSchedulerProofs`, `StreamLifecycleProofs`, `StreamFlowProofs` | proofs about the scheduler |
| `VlaSessionProofs`, `BatchProofs`, `PoolProofs`, `LeaseProofs`, `LiveKitProofs` | proofs about VLA sessions, batch tasks, the pool, LingBot sessions and LiveKit sessions |

Modules that stand for a class whose methods all run under one lock
(`ActionChunks`, `TaskManager`, `LiveKitScheduler`, `ExecutionLease`) have no variables: a method
is an operator from the object's state, a record, to its next state. The module
that composes them has the state as one variable and interleaves what the code
interleaves.

### StreamScheduler: state

A `_SessionRuntime` object is identified by its epoch, so a field of the class
is a function on `Runtimes == 1..MaxEpoch`, and `sessions` maps a session
identifier to its current runtime (0: none). That is what lets a session be
created again while results and cleanups of the older runtime still exist. A
stage is its position in `spec.stages`, since the pump visits stages in that
order; `Rank` is the topological order `_validate` computes, which only cleanup
and `close()` use.

* `slots` holds one `<<seq, artifact, consumer>>` per pair of slot and consumer
  reference: a slot of the code exists while one of its references does.
* `inFlight` and `admitted` hold `<<stage, seq>>`: `in_flight` and the keys of
  `timings` with an `admitted_at`. `pending` is `pending_outputs`, `outputs` the
  emitted sequences a poll has not taken, `nextEmit` `next_emit_sequence`.
* `queue[st]` is what the actor of stage `st` holds, head first; `busy[st]` says
  its thread executes the head, so the bounded mailbox holds the rest. Messages
  are invocations (`run`), close messages somebody waits for (`close`) and ones
  nobody waits for any more (`late`).
* `calls[r]` are calls of `_cleanup_session` that wait for `lifecycle_lock`,
  `pass[r]` is the one that holds it: how far it is (`drain`, `clean`), the
  stages left, whether a close message is sent, whether something failed.
* `deleting` are runtimes whose `close_session` is between its cleanup and the
  deletion of the session. `shutdown` is how far `close()` is.

Artifact values, latencies, timings, metrics, snapshots and close reasons are
abstracted: no decision of the scheduler depends on them.

### StreamScheduler: atomicity

Every public method and every completion callback runs under one re-entrant
lock and ends in `_pump_all`. The method's own changes are one step; the pump is
one step per turn of a session, with `pump.active` standing for the lock. While
it is taken, no method and no callback from another thread can run, but the
actor threads, which do not need it, take messages and run handlers. This
matters in one place: a future that is already resolved when the pump attaches
its callback is completed *inside* the pump, and the nested `_pump_all` rotates
the queue whose turns the outer one is counting. `Resolve` allows exactly that
for the invocation just submitted (`pump.last`).

| Code | Actions |
|---|---|
| `create_session`, `try_push_inputs`, `finish_inputs`, `poll_outputs` | `CreateSession`, `TryPushInputs`, `FinishInputs`, `PollOutputs` |
| `cancel_session`, `close_session` | `CancelSession`, `CloseSession`, then the cleanup steps, then `DeleteSession` |
| `_pump_all`, `_pump_once` | `PumpSkip`, `PumpAdmit`, `PumpFailActor`, `PumpSubmitError` |
| the thread of an actor, `_complete` | `Start`, `CompleteAnomalous`, `CompleteFailed`, `CompleteDropped`, `CompletePublished`, `CloserDone` |
| `_cleanup_session` | `AcquireCleanup`, `LockTimeout`, `Drained`, `DrainTimeout`, `SendClose`, `CloseRefused`, `CloserDone`, `StageTimeout`, `EndPass` |
| `_run_failed_cleanups` | `TakeFailed`, then the cleanup steps |
| `close` | `ShutdownBegin`, `ShutdownSession`, `ShutdownStopThread`, `ShutdownJoin`, `CloseActor`, `JoinActor`, `AbandonActor`, `ShutdownDone` |
| a worker process that fails | `WorkerFail` |

Calls that raise or report back-pressure change nothing and are not steps.
Definitions named `M_...` are variants with one plausible mistake each (a
dropped guard, an off-by-one, a missing pump); no behaviour uses them. They
document which property notices which mistake: `PROJECT.json` pairs each with
the run and property that fails when the variant takes the place of the
definition after it.

Simplifications, all named in the module: at most one concurrent `cancel` and
one concurrent `close` call per runtime; sequences are `0..MaxSeq`, so a stage
whose frontier passed `MaxSeq` has no candidate; at most `MaxEpoch` sessions are
created; a deadline may pass at any moment (`"timeout" \in Faults`); a handler
and a session closer return or raise.

Not modelled of this file: metrics, snapshots, `barrier` and `wait_until_idle`
(they only read), the argument checks that raise, `_validate` (its results are
the assumptions `GraphAssumption`, `ProducerAssumption`, `LimitAssumption`,
`RankAssumption`; `StreamingStageSpec.__post_init__`, line 91, gives
`InputAssumption`), the end
of a local actor's thread by an internal error (`_fail`), and the moment inside
`LocalStageActor.close_session` between its check and its put.

### OrderedStreams and the refinement

`OrderedStreams` knows only streams: which are over, the sequences each worked
on, what it has ready for its client and the next sequence to hand out. A step
is a step of each stream, since an actor that fails ends several sessions at
once. `StreamSchedulerProps` maps a runtime to a stream: it is over when its
status says so, what was worked on is `admitted` at the last stage, what is ready
is `outputs`. `ImplementsOrderedStreams` is checked in `stream_unordered`, where
results come out of order, and proved for every graph (`StreamsAreOrdered`).

### ActionChunks and VlaSession

One event loop runs a connection's receiver and its runner task; an action is
the code between two awaits. `_SessionRuntime` and the policy session each keep
their own sequence counter and reset it at their own moments; the model has both
(`sm.latest`, `policy.last`), so it can say whether they agree. `history` is what
a stateful policy has seen; it stands for the tensors such a policy carries from
one inference to the next.

| Code | Actions |
|---|---|
| `submit` | `SubmitRequest` |
| the runner's loop, `_predict` | `RunnerStarts`, `PredictReturns`, `PredictRaises`, `PredictTimesOut`, `LateReturns`, `LateRaises`, `DiscardReset`, `RecoverReset` |
| RESET, CLOSE, disconnect | `BeginControl` to the await of the runner, `EndControl` after it |

An inference reads its result's episode when it ends; a mismatch raises in the
lookup, which ends the runner (`Crash`). Trimmed records do the same. Time is
abstracted: a request with a TTL may expire at any moment the code compares
clocks, an observation is fresh, stale or older than one admitted before.

### ReplicaPool and PoolSessions

`alive` are the processes, `status`, `available` and `liveCount` the pool's view
of them. A caller of `acquire()` leaves it in one of three ways: it returns, it
finds the replica dead, or another exception passes through, which leaves the
replica `busy` for ever (`CallRaises`; the code returns it on success and on
`ReplicaDeadError` only).

A session lease is an object (`1..MaxLeases`, reused when nobody refers to it),
with the FIFO queue of its `asyncio.Lock`. A connection opens a session, calls
through the lease and closes it. The error path of `open` closes the session of
that id *whoever opened it*: `OpenRefused` takes the lease of another connection
with it. `aclose()` flags the leases, waits for the lock of each and clears
everything.

| Code | Actions |
|---|---|
| `acquire` | `AcquireBegins`, `AcquireTakes`, `AcquireFails`, `CallReturns`, `CallDies`, `CallRaises` |
| `open_session`, backend `open` | `OpenBegins`, `OpenRefused`, `SessionTakes`, `OpenAborts`, `Registers`, `RegisterRefused` |
| `acquire_session` | `CallBegins`, `CallTurn`, `CallAnswered`, `CallFindsDead` |
| `close_session` | `CloseSession` (part of its callers), `CloseEnds` |
| `aclose` | `ShutdownBegins`, `ShutdownQueues`, `ShutdownPasses`, `ShutdownEnds` |

### TaskManager and BatchService

Task ids are generated, never chosen by a client, so tasks are numbered. A
cancellation reaches a running pipeline over three hops, each of which can be
late: the task's stop event in the main process, the forwarder thread that sets
the replica's shared event, the watcher thread in the replica that sets the stop
event the pipeline polls. The shared event is cleared by the sender and again by
the receiver; the second can wipe a cancellation of the first. A pipeline
invocation that times out goes on in its thread and holds the runner's lock, so
the next task of that replica may wait for it in vain.

| Code | Actions |
|---|---|
| `create_task`, `cancel_task` | `CreateTask`, `CancelTask` |
| `_process_task` and its callers | `Claims`, `Drops`, `Begins`, `NoCapacity`, `NoCapacityCancelled`, `Takes`, `GetsReply`, `FindsDead` |
| `_forward_cancel_fn` | `Forwards` |
| the replica's loop and watcher | `Receives`, `NotInvoked`, `Watches` |
| `PipelineRunner.run` | `Invokes`, `Finishes`, `Overruns`, `LateEnds` |

### LiveKitScheduler and LiveKitServing

The scheduler, the registry, the runners, the router and the model state each
have their own idea of where a session is; the model has all five (`sched`,
`rec`, `transport`, `route`, `copies`). A stopper is a DELETE handler or the
reaper; it waits for the runner's task through `shield` with a grace period,
cancels the task, waits a second and cancels again. `control` is TurboServe's
loop, which migrates one session at a time or scales.

| Code | Actions |
|---|---|
| `create_session` | `CreateSession` |
| `_run_session`, `run_session`, `on_session_finished` | `RunnerRefused`, `RunnerBegins`, `RunnerStreams`, `RunnerEnds`, `PipelineCloses`, `RunnerFinishes` |
| DELETE, the reaper, `stop_session` | `StopIdle`, `StopBegins`, `StopEnds`, `StopRaises`, `StopCancelled`, `StopGrace`, `StopAgain` |
| `migrate_session` | `MoveBegins`, `MoveImports`, `MoveFails`, `MoveCommits`, `MoveEnds` |
| `scale_to` | `ScaleOut`, `ScaleInBegins`, `ScaleInEnds` |

Left out: the process pools (the in-process pool is modelled), failures while a
pipeline session is created, a worker starts or stops, or the source's copy is
committed, `aclose`, and chunks. A migration's checks and its prepared ownership
are one step. Which session moves where is an arbitrary choice: the placement
model is arithmetic on measured latencies. A runner that was created begins
before a grace period of 8 s is over.

### ExecutionLease and LingBotService

The manager's methods run under one condition variable; the record `lease` is
its state, with the fields of an entry as functions of the session. Time is kept
only as what `_is_expired` says: `stale[s]` is set by `Expires` at any moment
after the last activity. A worker thread is the place it stands at: it selects a
control, waits for its turn, begins a chunk, prepares it (the first chunk
creates the runtime), has it in the pipeline, and cleans up. Between two places
any other thread may run; that is where a holder can be parked after
`wait_for_turn` and before `begin_chunk`.

| Code | Actions |
|---|---|
| `create_session`, `pull_chunks` | `CreateSession`, `PullChunks` |
| `_run_actor_worker_loop` | `TakeControl`, `YieldIdle`, `WaitForTurn`, `Begin`, `Submit`, `SubmitFails`, `ChunkDone`, `LoopEnds`, `LoopFails` |
| `_run_worker_loop` | `Leave`, `Cleanup`, `End` |
| `push_chunk` | `PushBegins`, `PushDeactivates`, `PushRecords`, `PushDelivers` |
| `close_session` | `CloseBegins`, `CloseGivesUp`, `CloseReleases` |

A session id is created once. What a control says is reduced to whether the
session has something to generate (`control`): a prompt or a pressed key gives it
work, held keys leave it work, anything else (`quiet`) may take it away. The
loop keeps at most one chunk in flight, since `_CONTROL_PREFETCH_DEPTH`
(`service.py` line 72) is 0.

## Runs

| Run | Instance | Checks | Result |
|---|---|---|---|
| `stream_unordered` | one session, two stages without ordering, the second joins an internal and an external input; two invocations each, one resource group of two; capacities 2; sequences 0..2 in any order and repeated; cancel | `LimitsRespected`, `OutputsInOrder`, `ImplementsOrderedStreams` | pass, 499 195 states |
| `stream_live` | two sessions, two strict stages on one resource group of one; capacities and limits 1; sequences 0, 1; poll, finish | `StrictStageOrder`, `ArtifactsConserved`, `LastFlagRight`, `NothingStranded`; `EveryItemIsEmitted` under `FlowSpec` | pass, 82 621 states |
| `stream_lifecycle` | one session identifier used twice, two stages; cancel, close; failing handlers, deadlines at any time | `ResultsMatch`, `ReleaseAfterDrain`, `ReleaseOrder`, `TerminalHoldsNothing`, `CompleteMeansReleased` | pass, 2 573 742 states |
| `stream_shutdown` | one session; cancel, `close()`; every fault: handlers, session closers, workers and submits that fail, deadlines, actors that return early | `FailedIsCleaned`, `ShutdownTerminates` under `LifeSpec` | pass, 47 634 states |
| `stream_stranded` | two sessions; close | `NothingStranded` | violated, see *Findings* |
| `stream_turns` | two sessions, sequences 0..2 | `RoundRobin` | violated, see *Findings* |
| `vla_session` | three requests with sequence ids 1, 2, two episodes, one terminal record retained, a stateful policy | `PolicyIsClean`, `OrdersAgree`, `InferenceIsProtected`, `LossStopsSession`, `DeliveryRespectsBarriers`, `RequestsSettle`, `ControlsEnd` | pass, 111 098 states |
| `pool_sessions` | two replicas, two connections that may use each other's session id, one ordinary caller, two lease objects; `aclose()` | `ReplicaIsInOnePlace`, `LiveCountIsRight`, `CallsKeepTheirLease`, `ShutdownFinishes`, `ConnectionsProgress` | pass, 200 582 states |
| `batch_service` | two workers, two replicas, two tasks, one ended task kept | `SlotsMatchWorkers`, `CountersConserve`, `RepliesAreOwned`, `TerminalIsFinal`, `TasksEnd` | pass, 91 695 states |
| `livekit` | two workers of one slot, a queue of one, two sessions, one DELETE handler and the reaper, migration, scaling | `OnePlace`, `OwnersAgree`, `RefusalHasCause`, `SessionsEnd` | pass, 441 880 states |
| `lingbot_lease` | two sessions; to one everything can happen (every message, completion, errors, a failing cleanup, close), the other is only pushed controls | `ChunksExclusive`, `LeaseIsUsable`; `HolderYields`, `SessionsLeave` under `FairSpec` | pass, 306 961 states |
| `livekit_reaper` | one worker, one session | `ReaperSurvives` | violated, see *Findings* |

Why these bounds. Two stages have every relation stages can have: producer and
consumer, first and last in either order, one holding the group the other
wants. Capacity 1 is the tightest the code accepts and makes every limit bind;
`stream_unordered` adds capacity 2, where "one slot and one reservation" and
"two reservations" differ. Two sequences suffice for "the next one", a third
for a gap between two finished ones. Two sessions suffice for competition; two
runtimes of one session for everything that depends on an epoch. The runs split
what would be too large together: dataflow without session ends, session ends
with one sequence. `stream_live` checks liveness too and uses no symmetry.

`TypeOK` and `LifecycleInv` of the scheduler and `FailedIsScheduled` are in no
run: they are proved for every instance.

Three VLA requests are one being inferred, one waiting and one that supersedes
it; with a single retained record, trimming happens with the second terminal
one (128 in the code). In `pool_sessions`, two connections and two ids give
every clash of ids, two replicas a replica that dies beside one that lives. Two
lease objects are enough for what is bound at once; a connection that opens a
third waits until one is forgotten, which the code would not. In
`batch_service`, two tasks never fill the queue (three give more than four
million states), so `max_queue_size` does not bind there; `KeepCount` 1 makes
the cleanup of ended tasks happen. In `livekit`, one slot per worker, one place
in the queue and two sessions make assignment, queueing, handover to the head of
the queue, migration to a free worker and refusal happen. In `lingbot_lease`, two
sessions make every hand-over of the lease happen; a third would only lengthen
the queue (the proofs are for any number). The second session is not stopped,
closed or failed, so that the first meets one that stays.

Deadlock is checked in the runs whose clients can always go on polling. In the
others the system may stop: sessions have ended, the epochs are used up, or
`close()` has returned.

### Fairness

* `PumpTurn` weakly: the pump runs in a thread that holds the lock and is not
  blocked.
* The actors' threads strongly: a thread that wants the lock competes with
  clients but the lock is released after every pump. Strong fairness states
  that such a thread is not refused the lock for ever. Handlers return.
* Polling clients, for `EveryItemIsEmitted` only: with nobody polling, output
  back-pressure rightly stops the pipeline.
* The holder of a cleanup, strongly, its next step or its deadline. The waits of
  `_cleanup_session` all have finite deadlines in `LifeSpec`; without the fault
  `"timeout"` a deadline never passes.
* A failed session's and `close()`'s cleanup call, strongly: it gets
  `lifecycle_lock` or times out on it.
* `AbandonActor` has none: an actor may but need not return early.
* `VlaSession`: the runner and the end of a control, weakly. They are tasks of an
  event loop, and a backend call ends by a result, an error or the IPC timeout.
  No client has to send or leave.
* `PoolSessions`: callers, connections that wait for the loop or a replica, and
  `aclose()` once begun, weakly. Clients and deaths of replicas have none.
* `BatchService`: workers and the replica's task loop, weakly; `FindsDead`
  weakly, since a call has an IPC timeout. The forwarder, the watcher and the end
  of a timed-out invocation have none: no property may rest on a cancellation
  that arrives in time.
* `LiveKitServing`: runners and stoppers weakly; the reaper's request for a
  session strongly, since each of its rounds takes up every session whose
  lifetime (1800 s unless configured) is over and it is idle again after each
  one. A controller need not come, a stream need not end.
* `LingBotService`: worker threads weakly (their waits have timeouts or are
  notified, and the pipeline answers), and the second half of a push that made a
  session inactive. No client has to push, stop or close, and nothing has to
  expire or fail.

## Findings

* **Ready work is left behind** (`stream_stranded`, line 1122). A close message
  waiting in an actor's mailbox makes `submit` raise `StreamingActorBusyError`.
  `_pump_once` puts the inputs back and goes on, and counts on a later pump; but
  the end of a session closer pumps nothing. If the other session's cleanup is
  what comes last, the work stays although it is admissible and nothing runs.
  The docstring of `barrier` (line 740) promises to "wait until the graph has no
  admitted or immediately admissible work": it can only time out then. Any later
  call that pumps (a poll, a push) frees the work, which is why `stream_live`,
  where nobody sends close messages, has the property.
* **The turn does not go round** (`stream_turns`, line 1087). `_pump_all`
  rotates `_session_order` by whole rounds, so each round starts with the same
  session; when a stage frees, that session is asked first every time and can
  be given the stage repeatedly while another waits. Its docstring (line 1084)
  says "round-robin across all active sessions". With finitely many sequences
  nobody starves (`stream_live`).

* **The reaper dies** (`livekit_reaper`, `runtime.py` line 554). The reaper waits
  for a runner's task through `shield`; a DELETE of the same session whose grace
  is over cancels that task. The reaper's wait then raises `CancelledError`,
  which `contextlib.suppress(Exception)` lets through and the loop takes for its
  own cancellation. Nothing restarts it; `docs/en/stream_server.md` line 271 says
  that the reaper enforces `session_timeout`.

Behaviour of the LingBot sessions the model exhibits, which `HolderYields` and
`SessionsLeave` name as their exceptions, so that the runs show there is no
other:

* *A holder with nothing to run* (`NothingToRun`, `lease.py` line 149). A session
  that queued must run a chunk before it can yield (`has_run_since_grant`). If
  the message that queued it was a released key, a reset or an unchanged
  snapshot, there is no chunk to run, and it keeps the lease while others wait,
  until it sends a control or ends. The docstring at line 141 says "Yield an idle
  lease when demand arrived before the timeout elapsed", and
  `docs/en/stream_server.md` line 219 that an idle holder parks when another
  session waits.
* *A ghost* (`Ghost`, `service.py` line 414). `push_chunk` found the session
  active, its worker then released its lease, and `_ensure_execution_lease`
  registers it again: an entry without a worker can be granted the lease, and
  keeps it unless `close_session` is called.
* *A lost mark* (`ClosingMarkLost`, `lease.py` line 236). `record_activity` of
  another session parks a holder that is idle, also one that is `closing`: its
  status is then `parked`, and its worker, which may be waiting for a turn, is
  not told to leave.
* A session that is parked between `wait_for_turn` and `begin_chunk` ends with a
  `RuntimeError` (`service.py` line 1193): another session may be in the pipeline
  by then.

Behaviour the model exhibits that no document settles, kept as hazards without
a property: unordered stages can fill the output queue with later sequences and
refuse the one that must be emitted first; `finish_inputs` accepts a final
sequence below ones already pushed; a sequence may be pushed again after it was
consumed; `create_session` may replace a failed session whose cleanup is still
queued.

## Proofs

All theorems hold for every value of the constants that satisfies the named
assumptions of `StreamScheduler`: any acyclic graph with a topological order,
any positive capacities and limits, any sets of sessions, client operations and
faults, any bounds `MaxSeq` and `MaxEpoch`. The assumptions on the graph are what
`_validate` raises on, among them `ProducerAssumption`, that an artifact has one
producer, a stage or the outside, and `InputAssumption`, that a stage has an
input, which `StreamingStageSpec` raises on.

* `TypeCorrect`: `Spec => []TypeOK`. `TypeOK` is inductive; the proof has one
  lemma per group of actions. `TypeOK` bounds the work list of `close()` by its
  phase, without which the step that takes a runtime from it has no type.
* `Lifecycle`: `Spec => []LifecycleInv`, the inductive invariant of the
  session lifecycle. `ResultsMatch`, `ReleaseAfterDrain` and
  `CompleteMeansReleased` are not inductive. That a release never meets a
  running invocation needs: a cleanup past its drain has nothing in flight
  (`Releasing`); nothing is admitted afterwards, because whoever asked for the
  cleanup had ended the session first (`Ending(r) => Ended(r)`), including
  requests that only wait, in `calls`, in the failed queue or in the list of
  `close()`; and an actor holds only invocations in flight (`MailboxInv`). That
  no result is orphaned needs that a runtime with invocations in flight is still
  its session's (`FlightInv`): `create_session` replaces only drained ones, and
  `DeleteSession` runs behind a cleanup.
* `InvocationsMatch`, `ReleaseIsSafe`, `CompletionIsTrue` follow from it.
* `TerminalIsEmpty`: `Spec => []TerminalHoldsNothing`, inductive over `TypeOK`.
* `FailureIsScheduled`: `Spec => []FailedIsScheduled`, inductive over `TypeOK`.
  It is the safety half of `FailedIsCleaned`.
* `EmissionInOrder`: `Spec => []OutputsInOrder`, by `EmissionInv`, which adds
  that what is pending was worked on (`Worked`) and that what is in flight was
  admitted. The code increments `next_emit_sequence` once per sequence it can
  emit; the lemma `EmittedIsPrefix` shows that the set of those sequences, of
  which the model takes the cardinality, is the interval the loop walks.
* `StrictOrder`: `Spec => []StrictStageOrder`, by `FrontierInv` (a strict stage
  was given `0..f-1`, or `0..f` with `f` in flight or its session ended) and,
  for the mailbox, `LifecycleInv`. Both rest on `StepKinds`: every step of the
  scheduler is an admission, a publication or quiet (nothing admitted or
  emitted, and an invocation resolved only for a session that has ended).

* `StreamsAreOrdered`: `Spec => ImplementsOrderedStreams`. Initial states map to
  initial states; by `StepKinds` and `EmissionInv`, every step maps to a step of
  each stream or a stutter.
* `LastFlagIsRight`: `Spec => []LastFlagRight`, inductive with `EmissionInv` and
  the lifecycle.
* `LimitsHold`: `Spec => []LimitsRespected`, by `LimitsInv`, which bounds what is
  recorded in flight, at every runtime that ever was. That bounds what actors
  hold until `close()` is over, by `MailboxInv`; afterwards the mailboxes are
  not recorded any more, but no session is left that could be given anything.
  The occupancies of the code are sums over tables; the lemma `OccupancyCounts`
  gives them as sizes of finite sets, which each kind of step changes by one
  element at most. That one promise pays for every edge an artifact fills is
  where `ProducerAssumption` is used.
* `NothingLostOrDuplicated`: `Spec => []ArtifactsConserved` for graphs of strict
  stages (`Strict = Stages`), with `FrontierInv`. The hypothesis is needed: an
  unordered stage takes a sequence again when it is pushed again
  (`_runnable_sequence` asks only whether it is in flight), and is then working
  on what it delivered; TLC finds that in ten steps in the instance of
  `stream_unordered`.
* `ReleasesInOrder`: `Spec => []ReleaseOrder`, by `ReleaseInv`: what is not
  released is still to do, unless a release failed, and the pass waits for the
  one release it has sent, which goes to the highest rank left.

* `NothingIsStranded`: `Spec /\ []OnlyInvocations => []NothingStranded`, for all
  client operations and all faults: while no cleanup has sent a close message, no
  wakeup is lost. The hypothesis is exactly what *Findings* is about: a close
  message takes room in a mailbox and its end does not pump (`stream_stranded`).
  `WakeInv` is the invariant: between pumps, whatever a session could be given
  waits for an invocation that its stage holds, the completion of which pumps
  again; inside a pump, in a round that has admitted nothing so far, that is true
  of the sessions whose turn is over, which are the last ones of
  `_session_order`. Three facts carry it. A turn that finds a mailbox full finds
  it non-empty (`FullMailbox`). Ending sessions, cleaning up and failing take
  work from a session and give none (`Calm`). Replacing and forgetting a session
  free no capacity of a stage or a group, which would have to wake the others:
  what they drop has nothing in flight (`FlyingKept`, by `LifecycleInv`), and a
  new session has nothing it could be given.
* `NothingIsLost`: `Spec => []NothingStranded` if clients end no session and no
  execution, worker or submission fails: then no session ends, so by
  `LifecycleInv` no close message is ever sent. This is the situation of
  `stream_live`, for every graph, limits, and number of sessions.

Mailboxes are sequences; what appending to one, taking its head and relabelling
a message do to the invocations in it is stated once, as the lemmas at the start
of `StreamLifecycleProofs`.

For `VlaSession`, with any number of requests, ids, episodes and retained
records, policies with and without a history:

* `SessionIsInvariant`: `Spec => [](TypeOK /\ SessionInv)`. `SessionInv` is the
  inductive invariant. `OrderInv` is its heart: while the session accepts,
  neither the policy's counter nor the request it runs is ahead of the session's
  counter, and a request that will run is ahead of both. `CleanInv` says that a
  history is clean whenever an inference may start next, including in the states
  in which the runner has not been started yet. Every step of the runner first
  does some work and then ends, takes the next request or pauses for a reset:
  `WorkDone` states what that work must leave, and two lemmas conclude from it
  for all steps alike.
* `InferenceStaysProtected`, `OrdersAlwaysAgree`, `PolicyStaysClean` follow.
* `LossStopsTheSession` and `DeliveriesRespectBarriers` need a second invariant,
  `LedgerInv`, proved on top of the first. `Sound` is the chunk machine's own
  consistency: the pending and the ready slot hold tickets of that status, a ready
  ticket is not being inferred, every ticket after the pending one was refused or
  forgotten. The rest relates the machine to the requests: what a RESET or a
  barrier invalidated is not pending, a request that timed out was answered, and
  while a control is under way every ticket issued so far is invalidated. One
  lemma per operation of the machine shows that a ticket only `Fades` by it: none
  becomes pending again, none that was refused is revived. `RunnerLedger` then
  covers every step of the runner, which drops its requests, takes the waiting one
  or pauses.

For `BatchService`, with any number of tasks, workers, replicas and any limits:

* `BatchIsInvariant`, and from it `SlotsAlwaysMatch`
  (`Spec => []SlotsMatchWorkers`) and `EndsAreFinal` (`Spec =>
  TerminalIsFinal`). `Good` says which tasks a manager can have in which state;
  every step leaves the workers' tasks alone, is a claim, or gives a slot back
  after its task ended.
* `CountersAlwaysConserve`: one counter equation over `Unsettled`, the tasks that
  neither completed nor failed: a claim and a cancellation move a task within that
  set, a result moves it to a counter, and a pool that loses its last replica moves
  all pending tasks at once (`SetCapacityCounts`).
* `CallsAreSound`: `Spec => []OwnInv`, and from it `RepliesStayOwned`. `OwnInv`
  follows each replica: once and idle in the queue, or busy with the one worker
  that holds it and was sent a call, or evicted, or left busy by an exception. A
  replica comes back to the queue only in the step that takes its reply, which is
  why no later call can read it. One lemma per way a replica moves (`OwnTakes`,
  `OwnEvicts`, `OwnEnds`, `OwnAnswers`).

For `PoolSessions`, with any number of replicas, callers, connections, sessions
and leases:

* `PoolIsInvariant`: `Spec => []PoolInv`, and from it `ReplicaStaysInOnePlace`,
  `CallsStayWithTheirLease`, `LiveCountStaysRight` and `TypesStayRight`. The
  heart is `Homes`: a replica's status tells who has it (`idle`: the queue or an
  opening session; `busy`: a caller; reserved or busy for a session: a lease),
  and nobody has the same one twice. It is stated of a status map, a set and
  three functions, so that each way a replica can move is one short lemma that
  does not mention the variables. Two more facts make it inductive: the
  connection that closes or fails a session has the lock of its lease, so no
  other call uses that lease or its replica (`OtherCalls`), and a connection
  opens a session that no other connection opens and that has no lease yet
  (`ConnInv`), so a registration never overwrites a lease.

For `LingBotService`, with any number of sessions and any messages and events:

* `ServiceInvariant`: `Spec => []IInv`, where `IInv` is `TypeOK`, `Sound(lease)`
  and `PlacesAgree`. `Sound` is the manager's own consistency: only the holder is
  busy, whoever holds the lease is active or closing, and nobody queues for a
  lease that is free. Each method preserves it, which is a lemma per method that
  does not mention threads. `PlacesAgree` ties the reservation to the worker's
  place, which `ChunksExclusive` needs: a session is in the pipeline only with a
  reservation, from `begin_chunk` until its lease is released.
* `ChunksStayExclusive`, `LeaseStaysUsable` and `TypeCorrect` follow.

For `LiveKitServing`, with any number of workers, sessions and DELETE handlers,
any capacity and any queue:

* `ServingInvariant`: `Spec => []IInv`. Neither `OnePlace` nor `OwnersAgree` is
  inductive. `Sound` is the scheduler's own consistency: no worker over its
  capacity, no session with two slots, two places in the queue or both. A lemma
  per method (`AssignFacts`, `ReleaseFacts`, `ReassignFacts`, `DrainsFacts`)
  shows that it keeps `Sound` and which sessions it moves, without mentioning the
  runtime. `BooksInv` says that a session has a place exactly from its admission
  until it is finished, and that the registry names the worker of its slot;
  `RunnersInv` that only a session with a slot gets a runner, so that a session
  that is given a slot from the queue has none yet; `ModelsInv` and `ControlInv`
  where the copies of the model state are during each phase of a migration, also
  when the session is closed meanwhile. What `drain_queue` gives to whom depends
  on the load after each assignment; the model states that of the sequence of
  workers it chooses, so that the proof needs no induction over the loop.
* `SessionsHaveOnePlace`, `OwnersStayTogether`, `TypeCorrect` follow.
* `RefusalsHaveACause`: `Spec => RefusalHasCause`. A refused runner's session has
  a slot that its worker counts but does not run, so among at least `Capacity`
  sessions it runs, one has left its slot.

Only model-checked: the liveness properties, which the prover cannot do.
`NothingStranded` is no theorem of `Spec` alone, since close messages break it
(see *Findings*); it is proved where there are none.

## Not modelled

* Models, kernels, samplers, pipelines, the distributed and offload code: more
  than nine tenths of the source are arithmetic on tensors, which TLC cannot
  evaluate and where a state protocol is absent. The share of the lines the
  project covers is therefore small.
* The HTTP API, configuration, metrics, file storage: parsing, wiring, counters
  and I/O.
* Of the parts modelled: shutdown and restart of the task processor
  (`stop`, `cancel_all_tasks`), its path for one local pipeline without a pool,
  starting replica processes, the replica's side of session operations; the
  process pools, media transport and `aclose` of LiveKit; execution and recovery
  callbacks of the chunk machine, which the server does not use; the internal
  failure of a local actor's thread.
* Of LingBot: `stop` of the service and `close` of the lease manager (the end of
  the process), the capacity profile, output queues and what is put into them.
* The tensor channel, the KV cache's positions, the batch orchestrator, the
  LingBot client: see *Plan*.

## Plan

1. `StageActor`, the local actor in detail with `_fail` and the window in
   `close_session`; `LingBotStreaming`, the client with its prefetch window,
   composed with the scheduler.
2. `TensorChannel`: shared slots between a parallel worker's processes.
3. The process pools of LiveKit and the order of chunks around a migration
   (`pipeline_router.py` line 150 appends a chunk to a buffer a migration may
   already have sent).
4. If room is left: ring positions of the KV cache, retention of artifacts.
