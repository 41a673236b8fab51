--------------------------- MODULE LingBotService ---------------------------
(***************************************************************************)
(* The sessions of LingBotWorldFastService, which share one pipeline       *)
(* through the execution lease (telefuser/pipelines/lingbot_world_fast/    *)
(* service.py): the worker thread of each session, push_chunk on the event *)
(* loop, and close_session on any thread.  An action is the code between   *)
(* two points where another thread can come in between.                    *)
(*                                                                         *)
(* A session is created once.  The number of chunks is not counted: when a *)
(* chunk is done the generation is complete or it is not.                  *)
(***************************************************************************)
EXTENDS ExecutionLease

CONSTANTS Messages,    \* what the client of each session sends
          Events       \* what else happens to each session

ASSUME ServiceAssumption ==
  /\ Messages \in [Sessions -> SUBSET {"control", "quiet", "stop"}]
  /\ Events \in [Sessions -> SUBSET {"complete", "error", "cleanup", "close"}]

VARIABLES
  lease,       \* _lease_manager
  retained,    \* _sessions: the sessions of the service
  active,      \* state.active
  control,     \* active sessions with a control pending, or keys held
  inPipeline,  \* a chunk of the session is in the orchestrator
  worker,      \* where the worker thread of each session stands
  push,        \* where push_chunk stands
  closer       \* where close_session stands

vars == <<lease, retained, active, control, inPipeline, worker, push, closer>>

Places == {"idle", "select", "turn", "begin", "prepare", "chunk", "leave",
           "cleanup", "ending", "gone"}
PushPlaces == {"idle", "deactivate", "record", "deliver"}
ClosePlaces == {"idle", "join"}

Init ==
  /\ lease = NoEntries
  /\ retained = {} /\ active = {} /\ control = {} /\ inPipeline = {}
  /\ worker = [s \in Sessions |-> "idle"]
  /\ push = [s \in Sessions |-> "idle"]
  /\ closer = [s \in Sessions |-> "idle"]

At(s, place) == worker[s] = place
GoTo(s, place) == worker' = [worker EXCEPT ![s] = place]
PushAt(s, place) == push' = [push EXCEPT ![s] = place]
CloseAt(s, place) == closer' = [closer EXCEPT ![s] = place]

\* state.active = False.  Nobody reads the controls of an inactive session.
Inactive(s) ==
  /\ active' = active \ {s}
  /\ control' = control \ {s}

-----------------------------------------------------------------------------
\* create_session: into the table, and registered for the lease.
CreateSession(s) ==
  /\ s \notin retained /\ At(s, "idle")
  /\ retained' = retained \cup {s}
  /\ active' = active \cup {s}
  /\ lease' = Register(lease, s)
  /\ UNCHANGED <<control, inPipeline, worker, push, closer>>

\* pull_chunks starts the worker thread.
PullChunks(s) ==
  /\ s \in retained /\ At(s, "idle")
  /\ GoTo(s, "select")
  /\ UNCHANGED <<lease, retained, active, control, inPipeline, push, closer>>

-----------------------------------------------------------------------------
(* The worker thread: _run_actor_worker_loop.                              *)

\* _next_realtime_control: the control is taken; held keys stay.
TakeControl(s) ==
  /\ At(s, "select") /\ s \in control
  /\ control' \in {control, control \ {s}}
  /\ GoTo(s, "turn")
  /\ UNCHANGED <<lease, retained, active, inPipeline, push, closer>>

\* Without a control it waits, and calls yield_idle_lease from time to time.
YieldIdle(s) ==
  /\ At(s, "select") /\ s \in active \ control
  /\ lease' = YieldIfIdle(lease, s)
  /\ UNCHANGED <<retained, active, control, inPipeline, worker, push, closer>>

\* wait_for_turn returns.
WaitForTurn(s) ==
  /\ At(s, "turn")
  /\ \/ HasTurn(lease, s) /\ GoTo(s, IF s \in active THEN "begin" ELSE "leave")
     \/ LosesTurn(lease, s) /\ GoTo(s, "leave")
  /\ UNCHANGED <<lease, retained, active, control, inPipeline, push, closer>>

\* begin_chunk.  When it refuses, a RuntimeError ends the worker.
Begin(s) ==
  /\ At(s, "begin")
  /\ \/ CanBegin(lease, s) /\ lease' = BeginChunk(lease, s) /\ GoTo(s, "prepare")
     \/ ~CanBegin(lease, s) /\ GoTo(s, "leave") /\ UNCHANGED lease
  /\ UNCHANGED <<retained, active, control, inPipeline, push, closer>>

\* The first chunk creates the runtime; then try_submit_chunk takes the chunk,
\* and the loop goes on while the session is active.
Submit(s) ==
  /\ At(s, "prepare")
  /\ inPipeline' = inPipeline \cup {s}
  /\ GoTo(s, IF s \in active THEN "chunk" ELSE "leave")
  /\ UNCHANGED <<lease, retained, active, control, push, closer>>

\* The session was stopped while its runtime was created, or its streaming
\* session cannot be created: the reservation stays.  The runtime cannot be
\* created, or the control or the submit is refused: it is aborted.
SubmitFails(s) ==
  /\ At(s, "prepare")
  /\ \/ (s \notin active \/ "error" \in Events[s]) /\ UNCHANGED lease
     \/ "error" \in Events[s] /\ lease' = AbortChunk(lease, s)
  /\ GoTo(s, "leave")
  /\ UNCHANGED <<retained, active, control, inPipeline, push, closer>>

\* The chunk's frames were polled and the pipeline is idle: a chunk boundary.
ChunkDone(s) ==
  /\ At(s, "chunk")
  /\ inPipeline' = inPipeline \ {s}
  /\ lease' = FinishChunk(lease, s)
  /\ \/ GoTo(s, "select")
     \/ "complete" \in Events[s] /\ GoTo(s, "leave")
  /\ UNCHANGED <<retained, active, control, push, closer>>

\* The session was stopped: the loop ends between chunks or with a chunk in the
\* pipeline.
LoopEnds(s) ==
  /\ worker[s] \in {"select", "chunk"} /\ s \notin active
  /\ GoTo(s, "leave")
  /\ UNCHANGED <<lease, retained, active, control, inPipeline, push, closer>>

\* An error ends it: the scheduler failed, refuses input, or did not get idle in
\* time.
LoopFails(s) ==
  /\ "error" \in Events[s]
  /\ worker[s] \in {"select", "chunk"} /\ s \in active
  /\ GoTo(s, "leave")
  /\ UNCHANGED <<lease, retained, active, control, inPipeline, push, closer>>

(* _run_worker_loop: the cleanup of the worker.                            *)
M_LeaveReleases(s) ==
  /\ At(s, "leave")
  /\ lease' = Release(lease, s)
  /\ GoTo(s, "cleanup")
  /\ UNCHANGED <<retained, active, control, inPipeline, push, closer>>

Leave(s) ==
  /\ At(s, "leave")
  /\ lease' = Deactivate(lease, s)
  /\ GoTo(s, "cleanup")
  /\ UNCHANGED <<retained, active, control, inPipeline, push, closer>>

\* _release_generation_session drains the pipeline and forgets the controls; or
\* it raises, and what the session has in the pipeline stays there.
ReleaseGeneration(s) ==
  /\ control' = control \ {s}
  /\ inPipeline' = inPipeline \ {s}

ReleaseRaises(s) ==
  /\ "cleanup" \in Events[s] /\ s \in inPipeline
  /\ UNCHANGED <<control, inPipeline>>

\* The lease is released in either case.
Cleanup(s) ==
  /\ At(s, "cleanup")
  /\ ReleaseGeneration(s) \/ ReleaseRaises(s)
  /\ lease' = Release(lease, s)
  /\ GoTo(s, "ending")
  /\ UNCHANGED <<retained, active, push, closer>>

\* The last outputs are delivered; only then the session is inactive and
\* leaves the table.
End(s) ==
  /\ At(s, "ending")
  /\ Inactive(s)
  /\ retained' = retained \ {s}
  /\ GoTo(s, "gone")
  /\ UNCHANGED <<lease, inPipeline, push, closer>>

-----------------------------------------------------------------------------
(* push_chunk, on the event loop.                                          *)

PushBegins(s) ==
  /\ push[s] = "idle" /\ s \in retained \cap active
  /\ \/ "stop" \in Messages[s] /\ PushAt(s, "deactivate") /\ Inactive(s)
     \/ Messages[s] \ {"stop"} # {} /\ PushAt(s, "record") /\ UNCHANGED <<active, control>>
  /\ UNCHANGED <<lease, retained, inPipeline, worker, closer>>

PushDeactivates(s) ==
  /\ push[s] = "deactivate"
  /\ lease' = Deactivate(lease, s)
  /\ PushAt(s, "idle")
  /\ UNCHANGED <<retained, active, control, inPipeline, worker, closer>>

\* _ensure_execution_lease registers a session without an entry again, and
\* record_activity follows.  (If the entry is released between the two, a
\* KeyError ends the call, which has changed nothing.)
PushRecords(s) ==
  /\ push[s] = "record"
  /\ lease' = RecordActivity(IF lease.status[s] = "none" THEN Register(lease, s) ELSE lease, s)
  /\ PushAt(s, "deliver")
  /\ UNCHANGED <<retained, active, control, inPipeline, worker, closer>>

\* The message takes effect.  A prompt or a key pressed is work; a key released,
\* a reset or an unchanged snapshot of the keys leaves less to do, or the same.
PushDelivers(s) ==
  /\ push[s] = "deliver"
  /\ \/ "control" \in Messages[s] /\ control' = control \cup ({s} \cap active)
     \/ "quiet" \in Messages[s] /\ control' \in {control, control \ {s}}
  /\ PushAt(s, "idle")
  /\ UNCHANGED <<lease, retained, active, inPipeline, worker, closer>>

-----------------------------------------------------------------------------
(* close_session, on a thread of its own.                                  *)

\* The session is made inactive and deactivated (the message "stop" does the
\* same in two steps); then close_session waits for the worker.
CloseBegins(s) ==
  /\ "close" \in Events[s] /\ closer[s] = "idle" /\ s \in retained
  /\ Inactive(s)
  /\ lease' = Deactivate(lease, s)
  /\ CloseAt(s, "join")
  /\ UNCHANGED <<retained, inPipeline, worker, push>>

\* The wait for the worker times out: the cleanup is left to it.
CloseGivesUp(s) ==
  /\ closer[s] = "join" /\ worker[s] \notin {"idle", "gone"}
  /\ CloseAt(s, "idle")
  /\ UNCHANGED <<lease, retained, active, control, inPipeline, worker, push>>

\* There is no worker (any more): close_session cleans up what is left.
CloseReleases(s) ==
  /\ closer[s] = "join" /\ worker[s] \in {"idle", "gone"}
  /\ \/ /\ ReleaseGeneration(s)
        /\ lease' = Release(lease, s)
        /\ retained' = retained \ {s}
        /\ GoTo(s, "gone")
     \/ /\ ReleaseRaises(s)
        /\ UNCHANGED <<lease, retained, worker>>
  /\ CloseAt(s, "idle")
  /\ UNCHANGED <<active, push>>

-----------------------------------------------------------------------------
\* The idle timeout of a session passes; it is only looked at in the holder.
Expires(s) ==
  /\ lease.holder = s \/ lease.status[s] = "queued"
  /\ lease' = [lease EXCEPT !.stale[s] = TRUE]
  /\ UNCHANGED <<retained, active, control, inPipeline, worker, push, closer>>

Works(s) ==
  \/ PullChunks(s) \/ TakeControl(s) \/ YieldIdle(s) \/ WaitForTurn(s)
  \/ Begin(s) \/ Submit(s) \/ SubmitFails(s) \/ ChunkDone(s) \/ LoopEnds(s)
  \/ Leave(s) \/ Cleanup(s) \/ End(s)

PushGoesOn(s) ==
  PushDeactivates(s) \/ PushRecords(s) \/ PushDelivers(s)

CloseGoesOn(s) == CloseGivesUp(s) \/ CloseReleases(s)

Next ==
  \E s \in Sessions :
    \/ CreateSession(s) \/ Works(s) \/ LoopFails(s)
    \/ PushBegins(s) \/ PushGoesOn(s)
    \/ CloseBegins(s) \/ CloseGoesOn(s)
    \/ Expires(s)

Spec == Init /\ [][Next]_vars

\* The worker threads go on and the pipeline answers; a push that has made a
\* session inactive goes on to deactivate it.  Clients owe nothing, but every
\* session is pulled; nothing has to fail, to expire or to be closed.
FairSpec ==
  Spec /\ \A s \in Sessions : WF_vars(Works(s)) /\ WF_vars(PushDeactivates(s))

TypeOK ==
  /\ lease \in LeaseStates
  /\ retained \in SUBSET Sessions /\ active \in SUBSET Sessions
  /\ control \in SUBSET Sessions /\ inPipeline \in SUBSET Sessions
  /\ worker \in [Sessions -> Places]
  /\ push \in [Sessions -> PushPlaces]
  /\ closer \in [Sessions -> ClosePlaces]

-----------------------------------------------------------------------------
Executes(s) ==
  \/ worker[s] \in {"prepare", "chunk"}
  \/ s \in inPipeline /\ worker[s] \in {"leave", "cleanup"}

\* At most one session at a time creates its runtime or has a chunk in the
\* pipeline, from begin_chunk to the end of its cleanup, whatever other threads
\* push, stop, close, park or release in between.
ChunksExclusive ==
  \A s, t \in Sessions : Executes(s) /\ Executes(t) => s = t

\* The lease is never free, or with a session the manager forgot, while another
\* session queues for it; and a chunk reservation is never left behind by a
\* worker that does not work on it any more.
LeaseIsUsable ==
  /\ lease.queue # << >> =>
       lease.holder # NoSession /\ lease.status[lease.holder] \in {"active", "closing"}
  /\ \A s \in Sessions : lease.busy[s] =>
       worker[s] \in {"prepare", "chunk", "leave", "cleanup"}

\* The holder is idle for its timeout while another session queues.
IdleHolder(s) == lease.holder = s /\ lease.stale[s] /\ lease.queue # << >>

\* A holder that was granted the lease after it queued must run a chunk first,
\* but it was not queued for a control: nothing is left for it to run.
NothingToRun(s) == At(s, "select") /\ ~lease.ran[s] /\ s \notin control

\* push_chunk registered the session again after its worker had released it.
Ghost(s) == At(s, "gone")

\* yield_if_idle, finish_chunk, record_activity: a holder that is idle while
\* another session queues gives up the lease, or it is renewed, except for two
\* kinds of holder that can never run a chunk.
HolderYields ==
  \A s \in Sessions : IdleHolder(s) ~> ~IdleHolder(s) \/ NothingToRun(s) \/ Ghost(s)

\* The session was deactivated, and then the lease it held was parked for another
\* session (a push that came late may have queued it again): its worker waits for
\* a turn, and nothing ends the wait.
ClosingMarkLost(s) ==
  /\ s \notin active /\ push[s] # "deactivate"
  /\ At(s, "turn") /\ lease.status[s] \in {"parked", "queued"}

\* deactivate wakes wait_for_turn: a session that is stopped, closed or failed
\* leaves the table, whatever its worker waits for, unless record_activity of
\* another session overwrote its closing mark.
SessionsLeave ==
  \A s \in Sessions :
    s \in retained \ active ~> s \notin retained \/ ClosingMarkLost(s)
=============================================================================
