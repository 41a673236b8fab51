--------------------------- MODULE LiveKitServing ---------------------------
(***************************************************************************)
(* LiveKit sessions from admission to their end: LiveKitServeRuntime       *)
(* (telefuser/service/livekit/runtime.py) over LiveKitScheduler, the       *)
(* session registry, the in-process worker pool with its runners           *)
(* (worker_pool.py, multi_session_worker.py, worker.py) and the ownership  *)
(* of model state that TurboServe moves (pipeline_router.py,               *)
(* turboserve.py).                                                         *)
(*                                                                         *)
(* One event loop runs the request handlers, the reaper, the control loop  *)
(* and the runners: an action is the code between two awaits of one of     *)
(* them.  Two things run in threads: a migration's transfer and the close  *)
(* of a pipeline session.                                                  *)
(*                                                                         *)
(* A runner ends by itself, fails or obeys a stop request at any time, so  *)
(* the request is not modelled.  Placement decisions are arbitrary.        *)
(***************************************************************************)
EXTENDS LiveKitScheduler

CONSTANT Deleters      \* concurrent DELETE handlers

VARIABLES
  sched,        \* the scheduler
  rec,          \* the registry: status and worker of each session
  finished,     \* _finished_sessions
  expiring,     \* _expiring_sessions
  runner,       \* the runner task of each session
  transport,    \* the worker each runner joined its room with
  started,      \* workers whose run_session accepts runners
  route,        \* the router: the worker that holds a session's model state
  copies,       \* model states the workers' pipelines hold
  control,      \* the control loop: its migration or scale-in
  stopper       \* the DELETE handlers and the reaper

runnerVars == <<runner, transport>>
modelVars == <<route, copies>>
vars == <<sched, rec, finished, expiring, runnerVars, started, modelVars, control, stopper>>

Reaper == "reaper"
Stoppers == Deleters \cup {Reaper}
TerminalStatus == {"closed", "failed", "expired"}
SessionStatus == {"none", "queued", "assigned", "joining", "running", "draining"}
                   \cup TerminalStatus
Closing == {"closing", "failing", "cancelling"}
Inside == {"joining", "running"} \cup Closing   \* in the worker's _sessions
Done == {"returned", "raised", "cancelled"}
RunnerStates == {"none", "created"} \cup Inside \cup Done

Quiet == [at |-> "idle", session |-> NoSession, source |-> NoWorker, target |-> NoWorker]
NoStop == [at |-> "idle", session |-> NoSession]

Init ==
  /\ sched = NewScheduler
  /\ rec = [s \in Sessions |-> [status |-> "none", worker |-> NoWorker]]
  /\ finished = {} /\ expiring = {}
  /\ runner = [s \in Sessions |-> "none"]
  /\ transport = [s \in Sessions |-> NoWorker]
  /\ started = Workers
  /\ route = [s \in Sessions |-> NoWorker]
  /\ copies = {}
  /\ control = Quiet
  /\ stopper = [d \in Stoppers |-> NoStop]

Ended(s) == rec[s].status \in TerminalStatus
Shown(s, status) ==
  IF Ended(s) THEN rec ELSE [rec EXCEPT ![s].status = status]

\* Tasks are created for the sessions that got a slot, each on its worker.
StartAll(S, next, records, runners) ==
  /\ sched' = next
  /\ rec' = [s \in Sessions |-> IF s \in S THEN [status |-> "assigned", worker |-> Owner(next, s)]
                                           ELSE records[s]]
  /\ runner' = [s \in Sessions |-> IF s \in S THEN "created" ELSE runners[s]]
  /\ transport' = [s \in Sessions |-> IF s \in S THEN Owner(next, s) ELSE transport[s]]

Admitted(next) == {s \in Sessions : Owner(sched, s) = NoWorker /\ Owner(next, s) # NoWorker}

-----------------------------------------------------------------------------
(* create_session.                                                         *)
CreateSession(s) ==
  LET next == Assign(sched, s)
  IN  /\ rec[s].status = "none" /\ \A r \in 1 .. s - 1 : rec[r].status # "none"
      /\ CanAssign(sched)
      /\ IF Admitted(next) # {}
           THEN StartAll({s}, next, rec, runner)
           ELSE /\ sched' = next
                /\ rec' = [rec EXCEPT ![s].status = "queued"]
                /\ UNCHANGED runnerVars
      /\ UNCHANGED <<finished, expiring, started, modelVars, control, stopper>>

(* _finish_session, once per session: the final status, the slot, and the  *)
(* queued session that gets it.  `runners' is the state its caller leaves. *)
FinishSession(s, how, runners) ==
  LET status == IF s \in expiring THEN "expired" ELSE how
      records == Shown(s, status)
      next == Release(sched, s)
  IN  IF s \in finished
        THEN /\ runner' = runners
             /\ UNCHANGED <<sched, rec, finished, transport>>
        ELSE /\ finished' = finished \cup {s}
             /\ StartAll(Admitted(next), next, records, runners)

-----------------------------------------------------------------------------
(* Runners.                                                                *)
InsideOf(w) == {s \in Sessions : runner[s] \in Inside /\ transport[s] = w}
Refused(s) ==
  transport[s] \notin started \/ Cardinality(InsideOf(transport[s])) >= Capacity

\* run_session refuses: the task ends with an exception that is only logged.
RunnerRefused(s) ==
  /\ runner[s] = "created" /\ Refused(s)
  /\ runner' = [runner EXCEPT ![s] = "raised"]
  /\ UNCHANGED <<sched, rec, finished, expiring, transport, started, modelVars, control, stopper>>

RunnerBegins(s) ==
  /\ runner[s] = "created" /\ ~Refused(s)
  /\ runner' = [runner EXCEPT ![s] = "joining"]
  /\ rec' = Shown(s, "joining")
  /\ UNCHANGED <<sched, finished, expiring, transport, started, modelVars, control, stopper>>

\* The controller is there: the pipeline session is created and streamed.
RunnerStreams(s) ==
  /\ runner[s] = "joining"
  /\ runner' = [runner EXCEPT ![s] = "running"]
  /\ rec' = Shown(s, "running")
  /\ route' = [route EXCEPT ![s] = transport[s]]
  /\ copies' = copies \cup {<<s, transport[s]>>}
  /\ UNCHANGED <<sched, finished, expiring, transport, started, control, stopper>>

\* The stream is over, was stopped, or failed.
RunnerEnds(s, failed) ==
  /\ runner[s] = "running" \/ (runner[s] = "joining" /\ failed)
  /\ runner' = [runner EXCEPT ![s] = IF failed THEN "failing" ELSE "closing"]
  /\ rec' = IF failed THEN Shown(s, "failed") ELSE rec
  /\ UNCHANGED <<sched, finished, expiring, transport, started, modelVars, control, stopper>>

\* router.close_session, in a thread: the route goes, and the state with it.
PipelineCloses(s) ==
  /\ runner[s] \in Closing \cup {"cancelled"} /\ route[s] # NoWorker
  /\ route' = [route EXCEPT ![s] = NoWorker]
  /\ copies' = copies \ {<<s, route[s]>>}
  /\ UNCHANGED <<sched, rec, finished, expiring, runnerVars, started, control, stopper>>

\* on_session_finished, then the worker forgets the runner.
RunnerFinishes(s) ==
  /\ runner[s] \in Closing /\ route[s] = NoWorker
  /\ FinishSession(s, IF runner[s] = "failing" THEN "failed" ELSE "closed",
                   [runner EXCEPT ![s] = IF @ = "cancelling" THEN "cancelled" ELSE "returned"])
  /\ UNCHANGED <<expiring, started, modelVars, control, stopper>>

-----------------------------------------------------------------------------
(* DELETE and the reaper: drain, stop_session, finish.                     *)
Begin(d, s) == stopper' = [stopper EXCEPT ![d] = [at |-> "waiting", session |-> s]]
Leave(d) == stopper' = [stopper EXCEPT ![d] = NoStop]
TaskOver(s) == runner[s] \in Done \cup {"none"}
How(d) == IF d = Reaper THEN "expired" ELSE "closed"

\* Without a task there is nothing to wait for and the session ends at once.
StopIdle(d, s) ==
  /\ stopper[d].at = "idle" /\ rec[s].status # "none" /\ ~Ended(s)
  /\ TaskOver(s)
  /\ FinishSession(s, How(d), runner)
  /\ UNCHANGED <<expiring, started, modelVars, control, stopper>>

StopBegins(d, s) ==
  /\ stopper[d].at = "idle" /\ ~Ended(s) /\ ~TaskOver(s)
  /\ rec' = [rec EXCEPT ![s].status = "draining"]
  /\ expiring' = IF d = Reaper THEN expiring \cup {s} ELSE expiring
  /\ Begin(d, s)
  /\ UNCHANGED <<sched, finished, runnerVars, started, modelVars, control>>

\* The runner's task is over, with its result, or by the stopper's own cancellation.
StopEnds(d) ==
  LET s == stopper[d].session
  IN  /\ \/ stopper[d].at = "waiting" /\ runner[s] = "returned"
         \/ stopper[d].at = "cancelling" /\ runner[s] = "cancelled"
      /\ FinishSession(s, How(d), runner)
      /\ expiring' = IF d = Reaper THEN expiring \ {s} ELSE expiring
      /\ Leave(d)
      /\ UNCHANGED <<started, modelVars, control>>

\* Mutant: the reaper lets the exception of the runner's task through.
M_StopRaisesThrough(d) ==
  /\ stopper[d].at = "waiting" /\ runner[stopper[d].session] = "raised"
  /\ stopper' = [stopper EXCEPT ![d].at = "lost"]
  /\ UNCHANGED <<sched, rec, finished, runnerVars, expiring, started, modelVars, control>>

\* The task raised: the reaper suppresses it, a DELETE fails with it and the
\* session stays `draining'.
StopRaises(d) ==
  LET s == stopper[d].session
  IN  /\ stopper[d].at = "waiting" /\ runner[s] = "raised"
      /\ IF d = Reaper THEN FinishSession(s, "expired", runner)
                       ELSE UNCHANGED <<sched, rec, finished, runnerVars>>
      /\ expiring' = IF d = Reaper THEN expiring \ {s} ELSE expiring
      /\ Leave(d)
      /\ UNCHANGED <<started, modelVars, control>>

\* The task was cancelled by the other stopper: CancelledError leaves the wait.
\* A DELETE ends with it; the reaper's loop takes it for its own cancellation
\* and ends for good.
StopCancelled(d) ==
  LET s == stopper[d].session
  IN  /\ stopper[d].at = "waiting" /\ runner[s] = "cancelled"
      /\ stopper' = [stopper EXCEPT ![d] = [at |-> IF d = Reaper THEN "dead" ELSE "idle",
                                            session |-> NoSession]]
      /\ expiring' = IF d = Reaper THEN expiring \ {s} ELSE expiring
      /\ UNCHANGED <<sched, rec, finished, runnerVars, started, modelVars, control>>

\* A cancellation reaches the runner: it closes, or what it was closing with is
\* cut short and on_session_finished is not called.
Cancel(s) ==
  runner' = [runner EXCEPT ![s] = IF @ \in Closing THEN "cancelled" ELSE "cancelling"]

\* 8 s without an end: the stopper cancels the task.
StopGrace(d) ==
  LET s == stopper[d].session
  IN  /\ stopper[d].at = "waiting" /\ runner[s] \in Inside
      /\ Cancel(s)
      /\ stopper' = [stopper EXCEPT ![d].at = "cancelling"]
      /\ UNCHANGED <<sched, rec, finished, expiring, transport, started, modelVars, control>>

\* 1 s more: it is cancelled again.
StopAgain(d) ==
  LET s == stopper[d].session
  IN  /\ stopper[d].at = "cancelling" /\ runner[s] \in Inside
      /\ Cancel(s)
      /\ UNCHANGED <<sched, rec, finished, expiring, transport, started, modelVars, control,
                     stopper>>

-----------------------------------------------------------------------------
(* migrate_session: the checks and the prepared ownership, the transfer,   *)
(* the commit, and the loop's part afterwards.  Only the checks and the    *)
(* last step run on the event loop.                                        *)
MoveBegins(s, target) ==
  /\ control = Quiet
  /\ ~Ended(s) /\ route[s] # NoWorker /\ target \in sched.up \ {route[s]}
  /\ target # rec[s].worker => Load(sched, target) < Capacity
  /\ control' = [at |-> "prepared", session |-> s, source |-> route[s], target |-> target]
  /\ UNCHANGED <<sched, rec, finished, expiring, runnerVars, started, modelVars, stopper>>

MoveImports ==
  /\ control.at = "prepared" /\ <<control.session, control.source>> \in copies
  /\ copies' = copies \cup {<<control.session, control.target>>}
  /\ control' = [control EXCEPT !.at = "imported"]
  /\ UNCHANGED <<sched, rec, finished, expiring, runnerVars, started, route, stopper>>

\* The transfer fails, as it must when the session was closed: nothing moved.
MoveFails ==
  /\ control.at = "prepared"
  /\ control' = Quiet
  /\ UNCHANGED <<sched, rec, finished, expiring, runnerVars, started, modelVars, stopper>>

\* The route moves.  A session that was closed meanwhile has no ownership to
\* commit: the exception leaves its copy on the target.
MoveCommits ==
  LET s == control.session
  IN  /\ control.at = "imported"
      /\ IF route[s] = NoWorker
           THEN control' = Quiet /\ UNCHANGED modelVars
           ELSE /\ route' = [route EXCEPT ![s] = control.target]
                /\ copies' = copies \ {<<s, control.source>>}
                /\ control' = [control EXCEPT !.at = "committed"]
      /\ UNCHANGED <<sched, rec, finished, expiring, runnerVars, started, stopper>>

\* Mutant: the registry is not told.
M_MoveEndsSilently ==
  LET s == control.session
  IN  /\ control.at = "committed"
      /\ control' = Quiet
      /\ sched' = IF CanReassign(sched, s, control.target)
                    THEN Reassign(sched, s, control.target) ELSE sched
      /\ UNCHANGED <<rec, finished, expiring, runnerVars, started, modelVars, stopper>>

\* The scheduler and the registry follow, unless the scheduler refuses because
\* the session is gone or the target full or stopped by now.
MoveEnds ==
  LET s == control.session
      t == control.target
  IN  /\ control.at = "committed"
      /\ control' = Quiet
      /\ IF CanReassign(sched, s, t)
           THEN /\ sched' = Reassign(sched, s, t)
                /\ rec' = [rec EXCEPT ![s] = [status |-> "assigned", worker |-> t]]
           ELSE UNCHANGED <<sched, rec>>
      /\ UNCHANGED <<finished, expiring, runnerVars, started, modelVars, stopper>>

-----------------------------------------------------------------------------
(* scale_to: a worker is loaded and the queue drained, or the last idle    *)
(* one is stopped.                                                         *)
ScaleOut ==
  LET w == CHOOSE w \in Workers \ sched.up : \A v \in Workers \ sched.up : w <= v
      loaded == [sched EXCEPT !.up = @ \cup {w}]
  IN  /\ control = Quiet /\ sched.up # Workers
      /\ started' = started \cup {w}
      /\ \E n \in 0 .. Len(sched.queue) : \E given \in [1 .. n -> Workers] :
           LET next == GiveEach(loaded, given, n)
           IN  Drains(loaded, given, n) /\ StartAll(Admitted(next), next, rec, runner)
      /\ UNCHANGED <<finished, expiring, modelVars, control, stopper>>

Busy(w) == \E s \in Sessions : \/ transport[s] = w /\ ~TaskOver(s)
                               \/ route[s] = w

\* worker.stop refuses runners at once, but the scheduler learns of it later.
ScaleInBegins ==
  LET idle == {w \in sched.up : ~Busy(w)}
      w == CHOOSE w \in idle : \A v \in idle : v <= w
  IN  /\ control = Quiet /\ Cardinality(sched.up) > 1 /\ idle # {}
      /\ started' = started \ {w}
      /\ control' = [Quiet EXCEPT !.at = "stopping", !.target = w]
      /\ UNCHANGED <<sched, rec, finished, expiring, runnerVars, modelVars, stopper>>

ScaleInEnds ==
  /\ control.at = "stopping"
  /\ sched' = [sched EXCEPT !.up = @ \ {control.target}]
  /\ control' = Quiet
  /\ UNCHANGED <<rec, finished, expiring, runnerVars, started, modelVars, stopper>>

-----------------------------------------------------------------------------
Runner(s) == RunnerRefused(s) \/ RunnerBegins(s) \/ RunnerFinishes(s) \/ PipelineCloses(s)
Stop(d) == StopEnds(d) \/ StopRaises(d) \/ StopCancelled(d) \/ StopGrace(d) \/ StopAgain(d)
Request(d, s) == StopIdle(d, s) \/ StopBegins(d, s)
Control == \/ MoveImports \/ MoveFails \/ MoveCommits \/ MoveEnds
           \/ ScaleOut \/ ScaleInBegins \/ ScaleInEnds

Next ==
  \/ \E s \in Sessions : CreateSession(s) \/ Runner(s) \/ RunnerStreams(s)
  \/ \E s \in Sessions, failed \in BOOLEAN : RunnerEnds(s, failed)
  \/ \E d \in Stoppers : Stop(d) \/ \E s \in Sessions : Request(d, s)
  \/ \E s \in Sessions, t \in Workers : MoveBegins(s, t)
  \/ Control

Spec == Init /\ [][Next]_vars

(* The event loop runs on and its timeouts elapse; every session has a     *)
(* lifetime (session_timeout), after which the reaper takes it up.  No     *)
(* controller has to come, no stream to end, no client to delete.          *)
FairSpec ==
  /\ Spec
  /\ \A s \in Sessions : WF_vars(Runner(s)) /\ SF_vars(Request(Reaper, s))
  /\ \A d \in Stoppers : WF_vars(Stop(d))

-----------------------------------------------------------------------------
Records == [status : SessionStatus, worker : Workers \cup {NoWorker}]
Moving == {"prepared", "imported", "committed"}

ServingTypes ==
  /\ sched \in SchedStates
  /\ rec \in [Sessions -> Records]
  /\ finished \in SUBSET Sessions
  /\ runner \in [Sessions -> RunnerStates]
  /\ transport \in [Sessions -> Workers \cup {NoWorker}]
  /\ started \in SUBSET Workers
  /\ route \in [Sessions -> Workers \cup {NoWorker}]
  /\ copies \in SUBSET (Sessions \X Workers)
  /\ control \in [at : {"idle", "stopping"} \cup Moving, session : Sessions \cup {NoSession},
                  source : Workers \cup {NoWorker}, target : Workers \cup {NoWorker}]

StopperTypes ==
  /\ expiring \in SUBSET Sessions
  /\ stopper \in [Stoppers -> [at : {"idle", "waiting", "cancelling", "dead"},
                               session : Sessions \cup {NoSession}]]

TypeOK == ServingTypes /\ StopperTypes

Place(s) == {w \in Workers : s \in sched.slots[w]}
Queued(s) == {i \in 1 .. Len(sched.queue) : sched.queue[i] = s}

(* A session that was admitted and has not ended holds one slot or one     *)
(* place in the queue, and one that has ended holds neither, whichever of  *)
(* its runner, DELETE, the reaper or a migration came first.               *)
OnePlace ==
  \A s \in Sessions :
    Cardinality(Place(s)) + Cardinality(Queued(s)) =
      IF rec[s].status = "none" \/ s \in finished THEN 0 ELSE 1

(* The registry and the scheduler name the same worker for a session, and  *)
(* its model state is where the router sends its chunks: nowhere else,     *)
(* but for the copy a migration under way has made.                        *)
OwnersAgree ==
  \A s \in Sessions :
    /\ s \notin finished => Owner(sched, s) = rec[s].worker
    /\ route[s] # NoWorker =>
         {w \in Workers : <<s, w>> \in copies} =
           {route[s]} \cup (IF control.at = "imported" /\ control.session = s
                              THEN {control.target} ELSE {})

(* A worker refuses the runner of a session the scheduler gave it a slot   *)
(* of only while it is being stopped, or because it still runs the room of *)
(* a session that left its slot: one that was migrated away or whose       *)
(* cleanup goes on after it was finished.                                  *)
RefusalHasCause ==
  [][\A s \in Sessions :
       runner[s] = "created" /\ runner'[s] = "raised" =>
         \/ transport[s] \notin started
         \/ \E r \in InsideOf(transport[s]) : r \notin sched.slots[transport[s]]]_vars

(* Every session ends: its runner, a DELETE or its lifetime finishes it,   *)
(* and one whose runner was refused is reclaimed - unless the reaper died. *)
SessionsEnd ==
  \A s \in Sessions : (rec[s].status # "none") ~> (s \in finished \/ stopper[Reaper].at = "dead")

(* What the documentation says of session_timeout: the reaper enforces it, *)
(* so the reaper is there as long as the runtime is.                       *)
ReaperSurvives == stopper[Reaper].at # "dead"
=============================================================================
