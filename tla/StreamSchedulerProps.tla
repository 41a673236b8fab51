------------------------- MODULE StreamSchedulerProps -------------------------
(***************************************************************************)
(* What StreamingPipelineOrchestrator owes its callers: invariants over    *)
(* the scheduler's tables and the actors' mailboxes, and the liveness      *)
(* properties under the fairness of its threads.                           *)
(***************************************************************************)
EXTENDS StreamScheduler

Statuses == {"none", "running", "cancelled", "failed", "closed"}
Phases == {"open", "sessions", "join", "actors", "done"}
Pumps == [active : BOOLEAN, left : Nat, progress : BOOLEAN,
          last : SUBSET (Runtimes \X Stages \X SeqIds)]

TableTypes ==
    /\ epoch \in 0 .. MaxEpoch
    /\ sessions \in [Sessions -> 0 .. MaxEpoch]
    /\ order \in Seq(Sessions)
    /\ owner \in [Runtimes -> Sessions \cup {NoSession}]

FlowTypes ==
    /\ final \in [Runtimes -> {Open} \cup SeqIds]
    /\ frontier \in [Runtimes -> [Stages -> Nat]]
    /\ slots \in [Runtimes -> SUBSET (SeqIds \X Artifacts \X Stages)]
    /\ inFlight \in [Runtimes -> SUBSET (Stages \X SeqIds)]
    /\ admitted \in [Runtimes -> SUBSET (Stages \X SeqIds)]
    /\ pending \in [Runtimes -> SUBSET (SeqIds \X Artifacts)]
    /\ outputs \in [Runtimes -> Seq(Nat)]
    /\ nextEmit \in [Runtimes -> Nat]

LifeTypes ==
    /\ status \in [Runtimes -> Statuses]
    /\ scheduled \in [Runtimes -> BOOLEAN]
    /\ failedQueue \subseteq Runtimes

CleanTypes ==
    /\ complete \in [Runtimes -> BOOLEAN]
    /\ cleanupError \in [Runtimes -> BOOLEAN]
    /\ cleaned \in [Runtimes -> SUBSET Stages]
    /\ calls \in [Runtimes -> SUBSET Callers]
    /\ pass \in [Runtimes -> Passes]
    /\ deleting \subseteq Runtimes

ActorTypes ==
    /\ queue \in [Stages -> Seq(Messages)]
    /\ busy \in [Stages -> BOOLEAN]
    /\ health \in [Stages -> {"running", "failed", "closed"}]

\* While close() goes through the sessions and the failed cleanups its work
\* list holds runtimes, then it holds stages.
ControlTypes ==
    /\ shutdown \in [phase : Phases, todo : SUBSET (Runtimes \cup Stages)]
    /\ shutdown.phase \in {"sessions", "join"} => shutdown.todo \subseteq Runtimes
    /\ pump \in Pumps
    /\ anomalies \in [{"stale", "orphaned"} -> Nat]

\* Every field has the type _SessionRuntime and the orchestrator declare for it.
TypeOK == TableTypes /\ FlowTypes /\ LifeTypes /\ CleanTypes /\ ActorTypes /\ ControlTypes

--------------------------------------------------------------------------------
(* Dataflow.                                                               *)

Invocations(st) == {i \in DOMAIN queue[st] : queue[st][i].kind = "run"}
Done(r) == admitted[r] \ inFlight[r]

\* No edge and no output queue of a session ever exceeds its capacity, the
\* artifacts that invocations in flight will still produce included
\* (_edge_occupancy, _reserved_artifact_count, _has_output_capacity).
EdgesWithinCapacity ==
    \A r \in Runtimes :
        /\ \A e \in Edges :
             EdgeOccupancy(r, e) + (IF e.source = External THEN 0 ELSE Reserved(r, e.artifact))
               <= e.capacity
        /\ \A a \in OutputArtifacts :
             OutputOccupancy(r, a) + Reserved(r, a) <= OutputCapacity

\* Over all sessions, the invocations the actors really hold stay within
\* max_in_flight_global of their stage and max_concurrency of their group.
StagesWithinLimits ==
    /\ \A st \in Stages : Cardinality(Invocations(st)) <= Global[st]
    /\ \A g \in Groups :
         Cardinality(UNION {{st} \X Invocations(st) : st \in {x \in Stages : GroupOf[x] = g}})
           <= GroupLimit[g]

\* The pump admits nothing that breaks a limit, although capacity depends on what
\* is still in flight and the tables it counts are per session.
LimitsRespected == EdgesWithinCapacity /\ StagesWithinLimits

\* A PER_SESSION_STRICT stage is given the sequences of a session one by one,
\* from 0, without a gap, the next one only when the last one is resolved.
StrictStageOrder ==
    \A r \in Runtimes, st \in Strict :
        LET seqs == {q \in SeqIds : <<st, q>> \in admitted[r]}
            f == frontier[r][st]
        IN  /\ seqs \in {0 .. f - 1, 0 .. f}
            /\ \A q \in SeqIds : <<st, q>> \in inFlight[r] => q = f
            /\ status[r] = "running" => (f \in seqs <=> <<st, f>> \in inFlight[r])
            /\ Cardinality({i \in Invocations(st) : queue[st][i].runtime = r}) <= 1

\* A stage that produces a was given sequence q of runtime r.
Worked(r, q, a) == \E st \in Stages : a \in Produces[st] /\ <<st, q>> \in admitted[r]

\* What poll_outputs returns over time is 0, 1, 2, ..., whatever the order of
\* the results: the queue holds the consecutive sequences that end just before
\* next_emit_sequence, and no artifact is emitted that no stage worked on.
OutputsInOrder ==
    \A r \in Runtimes :
        /\ Len(outputs[r]) <= nextEmit[r]
        /\ \A i \in DOMAIN outputs[r] : outputs[r][i] = nextEmit[r] - Len(outputs[r]) + i - 1
        /\ \A q \in 0 .. nextEmit[r] - 1 : \A a \in OutputArtifacts : Worked(r, q, a)

\* What stage e.source delivered is in the slot of its consumer or was taken.
EdgeConserved(r, e) ==
    \A q \in SeqIds :
        LET inSlot == <<q, e.artifact, e.target>> \in slots[r]
            taken == <<e.target, q>> \in admitted[r]
        IN  /\ <<e.source, q>> \in Done(r) <=> inSlot \/ taken
            /\ ~(inSlot /\ taken)

\* An output that stage st delivered is pending or was emitted.
OutputConserved(r, st, a) ==
    \A q \in SeqIds :
        LET held == <<q, a>> \in pending[r]
            emitted == q < nextEmit[r]
        IN  /\ <<st, q>> \in Done(r) <=> held \/ emitted
            /\ ~(held /\ emitted)

Conserved(r) ==
    /\ \A e \in Edges : e.source \in Stages => EdgeConserved(r, e)
    /\ \A st \in Stages : \A a \in Produces[st] \cap OutputArtifacts : OutputConserved(r, st, a)

\* In a running session whose stages are all strict, an artifact its producer
\* delivered is in exactly one place: in the slot of each consumer or consumed
\* by it, and, for an output, pending or emitted.  Nothing is consumed twice,
\* lost by a restored admission or consumed before it exists.
ArtifactsConserved == \A r \in Runtimes : status[r] = "running" => Conserved(r)

\* The is_last flag of an invocation an actor holds is right: finish_inputs
\* cannot declare the sequence final once a stage has been given it.
LastFlagRight ==
    \A st \in Stages : \A i \in Invocations(st) :
        LET m == queue[st][i]
        IN  m.last <=> final[m.runtime] = m.seq

\* No lost wakeup: when no thread has anything left to do, no running session
\* has a task that could be admitted (what barrier and wait_until_idle wait for).
Quiescent ==
    /\ LockFree
    /\ \A st \in Stages : queue[st] = << >>
    /\ \A r \in Runtimes : calls[r] = {} /\ pass[r].phase = "idle"
    /\ deleting = {} /\ failedQueue = {}

NothingStranded ==
    Quiescent => \A r \in Running, st \in Stages : ~Admissible(r, st)

--------------------------------------------------------------------------------
(* Session lifecycle.                                                      *)

\* The actor of stage t[1] holds the invocation of sequence t[2] of runtime r.
Held(t, r) ==
    \E i \in Invocations(t[1]) : queue[t[1]][i].runtime = r /\ queue[t[1]][i].seq = t[2]

\* Until close() forgets the sessions, the scheduler and the actors agree: each
\* invocation in flight is held by its actor, once, and each one an actor holds
\* belongs to the runtime its session still has and is in flight there.  So no
\* result is stale or orphaned, and none is lost.
ResultsMatch ==
    shutdown.phase # "done" =>
        /\ \A st \in Stages : \A i \in Invocations(st) :
             LET m == queue[st][i]
             IN  /\ Known(st, m)
                 /\ \A j \in Invocations(st) :
                      queue[st][j].runtime = m.runtime /\ queue[st][j].seq = m.seq => i = j
        /\ \A r \in Runtimes : \A t \in inFlight[r] : Held(t, r)
        /\ \A k \in {"stale", "orphaned"} : anomalies[k] = 0

\* The state a stage keeps for a session is never released under a running
\* invocation of that session: a release is only sent when none is left at any
\* stage, and none is admitted afterwards.
ReleaseAfterDrain ==
    \A st \in Stages, r \in Runtimes :
        (r \in {m.runtime : m \in {x \in Holding(st) : x.kind # "run"}} \/ st \in cleaned[r])
          => \A t \in Stages : \A i \in Invocations(t) : queue[t][i].runtime # r

\* Unless a closer failed or timed out, a stage is released after the stages it
\* feeds (reversed _topological_stage_ids).
ReleaseOrder ==
    \A st \in Stages, r \in Runtimes :
        CloseMsg(r) \in Holding(st) /\ ~pass[r].error
          => \A e \in Edges : e.source = st => e.target \in cleaned[r]

\* A session that ended holds no artifact slot and no output, however late the
\* results of its drained invocations arrive.
TerminalHoldsNothing ==
    \A r \in Runtimes : status[r] \in {"cancelled", "failed", "closed"} =>
        slots[r] = {} /\ pending[r] = {} /\ outputs[r] = << >>

\* A failed session whose invocations are all resolved has its cleanup queued.
FailedIsScheduled ==
    \A r \in Runtimes : status[r] = "failed" /\ inFlight[r] = {} => scheduled[r]

\* A cleanup that reports success released every stage, with nothing in flight.
CompleteMeansReleased ==
    \A r \in Runtimes : complete[r] =>
        cleaned[r] = Stages /\ inFlight[r] = {} /\ status[r] # "running"

--------------------------------------------------------------------------------
(* The inductive invariant behind ResultsMatch, ReleaseAfterDrain and       *)
(* CompleteMeansReleased.                                                  *)

Ended(r) == status[r] \in {"cancelled", "failed", "closed"}

CloseHeld(r) ==
    \E st \in Stages : \E i \in DOMAIN queue[st] :
        queue[st][i].kind # "run" /\ queue[st][i].runtime = r

\* A cleanup of r went past its drain.
Releasing(r) ==
    \/ pass[r].phase = "clean"
    \/ complete[r]
    \/ r \in deleting
    \/ cleaned[r] # {}
    \/ CloseHeld(r)

\* A cleanup of r is asked for, runs or ran.
Ending(r) ==
    \/ Releasing(r)
    \/ calls[r] # {}
    \/ pass[r].phase # "idle"
    \/ r \in failedQueue
    \/ shutdown.phase \in {"sessions", "join"} /\ r \in shutdown.todo

TablesInv ==
    /\ \A r \in Runtimes :
         IF r <= epoch THEN status[r] # "none" /\ owner[r] \in Sessions
                       ELSE status[r] = "none" /\ inFlight[r] = {}
    /\ \A s \in Sessions : sessions[s] # 0 =>
         status[sessions[s]] # "none" /\ owner[sessions[s]] = s

CleanupInv ==
    \A r \in Runtimes :
        /\ Ending(r) => Ended(r)
        /\ Releasing(r) => inFlight[r] = {}
        /\ complete[r] => cleaned[r] = Stages

MailboxInv ==
    \A st \in Stages : \A i \in Invocations(st) :
        /\ <<st, queue[st][i].seq>> \in inFlight[queue[st][i].runtime]
        /\ \A j \in Invocations(st) :
             queue[st][j].runtime = queue[st][i].runtime /\ queue[st][j].seq = queue[st][i].seq
               => i = j

FlightInv ==
    shutdown.phase # "done" =>
        /\ \A r \in Runtimes : inFlight[r] # {} => sessions[owner[r]] = r
        /\ \A r \in Runtimes : \A t \in inFlight[r] : Held(t, r)
        /\ \A k \in {"stale", "orphaned"} : anomalies[k] = 0

\* The epochs handed out are the runtimes that exist; a runtime whose cleanup
\* began has ended, and past the drain it has nothing in flight; in flight and
\* in a mailbox are the same invocations.
LifecycleInv == TablesInv /\ CleanupInv /\ MailboxInv /\ FlightInv

\* The inductive invariant behind ReleaseOrder: a stage not released is still to
\* do, unless a release failed, and the pass waits for the one it has sent, which
\* is for the next stage and in no mailbox twice.
ReleaseInv ==
    /\ \A r \in Runtimes :
         pass[r].phase = "clean" /\ ~pass[r].error => pass[r].todo \cup cleaned[r] = Stages
    /\ \A st \in Stages : \A i \in DOMAIN queue[st] : queue[st][i].kind = "close" =>
         LET r == queue[st][i].runtime
         IN  /\ queue[st][i] = CloseMsg(r)
             /\ pass[r].phase = "clean" /\ pass[r].sent /\ IsNext(st, pass[r].todo)
             /\ \A j \in DOMAIN queue[st] : queue[st][j] = CloseMsg(r) => i = j

--------------------------------------------------------------------------------
(* The inductive invariant behind OutputsInOrder and StrictStageOrder.     *)

\* What is pending was worked on, so what is emitted was too.
EmissionInv ==
    /\ OutputsInOrder
    /\ \A r \in Runtimes : inFlight[r] \subseteq admitted[r]
    /\ \A r \in Runtimes : \A t \in pending[r] : Worked(r, t[1], t[2])

\* StrictStageOrder without the mailbox, and for runtimes not yet created.
FrontierInv ==
    \A r \in Runtimes, st \in Strict :
        LET seqs == {q \in SeqIds : <<st, q>> \in admitted[r]}
            f == frontier[r][st]
        IN  /\ seqs \in {0 .. f - 1, 0 .. f}
            /\ \A q \in SeqIds : <<st, q>> \in inFlight[r] => q = f
            /\ ~Ended(r) => (f \in seqs <=> <<st, f>> \in inFlight[r])

--------------------------------------------------------------------------------
(* The inductive invariants behind LimitsRespected and ArtifactsConserved. *)

\* What is in flight, also at the runtimes close() has forgotten.
InFlightAt(T) == {x \in Runtimes \X (T \X SeqIds) : x[2] \in inFlight[x[1]]}

\* The limits hold for what is recorded in flight, which is what the actors may
\* hold; after close() no session is left that could be given anything.
LimitsInv ==
    /\ EdgesWithinCapacity
    /\ \A st \in Stages : Cardinality(InFlightAt({st})) <= Global[st]
    /\ \A g \in Groups :
         Cardinality(InFlightAt({st \in Stages : GroupOf[st] = g})) <= GroupLimit[g]
    /\ shutdown.phase = "done" => \A s \in Sessions : sessions[s] = 0

\* ArtifactsConserved, and for runtimes not yet created.
ConservedInv == \A r \in Runtimes : ~Ended(r) => Conserved(r)

--------------------------------------------------------------------------------
(* The inductive invariant behind NothingStranded.                         *)

\* No cleanup has sent a close message yet.
OnlyInvocations ==
    \A st \in Stages : \A i \in DOMAIN queue[st] : queue[st][i].kind = "run"

\* What the session could be given waits for an invocation its stage holds, the
\* completion of which pumps again.
Served(s) ==
    sessions[s] \in Running =>
        \A st \in Stages : Admissible(sessions[s], st) => queue[st] # << >>

\* Between pumps every session is served; in a round that has admitted nothing
\* so far, those whose turn is over are, which _session_order has last.
WakeInv ==
    /\ \A s \in Sessions : sessions[s] # 0 => \E i \in DOMAIN order : order[i] = s
    /\ \A r \in Runtimes : status[r] = "none" => slots[r] = {}
    /\ ~pump.active => \A s \in Sessions : Served(s)
    /\ pump.active /\ ~pump.progress =>
         \A i \in DOMAIN order : i > pump.left => Served(order[i])

--------------------------------------------------------------------------------
(* Liveness.  A thread that wants the lock gets it eventually, since it is  *)
(* released after each pump: strong fairness.  Handlers and session closers *)
(* return.  A client that polls goes on polling.                            *)

ActorFairness == WF_vars(PumpTurn) /\ \A st \in Stages : SF_vars(Actor(st))
ClientFairness == \A s \in Sessions : SF_vars(PollOutputs(s))

HolderStep(r) ==
    \/ Drained(r) \/ DrainTimeout(r)
    \/ \E st \in Stages : SendClose(r, st) \/ CloseRefused(r, st)
    \/ StageTimeout(r) \/ EndPass(r)

CleanupFairness ==
    /\ \A r \in Runtimes :
         /\ SF_vars(HolderStep(r))
         /\ \A by \in {"failed", "shutdown"} :
              SF_vars(AcquireCleanup(r, by) \/ LockTimeout(r, by))
         /\ WF_vars(TakeFailed(r))
    /\ SF_vars(Shutdown)

FlowSpec == Spec /\ ActorFairness /\ ClientFairness
LifeSpec == Spec /\ ActorFairness /\ CleanupFairness

\* The inputs of sequence q from outside have all been accepted.
Accepted(r, q) ==
    \A e \in Edges : e.source = External =>
        <<q, e.artifact, e.target>> \in slots[r] \/ <<e.target, q>> \in admitted[r]

\* If the inputs of sequences 0 to q are accepted, output q is emitted unless
\* the session ends, whatever the other sessions do.
EveryItemIsEmitted ==
    \A r \in Runtimes, q \in SeqIds :
        (\A p \in 0 .. q : Accepted(r, p)) /\ status[r] = "running"
          ~> nextEmit[r] > q \/ status[r] # "running"

\* A failed session is cleaned, or the failure of its cleanup is recorded.
FailedIsCleaned ==
    \A r \in Runtimes :
        status[r] = "failed" ~> complete[r] \/ cleanupError[r]

\* close() returns.
ShutdownTerminates == shutdown.phase = "sessions" ~> shutdown.phase = "done"

--------------------------------------------------------------------------------
(* The scheduler implements ordered streams, one for each runtime.         *)

\* The sequences every output artifact of which some stage worked on.
WorkedOn(r) ==
    {q \in SeqIds : OutputArtifacts # {} /\ \A a \in OutputArtifacts : Worked(r, q, a)}

Ordered == INSTANCE OrderedStreams WITH
    Streams <- Runtimes,
    over <- {r \in Runtimes : Ended(r)},
    worked <- [r \in Runtimes |-> WorkedOn(r)],
    out <- outputs,
    next <- nextEmit

\* To its clients the orchestrator is a set of independent ordered streams: what
\* poll_outputs hands out over time is 0, 1, 2, ..., each after a stage worked on
\* it, and from the moment a session is cancelled, closed or failed it hands out
\* nothing, however late the results of its invocations come.
ImplementsOrderedStreams == Ordered!Spec
================================================================================
