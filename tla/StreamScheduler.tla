---------------------------- MODULE StreamScheduler ----------------------------
(***************************************************************************)
(* StreamingPipelineOrchestrator: the actor-style scheduler that moves     *)
(* sequence-indexed artifacts of several sessions through a graph of       *)
(* stages.  Each public method runs under one re-entrant lock, so it is    *)
(* one step here, except that its closing call of _pump_all is spread over *)
(* one step per session turn: the lock stays taken (pump.active) until the *)
(* pump ends, while the actor threads, which do not need it, keep going.   *)
(* Stage cleanup runs outside the lock and is one step per stage.          *)
(*                                                                         *)
(* A runtime (_SessionRuntime) is identified by its epoch.  A stage is     *)
(* identified by its position in spec.stages.  Artifact values, latency    *)
(* metrics and close reasons are abstracted away.                          *)
(***************************************************************************)
EXTENDS Integers, Sequences, FiniteSets

CONSTANTS
    Sessions,        \* session identifiers the clients use
    NoSession,       \* the owner of a runtime not created yet
    NumStages,       \* len(spec.stages)
    Artifacts,       \* artifact names
    Edges,           \* set of [artifact, source, target, capacity]
    External,        \* the source of an ingress edge (source_stage = None)
    Consumes,        \* [Stages -> SUBSET Artifacts]
    Produces,        \* [Stages -> SUBSET Artifacts]
    Strict,          \* the stages whose ordering is PER_SESSION_STRICT
    PerSession,      \* [Stages -> max_in_flight_per_session]
    Global,          \* [Stages -> max_in_flight_global]
    Groups,          \* resource group names
    GroupOf,         \* [Stages -> Groups \cup {NoGroup}]
    NoGroup,
    GroupLimit,      \* [Groups -> max_concurrency]
    OutputArtifacts, \* spec.output_artifacts
    OutputCapacity,  \* spec.output_capacity_per_session
    MailboxCapacity, \* [Stages -> capacity of the actor's mailbox]
    Rank,            \* [Stages -> position in the topological order]
    MaxSeq,          \* bound: sequence identifiers are 0..MaxSeq
    MaxEpoch,        \* bound: number of sessions ever created
    Finals,          \* final_sequence_id values given to create_session
    ClientOps,       \* which optional operations clients call
    Faults           \* which faults the environment injects

Stages == 1..NumStages
Runtimes == 1..MaxEpoch
SeqIds == 0..MaxSeq
Open == -1           \* final_sequence_id = None

ASSUME BoundsAssumption ==
    /\ NumStages \in Nat \ {0}
    /\ MaxSeq \in Nat
    /\ MaxEpoch \in Nat
    /\ OutputCapacity \in Nat \ {0}

ASSUME GraphAssumption ==
    /\ Edges \subseteq [artifact : Artifacts, source : Stages \cup {External},
                        target : Stages, capacity : Nat \ {0}]
    /\ Consumes \in [Stages -> SUBSET Artifacts]
    /\ Produces \in [Stages -> SUBSET Artifacts]
    /\ OutputArtifacts \subseteq Artifacts
    /\ External \notin Stages
    /\ \A e \in Edges : e.artifact \in Consumes[e.target]
    /\ \A e \in Edges : e.source \in Stages => e.artifact \in Produces[e.source]

\* StreamingStageSpec: a stage has at least one input.
ASSUME InputAssumption == \A st \in Stages : Consumes[st] # {}

\* _validate: an artifact has one producer, a stage or the outside.
ASSUME ProducerAssumption ==
    /\ \A s, t \in Stages : Produces[s] \cap Produces[t] # {} => s = t
    /\ \A e \in Edges : e.source = External => \A st \in Stages : e.artifact \notin Produces[st]

ASSUME LimitAssumption ==
    /\ Strict \subseteq Stages
    /\ PerSession \in [Stages -> Nat \ {0}]
    /\ \A st \in Strict : PerSession[st] = 1
    /\ Global \in [Stages -> Nat \ {0}]
    /\ GroupOf \in [Stages -> Groups \cup {NoGroup}]
    /\ NoGroup \notin Groups
    /\ GroupLimit \in [Groups -> Nat \ {0}]
    /\ MailboxCapacity \in [Stages -> Nat \ {0}]

\* The order _validate computes: injective, and along every internal edge.
ASSUME RankAssumption ==
    /\ Rank \in [Stages -> Nat]
    /\ \A s, t \in Stages : Rank[s] = Rank[t] => s = t
    /\ \A e \in Edges : e.source \in Stages => Rank[e.source] < Rank[e.target]

ASSUME EnvironmentAssumption ==
    /\ NoSession \notin Sessions
    /\ Finals \subseteq {Open} \cup SeqIds
    /\ ClientOps \subseteq {"poll", "finish", "cancel", "close", "shutdown"}
    /\ Faults \subseteq {"execution", "worker", "submit", "closer", "timeout", "abandon"}

VARIABLES
    epoch,        \* _epoch
    sessions,     \* _sessions: the runtime of each session, 0 when absent
    order,        \* _session_order
    owner,        \* runtime.session_id
    status,       \* runtime.status, "none" before creation
    final,        \* runtime.final_sequence_id
    frontier,     \* runtime.frontiers
    slots,        \* runtime.artifacts: one <<seq, artifact, consumer>> per reference
    inFlight,     \* runtime.in_flight: <<stage, seq>>
    admitted,     \* runtime.timings with an admitted_at
    pending,      \* runtime.pending_outputs: <<seq, artifact>>
    outputs,      \* runtime.outputs: the emitted sequence identifiers
    nextEmit,     \* runtime.next_emit_sequence
    scheduled,    \* runtime.cleanup_scheduled
    complete,     \* runtime.cleanup_complete
    cleanupError, \* runtime.cleanup_error is not None
    cleaned,      \* runtime.cleaned_stages
    calls,        \* _cleanup_session calls that wait for lifecycle_lock
    pass,         \* the call that holds lifecycle_lock and how far it is
    deleting,     \* close_session between its cleanup and its deletion
    failedQueue,  \* _failed_cleanup_queue
    shutdown,     \* progress of close()
    pump,         \* progress of _pump_all
    anomalies,    \* _stale_epoch_results and _orphaned_results
    queue,        \* messages each stage actor holds, head first
    busy,         \* whether the actor's thread executes the head
    health        \* actor health: "running", "failed", "closed"

flowVars == <<final, frontier, slots, inFlight, admitted, pending, outputs, nextEmit>>
lifeVars == <<status, scheduled, failedQueue>>
cleanVars == <<complete, cleanupError, cleaned, calls, pass, deleting>>
tableVars == <<epoch, sessions, order, owner>>
actorVars == <<queue, busy, health>>
vars == <<flowVars, lifeVars, cleanVars, tableVars, actorVars, shutdown, pump, anomalies>>

--------------------------------------------------------------------------------
(* Messages, actors and the pump.                                          *)

Invoke(r, q) == [kind |-> "run", runtime |-> r, seq |-> q, last |-> final[r] = q]
CloseMsg(r) == [kind |-> "close", runtime |-> r, seq |-> 0, last |-> FALSE]
Messages == [kind : {"run", "close", "late"}, runtime : Runtimes, seq : SeqIds, last : BOOLEAN]

Holding(st) == {queue[st][i] : i \in DOMAIN queue[st]}
Waiting(st) == Len(queue[st]) - (IF busy[st] THEN 1 ELSE 0)
MailboxHasRoom(st) == Waiting(st) < MailboxCapacity[st]

PumpIdle == [active |-> FALSE, left |-> 0, progress |-> FALSE, last |-> {}]
PumpRound(last) == [active |-> TRUE, left |-> Len(order), progress |-> FALSE, last |-> last]

\* The tail call of _pump_all: a first round over _session_order.
StartPump == pump' = IF order = << >> THEN PumpIdle ELSE PumpRound({})

LockFree == ~pump.active

--------------------------------------------------------------------------------
(* Capacity and readiness.                                                 *)

Current == {sessions[s] : s \in Sessions} \ {0}
Running == {r \in Current : status[r] = "running"}

EdgeOccupancy(r, e) == Cardinality({q \in SeqIds : <<q, e.artifact, e.target>> \in slots[r]})
Reserved(r, a) == Cardinality({t \in inFlight[r] : a \in Produces[t[1]]})
OutputOccupancy(r, a) == Len(outputs[r]) + Cardinality({q \in SeqIds : <<q, a>> \in pending[r]})

Flying == {x \in Current \X (Stages \X SeqIds) : x[2] \in inFlight[x[1]]}
StageInFlight(st) == {x \in Flying : x[2][1] = st}
GroupInFlight(g) == {x \in Flying : GroupOf[x[2][1]] = g}

\* Variants named M_... make one plausible mistake in the definition after them;
\* no behaviour uses them.
HasExecutionCapacity(st) ==
    /\ Cardinality(StageInFlight(st)) < Global[st]
    /\ GroupOf[st] \in Groups =>
         Cardinality(GroupInFlight(GroupOf[st])) < GroupLimit[GroupOf[st]]

M_NothingReserved(r, st) ==
    /\ \A e \in Edges : e.source = st => EdgeOccupancy(r, e) < e.capacity
    /\ \A a \in Produces[st] \cap OutputArtifacts : OutputOccupancy(r, a) < OutputCapacity

HasOutputCapacity(r, st) ==
    /\ \A e \in Edges : e.source = st =>
         EdgeOccupancy(r, e) + Reserved(r, e.artifact) < e.capacity
    /\ \A a \in Produces[st] \cap OutputArtifacts :
         OutputOccupancy(r, a) + Reserved(r, a) < OutputCapacity

M_AnyCandidate(r, st) == SeqIds

Candidates(r, st) ==
    IF st \in Strict THEN {frontier[r][st]} \cap SeqIds ELSE SeqIds

Runnable(r, st) ==
    {q \in Candidates(r, st) :
        /\ Cardinality({t \in inFlight[r] : t[1] = st}) < PerSession[st]
        /\ <<st, q>> \notin inFlight[r]
        /\ \A a \in Consumes[st] : <<q, a, st>> \in slots[r]}

Admissible(r, st) ==
    Runnable(r, st) # {} /\ HasExecutionCapacity(st) /\ HasOutputCapacity(r, st)

--------------------------------------------------------------------------------
(* Ending sessions.                                                        *)

Discard(R) ==
    /\ slots' = [r \in Runtimes |-> IF r \in R THEN {} ELSE slots[r]]
    /\ pending' = [r \in Runtimes |-> IF r \in R THEN {} ELSE pending[r]]
    /\ outputs' = [r \in Runtimes |-> IF r \in R THEN << >> ELSE outputs[r]]

M_ScheduleTooEarly(R) ==
    LET new == {r \in R : status'[r] = "failed" /\ inFlight[r] = {} /\ ~scheduled[r]}
    IN  /\ scheduled' = [r \in Runtimes |-> scheduled[r] \/ r \in new]
        /\ failedQueue' = failedQueue \cup new

\* _schedule_failed_cleanup for each runtime of R.
ScheduleFailedCleanup(R) ==
    LET new == {r \in R : status'[r] = "failed" /\ inFlight'[r] = {} /\ ~scheduled[r]}
    IN  /\ scheduled' = [r \in Runtimes |-> scheduled[r] \/ r \in new]
        /\ failedQueue' = failedQueue \cup new

\* _fail_runtime for the runtimes of R, which are running.
Fail(R) ==
    /\ status' = [r \in Runtimes |-> IF r \in R THEN "failed" ELSE status[r]]
    /\ Discard(R)

--------------------------------------------------------------------------------
(* Client operations.                                                      *)

\* deque.remove: q without the position of x.
Without(q, x) ==
    IF \A i \in DOMAIN q : q[i] # x THEN q
    ELSE LET k == CHOOSE i \in DOMAIN q : q[i] = x
         IN  [i \in 1 .. Len(q) - 1 |-> IF i < k THEN q[i] ELSE q[i + 1]]

M_ReplaceUndrained(s, f) ==
    LET r == epoch + 1
    IN  /\ LockFree
        /\ shutdown.phase = "open"
        /\ sessions[s] # 0 => status[sessions[s]] # "running"
        /\ r \in Runtimes
        /\ epoch' = r
        /\ sessions' = [sessions EXCEPT ![s] = r]
        /\ order' = Append(Without(order, s), s)
        /\ owner' = [owner EXCEPT ![r] = s]
        /\ status' = [status EXCEPT ![r] = "running"]
        /\ final' = [final EXCEPT ![r] = f]
        /\ UNCHANGED <<frontier, slots, inFlight, admitted, pending, outputs, nextEmit>>
        /\ UNCHANGED <<scheduled, failedQueue, cleanVars, actorVars, shutdown, pump, anomalies>>

CreateSession(s, f) ==
    LET r == epoch + 1
        old == sessions[s]
    IN  /\ LockFree
        /\ shutdown.phase = "open"
        /\ old # 0 => status[old] # "running" /\ inFlight[old] = {}
        /\ r \in Runtimes
        /\ epoch' = r
        /\ sessions' = [sessions EXCEPT ![s] = r]
        /\ order' = Append(Without(order, s), s)
        /\ owner' = [owner EXCEPT ![r] = s]
        /\ status' = [status EXCEPT ![r] = "running"]
        /\ final' = [final EXCEPT ![r] = f]
        /\ UNCHANGED <<frontier, slots, inFlight, admitted, pending, outputs, nextEmit>>
        /\ UNCHANGED <<scheduled, failedQueue, cleanVars, actorVars, shutdown, pump, anomalies>>

IngressArtifacts == {e.artifact : e \in {d \in Edges : d.source = External}}

\* try_push_inputs when it returns True; rejections and backpressure change nothing.
TryPushInputs(s, q, A) ==
    LET r == sessions[s]
        ingress == {e \in Edges : e.artifact \in A}
    IN  /\ LockFree
        /\ r \in Running
        /\ final[r] = Open \/ q <= final[r]
        /\ A # {} /\ A \subseteq IngressArtifacts
        /\ \A e \in ingress : <<q, e.artifact, e.target>> \notin slots[r]
        /\ \A e \in ingress : EdgeOccupancy(r, e) < e.capacity
        /\ slots' = [slots EXCEPT ![r] = @ \cup {<<q, e.artifact, e.target>> : e \in ingress}]
        /\ UNCHANGED <<final, frontier, inFlight, admitted, pending, outputs, nextEmit>>
        /\ UNCHANGED <<lifeVars, cleanVars, tableVars, actorVars, shutdown, anomalies>>
        /\ StartPump

M_FinishAfterAdmission(s, f) ==
    /\ "finish" \in ClientOps
    /\ LockFree
    /\ sessions[s] \in Running
    /\ final[sessions[s]] \in {Open, f}
    /\ final' = [final EXCEPT ![sessions[s]] = f]
    /\ UNCHANGED <<frontier, slots, inFlight, admitted, pending, outputs, nextEmit>>
    /\ UNCHANGED <<lifeVars, cleanVars, tableVars, actorVars, shutdown, anomalies>>
    /\ StartPump

FinishInputs(s, f) ==
    LET r == sessions[s]
    IN  /\ "finish" \in ClientOps
        /\ LockFree
        /\ r \in Running
        /\ final[r] \in {Open, f}
        /\ \A st \in Stages : <<st, f>> \notin admitted[r]
        /\ final' = [final EXCEPT ![r] = f]
        /\ UNCHANGED <<frontier, slots, inFlight, admitted, pending, outputs, nextEmit>>
        /\ UNCHANGED <<lifeVars, cleanVars, tableVars, actorVars, shutdown, anomalies>>
        /\ StartPump

M_PollWithoutPump(s) ==
    /\ "poll" \in ClientOps
    /\ LockFree
    /\ sessions[s] # 0
    /\ outputs' = [outputs EXCEPT ![sessions[s]] = << >>]
    /\ UNCHANGED <<final, frontier, slots, inFlight, admitted, pending, nextEmit>>
    /\ UNCHANGED <<lifeVars, cleanVars, tableVars, actorVars, shutdown, pump, anomalies>>

PollOutputs(s) ==
    LET r == sessions[s]
    IN  /\ "poll" \in ClientOps
        /\ LockFree
        /\ r # 0
        /\ outputs' = [outputs EXCEPT ![r] = << >>]
        /\ UNCHANGED <<final, frontier, slots, inFlight, admitted, pending, nextEmit>>
        /\ UNCHANGED <<lifeVars, cleanVars, tableVars, actorVars, shutdown, anomalies>>
        /\ StartPump

CancelSession(s) ==
    LET r == sessions[s]
        stop == IF status[r] = "running" THEN {r} ELSE {}
    IN  /\ "cancel" \in ClientOps
        /\ LockFree
        /\ r # 0
        /\ status[r] \in {"running", "cancelled"}
        /\ "cancel" \notin calls[r] /\ pass[r].by # "cancel"
        /\ status' = [status EXCEPT ![r] = "cancelled"]
        /\ Discard(stop)
        /\ calls' = [calls EXCEPT ![r] = @ \cup {"cancel"}]
        /\ UNCHANGED <<final, frontier, inFlight, admitted, nextEmit, scheduled, failedQueue>>
        /\ UNCHANGED <<complete, cleanupError, cleaned, pass, deleting>>
        /\ UNCHANGED <<tableVars, actorVars, shutdown, pump, anomalies>>

CloseSession(s) ==
    LET r == sessions[s]
    IN  /\ "close" \in ClientOps
        /\ LockFree
        /\ r # 0
        /\ "close" \notin calls[r] /\ pass[r].by # "close" /\ r \notin deleting
        /\ status' = [status EXCEPT ![r] = IF @ = "running" THEN "closed" ELSE @]
        /\ Discard({r})
        /\ calls' = [calls EXCEPT ![r] = @ \cup {"close"}]
        /\ UNCHANGED <<final, frontier, inFlight, admitted, nextEmit, scheduled, failedQueue>>
        /\ UNCHANGED <<complete, cleanupError, cleaned, pass, deleting>>
        /\ UNCHANGED <<tableVars, actorVars, shutdown, pump, anomalies>>

\* The second locked block of close_session, after its cleanup returned.
DeleteSession(r) ==
    LET s == owner[r]
    IN  /\ LockFree
        /\ r \in deleting
        /\ deleting' = deleting \ {r}
        /\ IF sessions[s] = r
           THEN /\ sessions' = [sessions EXCEPT ![s] = 0]
                /\ order' = Without(order, s)
           ELSE UNCHANGED <<sessions, order>>
        /\ UNCHANGED <<epoch, owner, flowVars, lifeVars, actorVars, shutdown, pump, anomalies>>
        /\ UNCHANGED <<complete, cleanupError, cleaned, calls, pass>>

--------------------------------------------------------------------------------
(* The pump: one turn of one session per step.                             *)

\* What makes _pump_once act on a stage rather than look at the next one.
Ready(r) == {st \in Stages : health[st] # "running" \/ (Admissible(r, st) /\ MailboxHasRoom(st))}
FirstReady(r, st) == st \in Ready(r) /\ \A t \in Ready(r) : st <= t

\* The session at the left of _session_order goes to its right.
Turn(s) ==
    /\ pump.active
    /\ order # << >> /\ s = Head(order)
    /\ order' = Append(Tail(order), s)

EndTurn(progress, last) ==
    LET made == pump.progress \/ progress
    IN  pump' = IF pump.left > 1
                THEN [active |-> TRUE, left |-> pump.left - 1, progress |-> made, last |-> last]
                ELSE IF made THEN PumpRound(last) ELSE PumpIdle

PumpSkip(s) ==
    /\ Turn(s)
    /\ sessions[s] \in Running => Ready(sessions[s]) = {}
    /\ EndTurn(FALSE, {})
    /\ UNCHANGED <<epoch, sessions, owner, flowVars, lifeVars, cleanVars, actorVars>>
    /\ UNCHANGED <<shutdown, anomalies>>

\* An admission: inputs taken, submitted to the actor and recorded in flight.
\* A full mailbox (StreamingActorBusyError) restores the inputs, so it is only
\* a stage that is not ready.
PumpAdmit(s, st) ==
    LET r == sessions[s]
    IN  /\ Turn(s)
        /\ r \in Running
        /\ FirstReady(r, st)
        /\ health[st] = "running"
        /\ \E q \in Runnable(r, st) :
             /\ \A p \in Runnable(r, st) : q <= p
             /\ slots' = [slots EXCEPT ![r] = @ \ {<<q, a, st>> : a \in Consumes[st]}]
             /\ inFlight' = [inFlight EXCEPT ![r] = @ \cup {<<st, q>>}]
             /\ admitted' = [admitted EXCEPT ![r] = @ \cup {<<st, q>>}]
             /\ queue' = [queue EXCEPT ![st] = Append(@, Invoke(r, q))]
             /\ EndTurn(TRUE, {<<r, st, q>>})
        /\ UNCHANGED <<epoch, sessions, owner, final, frontier, pending, outputs, nextEmit>>
        /\ UNCHANGED <<lifeVars, cleanVars, busy, health, shutdown, anomalies>>

\* An unhealthy actor fails every running session.
PumpFailActor(s, st) ==
    LET r == sessions[s]
    IN  /\ Turn(s)
        /\ r \in Running
        /\ FirstReady(r, st)
        /\ health[st] # "running"
        /\ Fail(Running)
        /\ UNCHANGED <<final, frontier, inFlight, admitted, nextEmit>>
        /\ ScheduleFailedCleanup(Running)
        /\ EndTurn(FALSE, {})
        /\ UNCHANGED <<epoch, sessions, owner, cleanVars, actorVars, shutdown, anomalies>>

\* submit raises although the actor is healthy: the session alone fails.
PumpSubmitError(s, st) ==
    LET r == sessions[s]
    IN  /\ "submit" \in Faults
        /\ Turn(s)
        /\ r \in Running
        /\ FirstReady(r, st)
        /\ health[st] = "running"
        /\ Fail({r})
        /\ UNCHANGED <<final, frontier, inFlight, admitted, nextEmit>>
        /\ ScheduleFailedCleanup({r})
        /\ EndTurn(FALSE, {})
        /\ UNCHANGED <<epoch, sessions, owner, cleanVars, actorVars, shutdown, anomalies>>

--------------------------------------------------------------------------------
(* The actor threads and the completion callback.                          *)

Start(st) ==
    /\ queue[st] # << >>
    /\ ~busy[st]
    /\ busy' = [busy EXCEPT ![st] = TRUE]
    /\ UNCHANGED <<flowVars, lifeVars, cleanVars, tableVars, queue, health, shutdown, pump, anomalies>>

WorkerFail(st) ==
    /\ "worker" \in Faults
    /\ health[st] = "running"
    /\ health' = [health EXCEPT ![st] = "failed"]
    /\ UNCHANGED <<flowVars, lifeVars, cleanVars, tableVars, queue, busy, shutdown, pump, anomalies>>

\* The thread resolves the future of the invocation m and runs _complete in it.
\* It waits for the lock, unless the pump that has just submitted m finds the
\* future resolved and runs the callback itself: the rounds of the nested
\* _pump_all then come before the turns the outer one has left.
Resolve(st, m) ==
    /\ queue[st] # << >> /\ busy[st]
    /\ m = Head(queue[st])
    /\ m.kind = "run"
    /\ LockFree \/ pump.last = {<<m.runtime, st, m.seq>>}
    /\ queue' = [queue EXCEPT ![st] = Tail(@)]
    /\ busy' = [busy EXCEPT ![st] = FALSE]
    /\ UNCHANGED <<tableVars, cleanVars, health, shutdown>>
    /\ IF pump.active
       THEN pump' = [active |-> TRUE, left |-> pump.left + Len(order), progress |-> TRUE, last |-> {}]
       ELSE StartPump

\* The runtime is the session's and it still holds the invocation in flight.
Known(st, m) ==
    /\ sessions[owner[m.runtime]] = m.runtime
    /\ <<st, m.seq>> \in inFlight[m.runtime]

CompleteAnomalous(st) ==
    LET m == Head(queue[st])
        kind == IF sessions[owner[m.runtime]] \in {0, m.runtime} THEN "orphaned" ELSE "stale"
    IN  /\ Resolve(st, m)
        /\ ~Known(st, m)
        /\ anomalies' = [anomalies EXCEPT ![kind] = @ + 1]
        /\ UNCHANGED <<flowVars, lifeVars>>

\* The handler raised, or the actor is found unhealthy whatever the result is.
CompleteFailed(st) ==
    LET m == Head(queue[st])
        r == m.runtime
        failing == IF health[st] = "running" THEN {r} \cap Running ELSE Running
    IN  /\ Resolve(st, m)
        /\ Known(st, m)
        /\ health[st] # "running" \/ "execution" \in Faults
        /\ inFlight' = [inFlight EXCEPT ![r] = @ \ {<<st, m.seq>>}]
        /\ Fail(failing)
        /\ ScheduleFailedCleanup(failing \cup {r})
        /\ UNCHANGED <<final, frontier, admitted, nextEmit, anomalies>>

\* The result is published: actor and session are both still running.
M_LatePublished(st, r) == health[st] = "running"

Usable(st, r) == health[st] = "running" /\ status[r] = "running"

\* A result that arrives after the session ended is dropped.
CompleteDropped(st) ==
    LET m == Head(queue[st])
        r == m.runtime
    IN  /\ Resolve(st, m)
        /\ Known(st, m)
        /\ health[st] = "running"
        /\ status[r] # "running"
        /\ inFlight' = [inFlight EXCEPT ![r] = @ \ {<<st, m.seq>>}]
        /\ status' = status
        /\ ScheduleFailedCleanup({r})
        /\ UNCHANGED <<final, frontier, slots, admitted, pending, outputs, nextEmit, anomalies>>

M_GapEmitted(P, n) ==
    {q \in n .. MaxSeq : OutputArtifacts # {} /\ \A a \in OutputArtifacts : <<q, a>> \in P}

\* _emit_ready_outputs: the sequences from n on that are in P with all artifacts.
Emitted(P, n) ==
    {q \in n .. MaxSeq : /\ OutputArtifacts # {}
                         /\ \A p \in n .. q : \A a \in OutputArtifacts : <<p, a>> \in P}

CompletePublished(st) ==
    LET m == Head(queue[st])
        r == m.runtime
        q == m.seq
        P == pending[r] \cup {<<q, a>> : a \in Produces[st] \cap OutputArtifacts}
        n == nextEmit[r]
        E == Emitted(P, n)
    IN  /\ Resolve(st, m)
        /\ Known(st, m)
        /\ Usable(st, r)
        /\ inFlight' = [inFlight EXCEPT ![r] = @ \ {<<st, q>>}]
        /\ slots' = [slots EXCEPT ![r] =
                        @ \cup {<<q, e.artifact, e.target>> : e \in {d \in Edges : d.source = st}}]
        /\ pending' = [pending EXCEPT ![r] = {p \in P : p[1] \notin E}]
        /\ outputs' = [outputs EXCEPT ![r] = @ \o [i \in 1 .. Cardinality(E) |-> n + i - 1]]
        /\ nextEmit' = [nextEmit EXCEPT ![r] = n + Cardinality(E)]
        /\ frontier' = [frontier EXCEPT ![r][st] = IF st \in Strict THEN q + 1 ELSE @]
        /\ UNCHANGED <<final, admitted, lifeVars, anomalies>>

--------------------------------------------------------------------------------
(* _cleanup_session: waits for lifecycle_lock, drains the invocations in   *)
(* flight, closes each stage in reverse topological order through its      *)
(* actor, records the outcome.                                             *)

Callers == {"cancel", "close", "failed", "shutdown"}
NoPass == [by |-> "none", phase |-> "idle", todo |-> {}, sent |-> FALSE, error |-> FALSE]
Passes == [by : Callers \cup {"none"}, phase : {"idle", "drain", "clean"},
           todo : SUBSET Stages, sent : BOOLEAN, error : BOOLEAN]

M_ForwardOrder(st, todo) == st \in todo /\ \A t \in todo : Rank[st] <= Rank[t]

\* The stage the loop over reversed(_topological_stage_ids) is at.
IsNext(st, todo) == st \in todo /\ \A t \in todo : Rank[t] <= Rank[st]

Returned(r, by) == deleting' = IF by = "close" THEN deleting \cup {r} ELSE deleting

AcquireCleanup(r, by) ==
    /\ LockFree
    /\ by \in calls[r]
    /\ pass[r].phase = "idle"
    /\ calls' = [calls EXCEPT ![r] = @ \ {by}]
    /\ IF complete[r]
       THEN Returned(r, by) /\ UNCHANGED <<pass, cleanupError>>
       ELSE /\ pass' = [pass EXCEPT ![r] = [NoPass EXCEPT !.by = by, !.phase = "drain"]]
            /\ cleanupError' = [cleanupError EXCEPT ![r] = FALSE]
            /\ UNCHANGED deleting
    /\ UNCHANGED <<complete, cleaned, flowVars, lifeVars, tableVars, actorVars>>
    /\ UNCHANGED <<shutdown, pump, anomalies>>

LockTimeout(r, by) ==
    /\ "timeout" \in Faults
    /\ LockFree
    /\ by \in calls[r]
    /\ pass[r].phase # "idle"
    /\ calls' = [calls EXCEPT ![r] = @ \ {by}]
    /\ cleanupError' = [cleanupError EXCEPT ![r] = TRUE]
    /\ UNCHANGED <<complete, cleaned, pass, deleting, flowVars, lifeVars, tableVars, actorVars>>
    /\ UNCHANGED <<shutdown, pump, anomalies>>

M_NotDrained(r) ==
    /\ LockFree
    /\ pass[r].phase = "drain"
    /\ pass' = [pass EXCEPT ![r].phase = "clean", ![r].todo = Stages \ cleaned[r]]
    /\ UNCHANGED <<complete, cleanupError, cleaned, calls, deleting>>
    /\ UNCHANGED <<flowVars, lifeVars, tableVars, actorVars, shutdown, pump, anomalies>>

Drained(r) ==
    /\ LockFree
    /\ pass[r].phase = "drain"
    /\ inFlight[r] = {}
    /\ pass' = [pass EXCEPT ![r].phase = "clean", ![r].todo = Stages \ cleaned[r]]
    /\ UNCHANGED <<complete, cleanupError, cleaned, calls, deleting>>
    /\ UNCHANGED <<flowVars, lifeVars, tableVars, actorVars, shutdown, pump, anomalies>>

DrainTimeout(r) ==
    /\ "timeout" \in Faults
    /\ LockFree
    /\ pass[r].phase = "drain"
    /\ inFlight[r] # {}
    /\ pass' = [pass EXCEPT ![r] = NoPass]
    /\ cleanupError' = [cleanupError EXCEPT ![r] = TRUE]
    /\ UNCHANGED <<complete, cleaned, calls, deleting>>
    /\ UNCHANGED <<flowVars, lifeVars, tableVars, actorVars, shutdown, pump, anomalies>>

\* LocalStageActor.close_session: the message enters the mailbox when it has
\* room; a closed or failed actor refuses it.  When it is the worker behind a
\* ParallelWorkerStageActor that failed, the actor still accepts it.
SendClose(r, st) ==
    /\ pass[r].phase = "clean" /\ IsNext(st, pass[r].todo) /\ ~pass[r].sent
    /\ health[st] # "closed"
    /\ MailboxHasRoom(st)
    /\ queue' = [queue EXCEPT ![st] = Append(@, CloseMsg(r))]
    /\ pass' = [pass EXCEPT ![r].sent = TRUE]
    /\ UNCHANGED <<complete, cleanupError, cleaned, calls, deleting, busy, health>>
    /\ UNCHANGED <<flowVars, lifeVars, tableVars, shutdown, pump, anomalies>>

CloseRefused(r, st) ==
    /\ pass[r].phase = "clean" /\ IsNext(st, pass[r].todo) /\ ~pass[r].sent
    /\ health[st] # "running"
    /\ pass' = [pass EXCEPT ![r].todo = @ \ {st}, ![r].error = TRUE]
    /\ UNCHANGED <<complete, cleanupError, cleaned, calls, deleting>>
    /\ UNCHANGED <<flowVars, lifeVars, tableVars, actorVars, shutdown, pump, anomalies>>

\* The actor's thread runs session_closer and resolves the future; a caller
\* that still waits for it goes on to the next stage.  A failed actor fails the
\* messages it finds, unless only its worker failed.
CloserDone(st, ok) ==
    LET m == Head(queue[st])
        r == m.runtime
    IN  /\ queue[st] # << >> /\ busy[st]
        /\ m.kind # "run"
        /\ ok \/ "closer" \in Faults \/ health[st] = "failed"
        /\ queue' = [queue EXCEPT ![st] = Tail(@)]
        /\ busy' = [busy EXCEPT ![st] = FALSE]
        /\ IF m.kind = "late"
           THEN UNCHANGED <<cleaned, pass>>
           ELSE /\ cleaned' = IF ok THEN [cleaned EXCEPT ![r] = @ \cup {st}] ELSE cleaned
                /\ pass' = [pass EXCEPT ![r].todo = @ \ {st}, ![r].sent = FALSE,
                                        ![r].error = @ \/ ~ok]
        /\ UNCHANGED <<complete, cleanupError, calls, deleting, health>>
        /\ UNCHANGED <<flowVars, lifeVars, tableVars, shutdown, pump, anomalies>>

\* The deadline passes at a stage: this one and all later ones count as failed,
\* but a message already in the mailbox stays there.
StageTimeout(r) ==
    /\ "timeout" \in Faults
    /\ pass[r].phase = "clean" /\ pass[r].todo # {}
    /\ pass' = [pass EXCEPT ![r].todo = {}, ![r].sent = FALSE, ![r].error = TRUE]
    /\ queue' = [st \in Stages |-> [i \in DOMAIN queue[st] |->
                   IF queue[st][i] = CloseMsg(r)
                   THEN [queue[st][i] EXCEPT !.kind = "late"] ELSE queue[st][i]]]
    /\ UNCHANGED <<complete, cleanupError, cleaned, calls, deleting, busy, health>>
    /\ UNCHANGED <<flowVars, lifeVars, tableVars, shutdown, pump, anomalies>>

M_AlwaysComplete(r) ==
    /\ LockFree
    /\ pass[r].phase = "clean" /\ pass[r].todo = {}
    /\ complete' = [complete EXCEPT ![r] = TRUE]
    /\ pass' = [pass EXCEPT ![r] = NoPass]
    /\ Returned(r, pass[r].by)
    /\ UNCHANGED <<cleanupError, cleaned, calls, flowVars, lifeVars, tableVars, actorVars>>
    /\ UNCHANGED <<shutdown, pump, anomalies>>

\* Slots found now are leaked: they are dropped and the cleanup counts as failed.
EndPass(r) ==
    LET failed == pass[r].error \/ slots[r] # {}
    IN  /\ LockFree
        /\ pass[r].phase = "clean" /\ pass[r].todo = {}
        /\ IF slots[r] # {} THEN Discard({r}) ELSE UNCHANGED <<slots, pending, outputs>>
        /\ complete' = [complete EXCEPT ![r] = ~failed /\ cleaned[r] = Stages]
        /\ cleanupError' = [cleanupError EXCEPT ![r] = failed]
        /\ pass' = [pass EXCEPT ![r] = NoPass]
        /\ IF failed THEN UNCHANGED deleting ELSE Returned(r, pass[r].by)
        /\ UNCHANGED <<final, frontier, inFlight, admitted, nextEmit, cleaned, calls>>
        /\ UNCHANGED <<lifeVars, tableVars, actorVars, shutdown, pump, anomalies>>

Calling(by) == {r \in Runtimes : by \in calls[r] \/ pass[r].by = by}

M_ThreadStopsAtOnce(r) ==
    /\ shutdown.phase = "open"
    /\ r \in failedQueue
    /\ Calling("failed") = {}
    /\ failedQueue' = failedQueue \ {r}
    /\ calls' = [calls EXCEPT ![r] = @ \cup {"failed"}]
    /\ UNCHANGED <<complete, cleanupError, cleaned, pass, deleting, status, scheduled>>
    /\ UNCHANGED <<flowVars, tableVars, actorVars, shutdown, pump, anomalies>>

\* _run_failed_cleanups: one runtime at a time, and none behind the None of close().
TakeFailed(r) ==
    /\ shutdown.phase \in {"open", "sessions", "join"}
    /\ shutdown.phase = "join" => r \in shutdown.todo
    /\ r \in failedQueue
    /\ Calling("failed") = {}
    /\ failedQueue' = failedQueue \ {r}
    /\ shutdown' = IF shutdown.phase = "join"
                   THEN [shutdown EXCEPT !.todo = @ \ {r}] ELSE shutdown
    /\ calls' = [calls EXCEPT ![r] = @ \cup {"failed"}]
    /\ UNCHANGED <<complete, cleanupError, cleaned, pass, deleting, status, scheduled>>
    /\ UNCHANGED <<flowVars, tableVars, actorVars, pump, anomalies>>

--------------------------------------------------------------------------------
(* close(): sessions, then the cleanup thread, then the actors.            *)

ShutdownBegin ==
    LET closing == Running
    IN  /\ "shutdown" \in ClientOps
        /\ LockFree
        /\ shutdown.phase = "open"
        /\ shutdown' = [phase |-> "sessions", todo |-> Current]
        /\ status' = [r \in Runtimes |-> IF r \in closing THEN "closed" ELSE status[r]]
        /\ Discard(Current)
        /\ UNCHANGED <<final, frontier, inFlight, admitted, nextEmit, scheduled, failedQueue>>
        /\ UNCHANGED <<cleanVars, tableVars, actorVars, pump, anomalies>>

ShutdownSession(r) ==
    /\ shutdown.phase = "sessions"
    /\ Calling("shutdown") = {}
    /\ r \in shutdown.todo
    /\ shutdown' = [shutdown EXCEPT !.todo = @ \ {r}]
    /\ calls' = [calls EXCEPT ![r] = @ \cup {"shutdown"}]
    /\ UNCHANGED <<complete, cleanupError, cleaned, pass, deleting>>
    /\ UNCHANGED <<flowVars, lifeVars, tableVars, actorVars, pump, anomalies>>

\* None goes behind the runtimes queued so far ...
ShutdownStopThread ==
    /\ shutdown = [phase |-> "sessions", todo |-> {}]
    /\ Calling("shutdown") = {}
    /\ shutdown' = [phase |-> "join", todo |-> failedQueue]
    /\ UNCHANGED <<flowVars, lifeVars, cleanVars, tableVars, actorVars, pump, anomalies>>

\* ... and the thread ends when it has taken those.
ShutdownJoin ==
    /\ shutdown = [phase |-> "join", todo |-> {}]
    /\ Calling("failed") = {}
    /\ shutdown' = [phase |-> "actors", todo |-> Stages]
    /\ UNCHANGED <<flowVars, lifeVars, cleanVars, tableVars, actorVars, pump, anomalies>>

\* LocalStageActor.close: refuses messages from now on ...
CloseActor(st) ==
    /\ shutdown.phase = "actors" /\ IsNext(st, shutdown.todo)
    /\ health[st] # "closed"
    /\ health' = [health EXCEPT ![st] = "closed"]
    /\ UNCHANGED <<flowVars, lifeVars, cleanVars, tableVars, queue, busy>>
    /\ UNCHANGED <<shutdown, pump, anomalies>>

\* ... and joins the thread when the mailbox is empty.
JoinActor(st) ==
    /\ shutdown.phase = "actors" /\ IsNext(st, shutdown.todo)
    /\ health[st] = "closed"
    /\ queue[st] = << >>
    /\ shutdown' = [shutdown EXCEPT !.todo = @ \ {st}]
    /\ UNCHANGED <<flowVars, lifeVars, cleanVars, tableVars, actorVars, pump, anomalies>>

\* The close of another kind of actor may return before what it holds is resolved.
AbandonActor(st) ==
    /\ "abandon" \in Faults
    /\ shutdown.phase = "actors" /\ IsNext(st, shutdown.todo)
    /\ health[st] = "closed"
    /\ queue[st] # << >>
    /\ shutdown' = [shutdown EXCEPT !.todo = @ \ {st}]
    /\ UNCHANGED <<flowVars, lifeVars, cleanVars, tableVars, actorVars, pump, anomalies>>

ShutdownDone ==
    /\ LockFree
    /\ shutdown = [phase |-> "actors", todo |-> {}]
    /\ shutdown' = [phase |-> "done", todo |-> {}]
    /\ sessions' = [s \in Sessions |-> 0]
    /\ order' = << >>
    /\ UNCHANGED <<epoch, owner, flowVars, lifeVars, cleanVars, actorVars, pump, anomalies>>

--------------------------------------------------------------------------------
Init ==
    /\ epoch = 0
    /\ sessions = [s \in Sessions |-> 0]
    /\ order = << >>
    /\ owner = [r \in Runtimes |-> NoSession]
    /\ status = [r \in Runtimes |-> "none"]
    /\ final = [r \in Runtimes |-> Open]
    /\ frontier = [r \in Runtimes |-> [st \in Stages |-> 0]]
    /\ slots = [r \in Runtimes |-> {}]
    /\ inFlight = [r \in Runtimes |-> {}]
    /\ admitted = [r \in Runtimes |-> {}]
    /\ pending = [r \in Runtimes |-> {}]
    /\ outputs = [r \in Runtimes |-> << >>]
    /\ nextEmit = [r \in Runtimes |-> 0]
    /\ scheduled = [r \in Runtimes |-> FALSE]
    /\ complete = [r \in Runtimes |-> FALSE]
    /\ cleanupError = [r \in Runtimes |-> FALSE]
    /\ cleaned = [r \in Runtimes |-> {}]
    /\ calls = [r \in Runtimes |-> {}]
    /\ pass = [r \in Runtimes |-> NoPass]
    /\ deleting = {}
    /\ failedQueue = {}
    /\ shutdown = [phase |-> "open", todo |-> {}]
    /\ pump = PumpIdle
    /\ anomalies = [k \in {"stale", "orphaned"} |-> 0]
    /\ queue = [st \in Stages |-> << >>]
    /\ busy = [st \in Stages |-> FALSE]
    /\ health = [st \in Stages |-> "running"]

Client ==
    \E s \in Sessions :
        \/ \E f \in Finals : CreateSession(s, f)
        \/ \E q \in SeqIds, A \in SUBSET IngressArtifacts : TryPushInputs(s, q, A)
        \/ \E f \in SeqIds : FinishInputs(s, f)
        \/ PollOutputs(s)
        \/ CancelSession(s)
        \/ CloseSession(s)

PumpTurn ==
    \E s \in Sessions :
        \/ PumpSkip(s)
        \/ \E st \in Stages : PumpAdmit(s, st) \/ PumpFailActor(s, st) \/ PumpSubmitError(s, st)

Complete(st) ==
    CompleteAnomalous(st) \/ CompleteFailed(st) \/ CompleteDropped(st) \/ CompletePublished(st)

Actor(st) ==
    \/ Start(st)
    \/ Complete(st)
    \/ \E ok \in BOOLEAN : CloserDone(st, ok)

Cleanup(r) ==
    \/ \E by \in Callers : AcquireCleanup(r, by)
    \/ Drained(r)
    \/ \E st \in Stages : SendClose(r, st) \/ CloseRefused(r, st)
    \/ EndPass(r)
    \/ DeleteSession(r)
    \/ TakeFailed(r)

Timeout(r) ==
    \/ \E by \in Callers : LockTimeout(r, by)
    \/ DrainTimeout(r)
    \/ StageTimeout(r)

Shutdown ==
    \/ \E r \in Runtimes : ShutdownSession(r)
    \/ ShutdownStopThread
    \/ ShutdownJoin
    \/ \E st \in Stages : CloseActor(st) \/ JoinActor(st)
    \/ ShutdownDone

Next ==
    \/ Client
    \/ PumpTurn
    \/ \E st \in Stages : Actor(st) \/ WorkerFail(st) \/ AbandonActor(st)
    \/ \E r \in Runtimes : Cleanup(r) \/ Timeout(r)
    \/ ShutdownBegin
    \/ Shutdown

Spec == Init /\ [][Next]_vars
================================================================================
