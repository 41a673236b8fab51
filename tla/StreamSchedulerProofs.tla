------------------------ MODULE StreamSchedulerProofs ------------------------
(***************************************************************************)
(* Type correctness of the scheduler: every field keeps the type that      *)
(* _SessionRuntime and the orchestrator declare for it, whatever the       *)
(* stage graph, the limits, the number of sessions and the faults.  One    *)
(* lemma per group of actions; the parts of TypeOK an action leaves alone  *)
(* come from TypesUnchanged.                                               *)
(***************************************************************************)
EXTENDS StreamSchedulerProps, TLAPS, FiniteSetTheorems

\* The runtime of a session that has one is a runtime.
LEMMA CurrentRuntime ==
    ASSUME TableTypes, NEW s \in Sessions, sessions[s] # 0
    PROVE  sessions[s] \in Runtimes
BY BoundsAssumption DEF TableTypes, Runtimes

\* Running holds runtimes whose status is running.
LEMMA RunningRuntimes ==
    ASSUME TableTypes
    PROVE  Running \subseteq Runtimes /\ \A r \in Running : status[r] = "running"
BY CurrentRuntime DEF Running, Current

\* A step that leaves a group of variables alone preserves their types.
LEMMA TypesUnchanged ==
    ASSUME TypeOK
    PROVE  /\ UNCHANGED tableVars => TableTypes'
           /\ UNCHANGED flowVars => FlowTypes'
           /\ UNCHANGED lifeVars => LifeTypes'
           /\ UNCHANGED cleanVars => CleanTypes'
           /\ UNCHANGED actorVars => ActorTypes'
           /\ UNCHANGED <<shutdown, pump, anomalies>> => ControlTypes'
BY DEF TypeOK, TableTypes, FlowTypes, LifeTypes, CleanTypes, ActorTypes, ControlTypes,
       flowVars, lifeVars, cleanVars, tableVars, actorVars

\* Discarding buffered state empties well-typed fields.
LEMMA DiscardTypes ==
    ASSUME FlowTypes, NEW R, Discard(R),
           UNCHANGED <<final, frontier, inFlight, admitted, nextEmit>>
    PROVE  FlowTypes'
BY DEF FlowTypes, Discard

\* Starting a pump and ending one of its turns give a well-typed pump.
LEMMA StartPumpTypes ==
    ASSUME TypeOK, StartPump
    PROVE  pump' \in Pumps
BY DEF TypeOK, TableTypes, StartPump, PumpIdle, PumpRound, Pumps

\* Ending a turn of _pump_all gives a well-typed pump.
LEMMA EndTurnTypes ==
    ASSUME TypeOK, NEW progress \in BOOLEAN, NEW last \in SUBSET (Runtimes \X Stages \X SeqIds),
           EndTurn(progress, last)
    PROVE  pump' \in Pumps
BY DEF TypeOK, TableTypes, ControlTypes, EndTurn, PumpIdle, PumpRound, Pumps

\* A turn only rotates _session_order.
LEMMA TurnTypes ==
    ASSUME TypeOK, NEW s \in Sessions, Turn(s)
    PROVE  order' \in Seq(Sessions)
BY DEF TypeOK, TableTypes, Turn

\* _schedule_failed_cleanup only queues runtimes.
LEMMA ScheduleTypes ==
    ASSUME LifeTypes, NEW R \in SUBSET Runtimes, ScheduleFailedCleanup(R), status' \in [Runtimes -> Statuses]
    PROVE  LifeTypes'
BY DEF LifeTypes, ScheduleFailedCleanup

\* _fail_runtime gives runtimes a status and empties their buffers.
LEMMA FailTypes ==
    ASSUME LifeTypes, NEW R \in SUBSET Runtimes, Fail(R)
    PROVE  status' \in [Runtimes -> Statuses] /\ Discard(R)
BY DEF LifeTypes, Fail, Statuses

\* deque.remove leaves a sequence over the same elements.
LEMMA WithoutType ==
    ASSUME NEW S, NEW q \in Seq(S), NEW x
    PROVE  Without(q, x) \in Seq(S)
BY DEF Without

--------------------------------------------------------------------------------
\* The public methods of the orchestrator preserve the types.
LEMMA ClientTypes ==
    ASSUME TypeOK, NEW s \in Sessions,
           \/ \E f \in Finals : CreateSession(s, f)
           \/ \E q \in SeqIds, A \in SUBSET IngressArtifacts : TryPushInputs(s, q, A)
           \/ \E f \in SeqIds : FinishInputs(s, f)
           \/ PollOutputs(s)
           \/ CancelSession(s)
           \/ CloseSession(s)
    PROVE  TypeOK'
<1> USE DEF TypeOK
<1>1. ASSUME NEW f \in Finals, CreateSession(s, f) PROVE TypeOK'
  <2>1. TableTypes'
    BY <1>1, WithoutType, EnvironmentAssumption DEF CreateSession, TableTypes, Runtimes
  <2>2. FlowTypes'
    BY <1>1, EnvironmentAssumption DEF CreateSession, FlowTypes
  <2>3. LifeTypes'
    BY <1>1 DEF CreateSession, LifeTypes, Statuses
  <2> QED
    BY <1>1, <2>1, <2>2, <2>3, TypesUnchanged DEF CreateSession, ControlTypes
<1>2. ASSUME NEW q \in SeqIds, NEW A \in SUBSET IngressArtifacts, TryPushInputs(s, q, A)
      PROVE  TypeOK'
  <2>1. sessions[s] \in Runtimes
    BY <1>2, RunningRuntimes DEF TryPushInputs
  <2>2. {<<q, e.artifact, e.target>> : e \in {d \in Edges : d.artifact \in A}}
          \subseteq SeqIds \X Artifacts \X Stages
    BY GraphAssumption
  <2>3. slots' \in [Runtimes -> SUBSET (SeqIds \X Artifacts \X Stages)]
    BY <1>2, <2>1, <2>2 DEF TryPushInputs, FlowTypes
  <2>4. FlowTypes'
    BY <1>2, <2>3 DEF TryPushInputs, FlowTypes
  <2>5. ControlTypes'
    BY <1>2, StartPumpTypes DEF TryPushInputs, ControlTypes
  <2> QED
    BY <1>2, <2>4, <2>5, TypesUnchanged DEF TryPushInputs
<1>3. ASSUME NEW f \in SeqIds, FinishInputs(s, f) PROVE TypeOK'
  <2>1. FlowTypes'
    BY <1>3 DEF FinishInputs, FlowTypes
  <2>2. ControlTypes'
    BY <1>3, StartPumpTypes DEF FinishInputs, ControlTypes
  <2> QED
    BY <1>3, <2>1, <2>2, TypesUnchanged DEF FinishInputs
<1>4. ASSUME PollOutputs(s) PROVE TypeOK'
  <2>1. FlowTypes'
    <3>1. << >> \in Seq(Nat)
      OBVIOUS
    <3> QED
      BY <1>4, <3>1 DEF PollOutputs, FlowTypes
  <2>2. ControlTypes'
    BY <1>4, StartPumpTypes DEF PollOutputs, ControlTypes
  <2> QED
    BY <1>4, <2>1, <2>2, TypesUnchanged DEF PollOutputs
<1>5. ASSUME CancelSession(s) PROVE TypeOK'
  <2>1. FlowTypes'
    BY <1>5, DiscardTypes DEF CancelSession
  <2>2. LifeTypes'
    BY <1>5 DEF CancelSession, LifeTypes, Statuses
  <2>3. CleanTypes'
    BY <1>5 DEF CancelSession, CleanTypes, Callers
  <2> QED
    BY <1>5, <2>1, <2>2, <2>3, TypesUnchanged DEF CancelSession, tableVars, TableTypes, ControlTypes
<1>6. ASSUME CloseSession(s) PROVE TypeOK'
  <2>1. FlowTypes'
    BY <1>6, DiscardTypes DEF CloseSession
  <2>2. LifeTypes'
    BY <1>6 DEF CloseSession, LifeTypes, Statuses
  <2>3. CleanTypes'
    BY <1>6 DEF CloseSession, CleanTypes, Callers
  <2> QED
    BY <1>6, <2>1, <2>2, <2>3, TypesUnchanged DEF CloseSession
<1> QED
  BY <1>1, <1>2, <1>3, <1>4, <1>5, <1>6

\* A turn of the pump preserves the types, whether it admits, fails or skips.
LEMMA PumpTypes ==
    ASSUME TypeOK, NEW s \in Sessions,
           \/ PumpSkip(s)
           \/ \E st \in Stages : PumpAdmit(s, st) \/ PumpFailActor(s, st) \/ PumpSubmitError(s, st)
    PROVE  TypeOK'
<1> USE DEF TypeOK
<1>1. CASE PumpSkip(s)
  <2>1. TableTypes'
    BY <1>1, TurnTypes DEF PumpSkip, TableTypes
  <2>2. ControlTypes'
    BY <1>1, EndTurnTypes DEF PumpSkip, ControlTypes
  <2> QED
    BY <1>1, <2>1, <2>2, TypesUnchanged DEF PumpSkip
<1>2. ASSUME NEW st \in Stages, PumpAdmit(s, st) PROVE TypeOK'
  <2> DEFINE r == sessions[s]
  <2>1. r \in Runtimes
    BY <1>2, RunningRuntimes DEF PumpAdmit
  <2>2. PICK q \in Runnable(r, st) :
          /\ slots' = [slots EXCEPT ![r] = @ \ {<<q, a, st>> : a \in Consumes[st]}]
          /\ inFlight' = [inFlight EXCEPT ![r] = @ \cup {<<st, q>>}]
          /\ admitted' = [admitted EXCEPT ![r] = @ \cup {<<st, q>>}]
          /\ queue' = [queue EXCEPT ![st] = Append(@, Invoke(r, q))]
          /\ EndTurn(TRUE, {<<r, st, q>>})
    BY <1>2 DEF PumpAdmit
  <2>3. q \in SeqIds
    BY DEF Runnable, Candidates
  <2>4. TableTypes'
    BY <1>2, TurnTypes DEF PumpAdmit, TableTypes
  <2>5. FlowTypes'
    BY <1>2, <2>1, <2>2, <2>3 DEF PumpAdmit, FlowTypes
  <2>6. Invoke(r, q) \in Messages
    BY <2>1, <2>3 DEF Invoke, Messages
  <2>7. ActorTypes'
    BY <1>2, <2>2, <2>6 DEF PumpAdmit, ActorTypes
  <2>8. ControlTypes'
    <3>1. {<<r, st, q>>} \in SUBSET (Runtimes \X Stages \X SeqIds)
      BY <2>1, <2>3
    <3>2. pump' \in Pumps
      BY <2>2, <3>1, EndTurnTypes
    <3> QED
      BY <1>2, <3>2 DEF PumpAdmit, ControlTypes
  <2> QED
    BY <1>2, <2>4, <2>5, <2>7, <2>8, TypesUnchanged DEF PumpAdmit
<1>3. ASSUME NEW st \in Stages, PumpFailActor(s, st) PROVE TypeOK'
  <2>1. LifeTypes'
    BY <1>3, RunningRuntimes, FailTypes, ScheduleTypes DEF PumpFailActor
  <2>2. FlowTypes'
    BY <1>3, DiscardTypes DEF PumpFailActor, Fail
  <2>3. TableTypes'
    BY <1>3, TurnTypes DEF PumpFailActor, TableTypes
  <2>4. ControlTypes'
    BY <1>3, EndTurnTypes DEF PumpFailActor, ControlTypes
  <2> QED
    BY <1>3, <2>1, <2>2, <2>3, <2>4, TypesUnchanged DEF PumpFailActor
<1>4. ASSUME NEW st \in Stages, PumpSubmitError(s, st) PROVE TypeOK'
  <2>1. LifeTypes'
    BY <1>4, RunningRuntimes, FailTypes, ScheduleTypes DEF PumpSubmitError
  <2>2. FlowTypes'
    BY <1>4, DiscardTypes DEF PumpSubmitError, Fail
  <2>3. TableTypes'
    BY <1>4, TurnTypes DEF PumpSubmitError, TableTypes
  <2>4. ControlTypes'
    BY <1>4, EndTurnTypes DEF PumpSubmitError, ControlTypes
  <2> QED
    BY <1>4, <2>1, <2>2, <2>3, <2>4, TypesUnchanged DEF PumpSubmitError
<1> QED
  BY <1>1, <1>2, <1>3, <1>4

\* The message at the head of a mailbox is a message.
LEMMA HeadIsMessage ==
    ASSUME ActorTypes, NEW st \in Stages, queue[st] # << >>
    PROVE  Head(queue[st]) \in Messages
BY DEF ActorTypes

\* What every completion does to the mailbox and the pump preserves their types.
LEMMA ResolveTypes ==
    ASSUME TypeOK, NEW st \in Stages, NEW m, Resolve(st, m)
    PROVE  /\ m \in Messages
           /\ TableTypes' /\ CleanTypes' /\ ActorTypes'
           /\ pump' \in Pumps
           /\ shutdown' = shutdown
<1> USE DEF TypeOK
<1>1. m \in Messages
  BY HeadIsMessage DEF Resolve
<1>2. ActorTypes'
  BY DEF Resolve, ActorTypes
<1>3. pump' \in Pumps
  <2>1. CASE pump.active
    <3>1. pump.left \in Nat /\ Len(order) \in Nat
      BY DEF ControlTypes, Pumps, TableTypes
    <3>2. {} \in SUBSET (Runtimes \X Stages \X SeqIds)
      OBVIOUS
    <3>3. pump' = [active |-> TRUE, left |-> pump.left + Len(order), progress |-> TRUE, last |-> {}]
      BY <2>1 DEF Resolve
    <3> QED
      BY <3>1, <3>2, <3>3 DEF Pumps
  <2>2. CASE ~pump.active
    BY <2>2, StartPumpTypes DEF Resolve
  <2> QED
    BY <2>1, <2>2
<1> QED
  BY <1>1, <1>2, <1>3, TypesUnchanged DEF Resolve

\* The four outcomes of _complete preserve the types.
LEMMA CompleteTypes ==
    ASSUME TypeOK, NEW st \in Stages, Complete(st)
    PROVE  TypeOK'
<1> USE DEF TypeOK
<1> DEFINE m == Head(queue[st])
           r == m.runtime
           q == m.seq
<1> SUFFICES ASSUME Resolve(st, m) PROVE TypeOK'
  BY DEF Complete, CompleteAnomalous, CompleteFailed, CompleteDropped, CompletePublished
<1>1. /\ r \in Runtimes /\ q \in SeqIds
      /\ TableTypes' /\ CleanTypes' /\ ActorTypes'
      /\ pump' \in Pumps
      /\ shutdown' = shutdown
  BY ResolveTypes DEF Messages
<1>2. ControlTypes'
  <2>1. CASE CompleteAnomalous(st)
    <3>1. PICK kind \in {"stale", "orphaned"} : anomalies' = [anomalies EXCEPT ![kind] = @ + 1]
      BY <2>1 DEF CompleteAnomalous
    <3>2. anomalies \in [{"stale", "orphaned"} -> Nat]
      BY DEF ControlTypes
    <3>3. anomalies' \in [{"stale", "orphaned"} -> Nat]
      BY ONLY <3>1, <3>2
    <3> QED
      BY <1>1, <3>3 DEF ControlTypes
  <2>2. CASE ~CompleteAnomalous(st)
    BY <2>2, <1>1 DEF Complete, CompleteFailed, CompleteDropped, CompletePublished, ControlTypes
  <2> QED
    BY <2>1, <2>2
<1> HIDE DEF m, r, q
<1>3. CASE CompleteAnomalous(st)
  BY <1>1, <1>2, <1>3, TypesUnchanged DEF CompleteAnomalous
<1>4. CASE CompleteFailed(st)
  <2> DEFINE failing == IF health[st] = "running" THEN {r} \cap Running ELSE Running
  <2>1. failing \in SUBSET Runtimes
    BY RunningRuntimes
  <2>2. Fail(failing) /\ ScheduleFailedCleanup(failing \cup {r})
    BY <1>4 DEF CompleteFailed, m, r
  <2> HIDE DEF failing
  <2>3. LifeTypes'
    BY <1>1, <2>1, <2>2, FailTypes, ScheduleTypes
  <2>4. inFlight' \in [Runtimes -> SUBSET (Stages \X SeqIds)]
    BY <1>4 DEF CompleteFailed, FlowTypes
  <2>5. FlowTypes'
    BY <1>4, <2>2, <2>4 DEF CompleteFailed, Fail, Discard, FlowTypes
  <2> QED
    BY <1>1, <1>2, <2>3, <2>5
<1>5. CASE CompleteDropped(st)
  <2>1. ScheduleFailedCleanup({r}) /\ status' = status
    BY <1>5 DEF CompleteDropped, m, r
  <2>2. LifeTypes'
    BY <1>1, <2>1, ScheduleTypes DEF LifeTypes
  <2>3. FlowTypes'
    BY <1>5 DEF CompleteDropped, FlowTypes
  <2> QED
    BY <1>1, <1>2, <2>2, <2>3
<1>6. CASE CompletePublished(st)
  <2> DEFINE P == pending[r] \cup {<<q, a>> : a \in Produces[st] \cap OutputArtifacts}
             n == nextEmit[r]
             E == Emitted(P, n)
             made == {<<q, e.artifact, e.target>> : e \in {d \in Edges : d.source = st}}
             new == [i \in 1 .. Cardinality(E) |-> n + i - 1]
  <2>1. /\ inFlight' = [inFlight EXCEPT ![r] = @ \ {<<st, q>>}]
        /\ slots' = [slots EXCEPT ![r] = @ \cup made]
        /\ pending' = [pending EXCEPT ![r] = {p \in P : p[1] \notin E}]
        /\ outputs' = [outputs EXCEPT ![r] = @ \o new]
        /\ nextEmit' = [nextEmit EXCEPT ![r] = n + Cardinality(E)]
        /\ frontier' = [frontier EXCEPT ![r][st] = IF st \in Strict THEN q + 1 ELSE @]
        /\ UNCHANGED <<final, admitted, lifeVars>>
    BY <1>6 DEF CompletePublished, m, r, q
  <2>2. n \in Nat
    BY <1>1 DEF FlowTypes
  <2>3. Cardinality(E) \in Nat
    <3>1. IsFiniteSet(n .. MaxSeq)
      BY <2>2, BoundsAssumption, FS_Interval
    <3>2. E \subseteq n .. MaxSeq
      BY DEF Emitted
    <3> HIDE DEF E
    <3> QED
      BY <3>1, <3>2, FS_Subset, FS_CardinalityType
  <2>4. P \subseteq SeqIds \X Artifacts
    BY <1>1, GraphAssumption DEF FlowTypes
  <2>5. made \subseteq SeqIds \X Artifacts \X Stages
    BY <1>1, GraphAssumption
  <2>6. new \in Seq(Nat)
    <3> DEFINE c == Cardinality(E)
    <3>1. c \in Nat /\ \A i \in 1 .. c : n + i - 1 \in Nat
      BY <2>2, <2>3
    <3> HIDE DEF c
    <3> QED
      BY <3>1 DEF c
  <2> HIDE DEF P, E, made, n, new
  <2>7. outputs' \in [Runtimes -> Seq(Nat)]
    BY <1>1, <2>1, <2>6 DEF FlowTypes
  <2>8. frontier' \in [Runtimes -> [Stages -> Nat]]
    BY <1>1, <2>1 DEF FlowTypes, SeqIds
  <2>9. FlowTypes'
    BY <1>1, <2>1, <2>2, <2>3, <2>4, <2>5, <2>7, <2>8 DEF FlowTypes
  <2> QED
    BY <1>1, <1>2, <2>1, <2>9, TypesUnchanged DEF lifeVars
<1> QED
  BY <1>3, <1>4, <1>5, <1>6 DEF Complete

\* The steps of an actor's thread, of its failure and of its abandonment preserve
\* the types.
LEMMA ActorStepTypes ==
    ASSUME TypeOK, NEW st \in Stages,
           Start(st) \/ WorkerFail(st) \/ AbandonActor(st) \/ \E ok \in BOOLEAN : CloserDone(st, ok)
    PROVE  TypeOK'
<1> USE DEF TypeOK
<1>1. CASE Start(st)
  BY <1>1, TypesUnchanged DEF Start, ActorTypes
<1>2. CASE WorkerFail(st)
  BY <1>2, TypesUnchanged DEF WorkerFail, ActorTypes
<1>3. CASE AbandonActor(st)
  BY <1>3, TypesUnchanged DEF AbandonActor, ControlTypes
<1>4. ASSUME NEW ok \in BOOLEAN, CloserDone(st, ok) PROVE TypeOK'
  <2>1. Head(queue[st]) \in Messages
    BY <1>4, HeadIsMessage DEF CloserDone
  <2>2. ActorTypes'
    <3>1. /\ queue \in [Stages -> Seq(Messages)] /\ queue[st] # << >>
          /\ busy \in [Stages -> BOOLEAN] /\ UNCHANGED health
          /\ queue' = [queue EXCEPT ![st] = Tail(@)]
          /\ busy' = [busy EXCEPT ![st] = FALSE]
      BY <1>4 DEF CloserDone, ActorTypes
    <3>2. queue[st] \in Seq(Messages)
      BY ONLY <3>1, st \in Stages
    <3>3. Tail(queue[st]) \in Seq(Messages)
      BY ONLY <3>1, <3>2
    <3>4. queue' \in [Stages -> Seq(Messages)]
      BY ONLY <3>1, <3>3
    <3>5. busy' \in [Stages -> BOOLEAN]
      BY ONLY <3>1
    <3> QED
      BY <3>1, <3>4, <3>5 DEF ActorTypes
  <2>3. CleanTypes'
    <3> DEFINE m == Head(queue[st])
               r == m.runtime
               wrong == pass[r].error \/ ~ok
               next == [pass[r] EXCEPT !.todo = @ \ {st}, !.sent = FALSE, !.error = wrong]
    <3>1. r \in Runtimes
      BY <2>1 DEF Messages
    <3>2. next \in Passes
      <4>1. pass[r] \in Passes
        BY <3>1 DEF CleanTypes
      <4>2. wrong \in BOOLEAN
        OBVIOUS
      <4> HIDE DEF wrong
      <4> QED
        BY <4>1, <4>2 DEF Passes
    <3>3. \/ UNCHANGED <<cleaned, pass>>
          \/ /\ cleaned' = IF ok THEN [cleaned EXCEPT ![r] = @ \cup {st}] ELSE cleaned
             /\ pass' = [pass EXCEPT ![r] = next]
      BY <1>4, <3>1 DEF CloserDone, CleanTypes
    <3> HIDE DEF m, r, next
    <3>4. cleaned' \in [Runtimes -> SUBSET Stages]
      BY <3>3 DEF CleanTypes
    <3>5. pass' \in [Runtimes -> Passes]
      BY <3>2, <3>3 DEF CleanTypes
    <3>6. UNCHANGED <<complete, cleanupError, calls, deleting>>
      BY <1>4 DEF CloserDone
    <3> QED
      BY <3>4, <3>5, <3>6 DEF CleanTypes
  <2> QED
    BY <1>4, <2>2, <2>3, TypesUnchanged DEF CloserDone
<1> QED
  BY <1>1, <1>2, <1>3, <1>4

\* The steps of _cleanup_session and of its callers preserve the types.
LEMMA CleanupTypes ==
    ASSUME TypeOK, NEW r \in Runtimes, Cleanup(r)
    PROVE  TypeOK'
<1> USE DEF TypeOK
<1>1. pass[r] \in Passes
  BY DEF CleanTypes
<1>2. ASSUME NEW by \in Callers, AcquireCleanup(r, by) PROVE TypeOK'
  <2> DEFINE start == [NoPass EXCEPT !.by = by, !.phase = "drain"]
  <2>1. start \in Passes
    BY DEF NoPass, Passes
  <2>2. \/ Returned(r, by) /\ UNCHANGED <<pass, cleanupError>>
        \/ /\ pass' = [pass EXCEPT ![r] = start]
           /\ cleanupError' = [cleanupError EXCEPT ![r] = FALSE]
           /\ UNCHANGED deleting
    BY <1>2 DEF AcquireCleanup
  <2> HIDE DEF start
  <2>3. CleanTypes'
    BY <1>2, <2>1, <2>2 DEF AcquireCleanup, Returned, CleanTypes
  <2> QED
    BY <1>2, <2>3, TypesUnchanged DEF AcquireCleanup
<1>3. CASE Drained(r)
  <2>1. pass' = [pass EXCEPT ![r] = [@ EXCEPT !.phase = "clean", !.todo = Stages \ cleaned[r]]]
    BY <1>3 DEF Drained
  <2>2. CleanTypes'
    BY <1>3, <1>1, <2>1 DEF Drained, CleanTypes, Passes
  <2> QED
    BY <1>3, <2>2, TypesUnchanged DEF Drained
<1>4. ASSUME NEW st \in Stages, SendClose(r, st) PROVE TypeOK'
  <2>1. CloseMsg(r) \in Messages
    BY BoundsAssumption DEF CloseMsg, Messages, SeqIds
  <2>2. ActorTypes'
    BY <1>4, <2>1 DEF SendClose, ActorTypes
  <2>3. CleanTypes'
    BY <1>4, <1>1 DEF SendClose, CleanTypes, Passes
  <2> QED
    BY <1>4, <2>2, <2>3, TypesUnchanged DEF SendClose
<1>5. ASSUME NEW st \in Stages, CloseRefused(r, st) PROVE TypeOK'
  <2>1. CleanTypes'
    BY <1>5, <1>1 DEF CloseRefused, CleanTypes, Passes
  <2> QED
    BY <1>5, <2>1, TypesUnchanged DEF CloseRefused
<1>6. CASE EndPass(r)
  <2> DEFINE bad == pass[r].error \/ slots[r] # {}
             done == ~bad /\ cleaned[r] = Stages
  <2>1. NoPass \in Passes
    BY DEF NoPass, Passes
  <2>2. bad \in BOOLEAN /\ done \in BOOLEAN
    OBVIOUS
  <2>3. /\ complete' = [complete EXCEPT ![r] = done]
        /\ cleanupError' = [cleanupError EXCEPT ![r] = bad]
        /\ pass' = [pass EXCEPT ![r] = NoPass]
        /\ UNCHANGED deleting \/ Returned(r, pass[r].by)
        /\ UNCHANGED <<cleaned, calls>>
    BY <1>6 DEF EndPass
  <2> HIDE DEF bad, done
  <2>4. CleanTypes'
    BY <2>1, <2>2, <2>3 DEF CleanTypes, Returned
  <2>5. FlowTypes'
    BY <1>6, DiscardTypes DEF EndPass, FlowTypes
  <2> QED
    BY <1>6, <2>4, <2>5, TypesUnchanged DEF EndPass
<1>7. CASE DeleteSession(r)
  <2>1. TableTypes'
    <3>1. Without(order, owner[r]) \in Seq(Sessions) /\ 0 \in 0 .. MaxEpoch
      BY WithoutType, BoundsAssumption DEF TableTypes
    <3>2. order' \in Seq(Sessions)
      BY <1>7, <3>1 DEF DeleteSession, TableTypes
    <3>3. sessions' \in [Sessions -> 0 .. MaxEpoch]
      BY <1>7, <3>1 DEF DeleteSession, TableTypes
    <3> QED
      BY <1>7, <3>2, <3>3 DEF DeleteSession, TableTypes
  <2>2. CleanTypes'
    BY <1>7 DEF DeleteSession, CleanTypes
  <2> QED
    BY <1>7, <2>1, <2>2, TypesUnchanged DEF DeleteSession
<1>8. CASE TakeFailed(r)
  <2>1. CleanTypes'
    BY <1>8 DEF TakeFailed, CleanTypes, Callers
  <2>2. LifeTypes'
    BY <1>8 DEF TakeFailed, LifeTypes
  <2>3. ControlTypes'
    BY <1>8 DEF TakeFailed, ControlTypes, Phases
  <2> QED
    BY <1>8, <2>1, <2>2, <2>3, TypesUnchanged DEF TakeFailed
<1> QED
  BY <1>2, <1>3, <1>4, <1>5, <1>6, <1>7, <1>8 DEF Cleanup

\* The timeouts of a cleanup preserve the types.
LEMMA TimeoutTypes ==
    ASSUME TypeOK, NEW r \in Runtimes, Timeout(r)
    PROVE  TypeOK'
<1> USE DEF TypeOK
<1>1. pass[r] \in Passes /\ NoPass \in Passes
  BY DEF CleanTypes, NoPass, Passes
<1>2. ASSUME NEW by \in Callers, LockTimeout(r, by) PROVE TypeOK'
  <2>1. CleanTypes'
    BY <1>2 DEF LockTimeout, CleanTypes
  <2> QED
    BY <1>2, <2>1, TypesUnchanged DEF LockTimeout
<1>3. CASE DrainTimeout(r)
  <2>1. CleanTypes'
    BY <1>3, <1>1 DEF DrainTimeout, CleanTypes
  <2> QED
    BY <1>3, <2>1, TypesUnchanged DEF DrainTimeout
<1>4. CASE StageTimeout(r)
  <2>1. CleanTypes'
    BY <1>4, <1>1 DEF StageTimeout, CleanTypes, Passes
  <2>2. ASSUME NEW st \in Stages PROVE queue'[st] \in Seq(Messages)
    <3> DEFINE late(m) == IF m = CloseMsg(r) THEN [m EXCEPT !.kind = "late"] ELSE m
    <3>1. queue'[st] = [i \in DOMAIN queue[st] |-> late(queue[st][i])]
      BY <1>4 DEF StageTimeout
    <3>2. \A m \in Messages : late(m) \in Messages
      BY DEF Messages
    <3>3. queue[st] \in Seq(Messages)
      BY DEF ActorTypes
    <3> HIDE DEF late
    <3> QED
      BY <3>1, <3>2, <3>3
  <2>3. ActorTypes'
    BY <1>4, <2>2 DEF StageTimeout, ActorTypes
  <2> QED
    BY <1>4, <2>1, <2>3, TypesUnchanged DEF StageTimeout
<1> QED
  BY <1>2, <1>3, <1>4 DEF Timeout

\* The steps of close() preserve the types.
LEMMA ShutdownTypes ==
    ASSUME TypeOK, ShutdownBegin \/ Shutdown
    PROVE  TypeOK'
<1> USE DEF TypeOK
<1>1. CASE ShutdownBegin
  <2>1. FlowTypes'
    BY <1>1, DiscardTypes DEF ShutdownBegin
  <2>2. LifeTypes'
    BY <1>1 DEF ShutdownBegin, LifeTypes, Statuses
  <2>3. Current \subseteq Runtimes
    BY CurrentRuntime DEF Current
  <2>4. ControlTypes'
    BY <1>1, <2>3 DEF ShutdownBegin, ControlTypes, Phases
  <2> QED
    BY <1>1, <2>1, <2>2, <2>4, TypesUnchanged DEF ShutdownBegin
<1>2. ASSUME NEW r \in Runtimes, ShutdownSession(r) PROVE TypeOK'
  <2>1. ControlTypes'
    BY <1>2 DEF ShutdownSession, ControlTypes, Phases
  <2>2. CleanTypes'
    BY <1>2 DEF ShutdownSession, CleanTypes, Callers
  <2> QED
    BY <1>2, <2>1, <2>2, TypesUnchanged DEF ShutdownSession
<1>3. CASE ShutdownStopThread
  <2>1. ControlTypes'
    BY <1>3 DEF ShutdownStopThread, ControlTypes, LifeTypes, Phases
  <2> QED
    BY <1>3, <2>1, TypesUnchanged DEF ShutdownStopThread
<1>4. CASE ShutdownJoin
  <2>1. ControlTypes'
    BY <1>4 DEF ShutdownJoin, ControlTypes, Phases
  <2> QED
    BY <1>4, <2>1, TypesUnchanged DEF ShutdownJoin
<1>5. ASSUME NEW st \in Stages, CloseActor(st) PROVE TypeOK'
  BY <1>5, TypesUnchanged DEF CloseActor, ActorTypes
<1>6. ASSUME NEW st \in Stages, JoinActor(st) PROVE TypeOK'
  <2>1. ControlTypes'
    BY <1>6 DEF JoinActor, ControlTypes
  <2> QED
    BY <1>6, <2>1, TypesUnchanged DEF JoinActor
<1>7. CASE ShutdownDone
  <2>1. TableTypes'
    <3>1. << >> \in Seq(Sessions) /\ 0 \in 0 .. MaxEpoch
      BY BoundsAssumption
    <3> QED
      BY <1>7, <3>1 DEF ShutdownDone, TableTypes
  <2>2. ControlTypes'
    BY <1>7 DEF ShutdownDone, ControlTypes, Phases
  <2> QED
    BY <1>7, <2>1, <2>2, TypesUnchanged DEF ShutdownDone
<1> QED
  BY <1>1, <1>2, <1>3, <1>4, <1>5, <1>6, <1>7 DEF Shutdown

\* A new orchestrator is well-typed.
LEMMA InitTypes == Init => TypeOK
<1> SUFFICES ASSUME Init PROVE TypeOK
  OBVIOUS
<1> USE BoundsAssumption, EnvironmentAssumption DEF Init
<1>1. TableTypes
  BY DEF TableTypes
<1>2. FlowTypes
  BY DEF FlowTypes
<1>3. LifeTypes /\ ActorTypes
  BY DEF LifeTypes, ActorTypes, Statuses
<1>4. CleanTypes
  BY DEF CleanTypes, NoPass, Passes
<1>5. ControlTypes
  BY DEF ControlTypes, PumpIdle, Pumps, Phases
<1> QED
  BY <1>1, <1>2, <1>3, <1>4, <1>5 DEF TypeOK

\* Every step preserves the types.
LEMMA StepTypes == TypeOK /\ [Next]_vars => TypeOK'
<1> SUFFICES ASSUME TypeOK, [Next]_vars PROVE TypeOK'
  OBVIOUS
<1>1. CASE Client
  BY <1>1, ClientTypes DEF Client
<1>2. CASE PumpTurn
  BY <1>2, PumpTypes DEF PumpTurn
<1>3. ASSUME NEW st \in Stages, Actor(st) \/ WorkerFail(st) \/ AbandonActor(st) PROVE TypeOK'
  BY <1>3, CompleteTypes, ActorStepTypes DEF Actor
<1>4. ASSUME NEW r \in Runtimes, Cleanup(r) \/ Timeout(r) PROVE TypeOK'
  BY <1>4, CleanupTypes, TimeoutTypes
<1>5. CASE ShutdownBegin \/ Shutdown
  BY <1>5, ShutdownTypes
<1>6. CASE UNCHANGED vars
  BY <1>6, TypesUnchanged DEF TypeOK, vars
<1> QED
  BY <1>1, <1>2, <1>3, <1>4, <1>5, <1>6 DEF Next

\* Every field keeps its type in every reachable state.
THEOREM TypeCorrect == Spec => []TypeOK
BY InitTypes, StepTypes, PTL DEF Spec
================================================================================
