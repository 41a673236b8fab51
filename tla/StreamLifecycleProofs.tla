------------------------- MODULE StreamLifecycleProofs -------------------------
(***************************************************************************)
(* The lifecycle of sessions, for every graph and every number of          *)
(* sessions: LifecycleInv is inductive, the properties about invocations   *)
(* and releases of stage state follow from it, and ReleaseInv, the order   *)
(* of the releases, is inductive too.  So is WakeInv, as long as no        *)
(* mailbox holds a close message: then no wakeup is lost.                  *)
(***************************************************************************)
EXTENDS StreamSchedulerProofs

--------------------------------------------------------------------------------
(* Mailboxes as sequences.                                                 *)

\* The elements of a sequence that one is appended to.
LEMMA AppendFacts ==
    ASSUME NEW S, NEW q \in Seq(S), NEW m \in S
    PROVE  /\ Append(q, m) \in Seq(S)
           /\ DOMAIN Append(q, m) = DOMAIN q \cup {Len(q) + 1}
           /\ Len(q) + 1 \notin DOMAIN q
           /\ Append(q, m)[Len(q) + 1] = m
           /\ \A i \in DOMAIN q : Append(q, m)[i] = q[i]
OBVIOUS

\* The elements of the tail of a sequence.
LEMMA TailFacts ==
    ASSUME NEW S, NEW q \in Seq(S), q # << >>
    PROVE  /\ Tail(q) \in Seq(S)
           /\ 1 \in DOMAIN q /\ Head(q) = q[1] /\ Head(q) \in S
           /\ \A i \in DOMAIN Tail(q) : i + 1 \in DOMAIN q /\ i + 1 # 1 /\ Tail(q)[i] = q[i + 1]
           /\ \A i \in DOMAIN q : i # 1 => i - 1 \in DOMAIN Tail(q) /\ Tail(q)[i - 1] = q[i]
           /\ DOMAIN q \subseteq Nat /\ DOMAIN Tail(q) \subseteq Nat
OBVIOUS

\* A message of a mailbox is a message.
LEMMA MailboxMessages ==
    ASSUME TypeOK, NEW st \in Stages, NEW i \in DOMAIN queue[st]
    PROVE  queue[st][i] \in Messages
BY DEF TypeOK, ActorTypes

\* Appending a fresh invocation that becomes in flight.
LEMMA AdmitMailbox ==
    ASSUME TypeOK, MailboxInv, NEW r \in Runtimes, NEW st \in Stages, NEW q \in SeqIds,
           <<st, q>> \notin inFlight[r],
           inFlight' = [inFlight EXCEPT ![r] = @ \cup {<<st, q>>}],
           queue' = [queue EXCEPT ![st] = Append(@, Invoke(r, q))]
    PROVE  /\ MailboxInv'
           /\ \A x \in Runtimes : CloseHeld(x)' => CloseHeld(x)
           /\ \A x \in Runtimes, t \in Stages \X SeqIds : Held(t, x) => Held(t, x)'
           /\ Held(<<st, q>>, r)'
<1> DEFINE m == Invoke(r, q)
           n == Len(queue[st]) + 1
<1>1. m \in Messages /\ m.kind = "run" /\ m.runtime = r /\ m.seq = q
  BY DEF Invoke, Messages
<1>2. queue[st] \in Seq(Messages) /\ queue \in [Stages -> Seq(Messages)]
  BY DEF TypeOK, ActorTypes
<1>3. /\ queue'[st] = Append(queue[st], m)
      /\ DOMAIN queue'[st] = DOMAIN queue[st] \cup {n}
      /\ n \notin DOMAIN queue[st]
      /\ queue'[st][n] = m
      /\ \A i \in DOMAIN queue[st] : queue'[st][i] = queue[st][i]
      /\ \A t \in Stages : t # st => queue'[t] = queue[t]
  BY <1>1, <1>2, AppendFacts
<1> HIDE DEF m, n
<1>4. /\ Invocations(st)' = Invocations(st) \cup {n}
      /\ \A t \in Stages : t # st => Invocations(t)' = Invocations(t)
  BY <1>1, <1>3 DEF Invocations
<1>5. /\ inFlight'[r] = inFlight[r] \cup {<<st, q>>}
      /\ \A x \in Runtimes : inFlight[x] \subseteq inFlight'[x]
  BY DEF TypeOK, FlowTypes
<1>6. \A t \in Stages : \A i \in Invocations(t) : queue[t][i].runtime \in Runtimes
  BY MailboxMessages DEF Invocations, Messages
<1>7. ASSUME NEW i \in Invocations(st)
      PROVE  ~(queue[st][i].runtime = r /\ queue[st][i].seq = q)
  BY DEF MailboxInv
<1>8. MailboxInv'
  <2> SUFFICES ASSUME NEW t \in Stages, NEW i \in Invocations(t)'
               PROVE  /\ <<t, queue'[t][i].seq>> \in inFlight'[queue'[t][i].runtime]
                      /\ \A j \in Invocations(t)' :
                           queue'[t][j].runtime = queue'[t][i].runtime
                             /\ queue'[t][j].seq = queue'[t][i].seq => i = j
    BY DEF MailboxInv
  <2>1. CASE t # st
    BY <2>1, <1>3, <1>4, <1>5, <1>6 DEF MailboxInv
  <2>2. CASE t = st /\ i = n
    BY <2>2, <1>1, <1>3, <1>4, <1>5, <1>7 DEF Invocations
  <2>3. CASE t = st /\ i \in Invocations(st)
    <3>1. i \in DOMAIN queue[st] /\ queue'[st][i] = queue[st][i]
      BY <2>3, <1>3 DEF Invocations
    <3>2. <<st, queue[st][i].seq>> \in inFlight[queue[st][i].runtime]
      BY <2>3 DEF MailboxInv
    <3>3. <<st, queue'[st][i].seq>> \in inFlight'[queue'[st][i].runtime]
      BY <2>3, <3>1, <3>2, <1>5, <1>6
    <3>4. ASSUME NEW j \in Invocations(st),
                 queue'[st][j].runtime = queue'[st][i].runtime, queue'[st][j].seq = queue'[st][i].seq
          PROVE  i = j
      <4>1. j \in DOMAIN queue[st] /\ queue'[st][j] = queue[st][j]
        BY <1>3 DEF Invocations
      <4> QED
        BY <2>3, <3>1, <3>4, <4>1 DEF MailboxInv
    <3>5. ASSUME queue'[st][n].runtime = queue'[st][i].runtime, queue'[st][n].seq = queue'[st][i].seq
          PROVE  FALSE
      BY <2>3, <3>1, <3>5, <1>1, <1>3, <1>7
    <3> QED
      BY <2>3, <3>3, <3>4, <3>5, <1>4
  <2> QED
    BY <2>1, <2>2, <2>3, <1>4
<1>9. \A x \in Runtimes : CloseHeld(x)' => CloseHeld(x)
  BY <1>1, <1>3 DEF CloseHeld
<1>10. \A x \in Runtimes, t \in Stages \X SeqIds : Held(t, x) => Held(t, x)'
  BY <1>3, <1>4 DEF Held, Invocations
<1>11. Held(<<st, q>>, r)'
  BY <1>1, <1>3, <1>4 DEF Held
<1> QED
  BY <1>8, <1>9, <1>10, <1>11

\* Taking the head of a mailbox: invocations keep their place in the order, and
\* only the one taken is no longer held.
LEMMA TakeMailbox ==
    ASSUME TypeOK, MailboxInv, NEW st \in Stages, queue[st] # << >>,
           queue' = [queue EXCEPT ![st] = Tail(@)]
    PROVE  LET m == Head(queue[st])
           IN  /\ m \in Messages /\ 1 \in DOMAIN queue[st] /\ m = queue[st][1]
               /\ \A t \in Stages : t # st => queue'[t] = queue[t] /\ Invocations(t)' = Invocations(t)
               /\ \A i \in Invocations(st)' :
                    i + 1 \in Invocations(st) /\ i + 1 # 1 /\ queue'[st][i] = queue[st][i + 1]
               /\ \A i \in Invocations(st) :
                    i # 1 => i - 1 \in Invocations(st)' /\ queue'[st][i - 1] = queue[st][i]
               /\ Invocations(st)' \subseteq Nat
               /\ \A x \in Runtimes : CloseHeld(x)' => CloseHeld(x)
<1>1. queue[st] \in Seq(Messages) /\ queue'[st] = Tail(queue[st])
  BY DEF TypeOK, ActorTypes
<1>2. \A t \in Stages : t # st => queue'[t] = queue[t] /\ Invocations(t)' = Invocations(t)
  BY DEF TypeOK, ActorTypes, Invocations
<1>3. \A x \in Runtimes : CloseHeld(x)' => CloseHeld(x)
  BY <1>1, <1>2, TailFacts DEF CloseHeld
<1>4. /\ 1 \in DOMAIN queue[st] /\ Head(queue[st]) = queue[st][1] /\ Head(queue[st]) \in Messages
      /\ \A i \in DOMAIN queue'[st] :
           i + 1 \in DOMAIN queue[st] /\ i + 1 # 1 /\ queue'[st][i] = queue[st][i + 1]
      /\ \A i \in DOMAIN queue[st] :
           i # 1 => i - 1 \in DOMAIN queue'[st] /\ queue'[st][i - 1] = queue[st][i]
      /\ DOMAIN queue'[st] \subseteq Nat
  <2> DEFINE q == queue[st]
  <2>1. q \in Seq(Messages) /\ q # << >>
    BY <1>1
  <2> HIDE DEF q
  <2>2. /\ 1 \in DOMAIN q /\ Head(q) = q[1] /\ Head(q) \in Messages
        /\ \A i \in DOMAIN Tail(q) : i + 1 \in DOMAIN q /\ i + 1 # 1 /\ Tail(q)[i] = q[i + 1]
        /\ \A i \in DOMAIN q : i # 1 => i - 1 \in DOMAIN Tail(q) /\ Tail(q)[i - 1] = q[i]
        /\ DOMAIN Tail(q) \subseteq Nat
    BY <2>1, TailFacts
  <2> QED
    BY <1>1, <2>2 DEF q
<1> QED
  BY <1>2, <1>3, <1>4 DEF Invocations

--------------------------------------------------------------------------------
(* What each part of the invariant needs to know of a step.                *)

\* Tables: no runtime appears or disappears.
LEMMA TablesFrame ==
    ASSUME TypeOK, TablesInv, UNCHANGED <<epoch, sessions, owner>>,
           \A r \in Runtimes : inFlight'[r] \subseteq inFlight[r]
                              /\ (status'[r] = "none" <=> status[r] = "none")
    PROVE  TablesInv'
<1>1. \A s \in Sessions : sessions[s] # 0 => sessions[s] \in Runtimes
  BY CurrentRuntime DEF TypeOK
<1> QED
  BY <1>1 DEF TablesInv

\* Invocations: mailboxes and invocations in flight do not change.
LEMMA FlightFrame ==
    ASSUME MailboxInv, FlightInv, UNCHANGED <<queue, inFlight, sessions, owner, anomalies>>,
           shutdown'.phase # "done" => shutdown.phase # "done"
    PROVE  MailboxInv' /\ FlightInv'
BY DEF MailboxInv, FlightInv, Invocations, Held

\* Cleanups: one that a step puts further has ended before, and one it puts
\* past the drain has nothing in flight.
LEMMA CleanupFrame ==
    ASSUME CleanupInv,
           \A r \in Runtimes :
             /\ Ended(r) => Ended(r)'
             /\ Ending(r)' => Ended(r)'
             /\ Releasing(r)' => inFlight'[r] = {}
             /\ complete'[r] => cleaned'[r] = Stages
    PROVE  CleanupInv'
BY DEF CleanupInv

\* A step that touches none of this preserves the invariant.
LEMMA LifecycleFrame ==
    ASSUME TypeOK, LifecycleInv, UNCHANGED <<status, failedQueue, inFlight, queue>>,
           UNCHANGED <<epoch, sessions, owner>>, UNCHANGED cleanVars,
           UNCHANGED <<shutdown, anomalies>>
    PROVE  LifecycleInv'
<1>1. TablesInv' /\ MailboxInv' /\ FlightInv'
  BY TablesFrame, FlightFrame DEF LifecycleInv
<1>2. CleanupInv'
  BY DEF LifecycleInv, CleanupInv, Ending, Releasing, CloseHeld, Ended, cleanVars
<1> QED
  BY <1>1, <1>2 DEF LifecycleInv

\* Ending well-formed runtimes: statuses change only from running to ended.
LEMMA StatusStep ==
    ASSUME NEW r \in Runtimes, status'[r] = status[r] \/ (status[r] = "running" /\ Ended(r)')
    PROVE  /\ Ended(r) => Ended(r)'
           /\ status'[r] = "none" <=> status[r] = "none"
BY DEF Ended

--------------------------------------------------------------------------------
\* The public methods keep the invariant: create_session replaces only a runtime
\* with nothing in flight, cancel_session and close_session end one before they
\* ask for its cleanup.
LEMMA ClientLifecycle ==
    ASSUME TypeOK, LifecycleInv, NEW s \in Sessions,
           \/ \E f \in Finals : CreateSession(s, f)
           \/ \E q \in SeqIds, A \in SUBSET IngressArtifacts : TryPushInputs(s, q, A)
           \/ \E f \in SeqIds : FinishInputs(s, f)
           \/ PollOutputs(s)
           \/ CancelSession(s)
           \/ CloseSession(s)
    PROVE  LifecycleInv'
<1> USE DEF LifecycleInv
<1> DEFINE r == sessions[s]
<1>1. ASSUME NEW f \in Finals, CreateSession(s, f) PROVE LifecycleInv'
  <2> DEFINE n == epoch + 1
  <2>1. /\ n \in Runtimes /\ epoch' = n
        /\ sessions' = [sessions EXCEPT ![s] = n]
        /\ owner' = [owner EXCEPT ![n] = s]
        /\ status' = [status EXCEPT ![n] = "running"]
        /\ UNCHANGED <<inFlight, failedQueue, queue, shutdown, anomalies>> /\ UNCHANGED cleanVars
        /\ r # 0 => status[r] # "running" /\ inFlight[r] = {}
    BY <1>1 DEF CreateSession, actorVars
  <2>2. epoch \in Nat /\ n > epoch
    BY DEF TypeOK, TableTypes
  <2>3. status[n] = "none" /\ inFlight[n] = {}
    BY <2>1, <2>2 DEF TablesInv
  <2>4. \A x \in Runtimes : (x <= n <=> x <= epoch \/ x = n) /\ (x > epoch <=> ~(x <= epoch))
    BY <2>2 DEF Runtimes
  <2>5. TablesInv'
    <3>1. \A x \in Sessions : sessions[x] # 0 => sessions[x] \in Runtimes
      BY CurrentRuntime DEF TypeOK
    <3>2. \A x \in Sessions : sessions[x] # n
      BY <2>3, <2>1, <2>2, <3>1 DEF TablesInv
    <3>3. \A x \in Runtimes :
            IF x <= epoch' THEN status'[x] # "none" /\ owner'[x] \in Sessions
                           ELSE status'[x] = "none" /\ inFlight'[x] = {}
      BY <2>1, <2>2, <2>4 DEF TablesInv, TypeOK, LifeTypes, TableTypes
    <3>4. \A x \in Sessions : sessions'[x] # 0 =>
            status'[sessions'[x]] # "none" /\ owner'[sessions'[x]] = x
      BY <2>1, <2>3, <3>1, <3>2 DEF TablesInv, TypeOK, LifeTypes, TableTypes
    <3> QED
      BY <3>3, <3>4 DEF TablesInv
  <2>6. CleanupInv'
    <3>1. \A x \in Runtimes : Ending(x)' <=> Ending(x)
      BY <2>1 DEF Ending, Releasing, CloseHeld, cleanVars
    <3>2. \A x \in Runtimes : Releasing(x)' <=> Releasing(x)
      BY <2>1 DEF Releasing, CloseHeld, cleanVars
    <3>3. \A x \in Runtimes : Ended(x) => Ended(x)'
      BY <2>1, <2>3 DEF Ended, TypeOK, LifeTypes
    <3> QED
      BY <2>1, <3>1, <3>2, <3>3 DEF CleanupInv, cleanVars
  <2>7. MailboxInv'
    BY <2>1 DEF MailboxInv, Invocations
  <2>8. FlightInv'
    <3>1. ASSUME shutdown.phase # "done", NEW x \in Runtimes, inFlight[x] # {}
          PROVE  sessions'[owner'[x]] = x
      <4>1. x # n /\ x # r
        BY <2>1, <2>3, <3>1 DEF Runtimes
      <4>2. owner'[x] = owner[x] /\ sessions[owner[x]] = x
        BY <2>1, <3>1, <4>1 DEF FlightInv
      <4>3. owner[x] # s
        BY <4>1, <4>2
      <4> QED
        BY <2>1, <4>2, <4>3
    <3> QED
      BY <2>1, <3>1 DEF FlightInv, Held, Invocations
  <2> QED
    BY <2>5, <2>6, <2>7, <2>8
<1>2. ASSUME NEW q \in SeqIds, NEW A \in SUBSET IngressArtifacts, TryPushInputs(s, q, A)
      PROVE  LifecycleInv'
  BY <1>2, LifecycleFrame DEF TryPushInputs, lifeVars, tableVars, actorVars
<1>3. ASSUME NEW f \in SeqIds, FinishInputs(s, f) PROVE LifecycleInv'
  BY <1>3, LifecycleFrame DEF FinishInputs, lifeVars, tableVars, actorVars
<1>4. CASE PollOutputs(s)
  BY <1>4, LifecycleFrame DEF PollOutputs, lifeVars, tableVars, actorVars
<1>5. CASE CancelSession(s) \/ CloseSession(s)
  <2>1. /\ r \in Runtimes /\ status[r] # "none"
        /\ \A x \in Runtimes : status'[x] = status[x] \/ (status[x] = "running" /\ Ended(x)')
        /\ Ended(r)'
        /\ \A x \in Runtimes : x # r => calls'[x] = calls[x]
        /\ UNCHANGED <<inFlight, failedQueue, queue, shutdown, anomalies, epoch, sessions, owner>>
        /\ UNCHANGED <<complete, cleaned, pass, deleting>>
    <3>1. r \in Runtimes /\ status[r] # "none"
      BY <1>5, CurrentRuntime DEF CancelSession, CloseSession, TablesInv, TypeOK
    <3>2. CASE CancelSession(s)
      <4>1. \A x \in Runtimes : x # r => status'[x] = status[x] /\ calls'[x] = calls[x]
        BY <3>2 DEF CancelSession, TypeOK, LifeTypes, CleanTypes
      <4>2. status'[r] \in {"cancelled", "failed", "closed"} /\ (status'[r] = status[r] \/ status[r] = "running")
        BY <3>1, <3>2 DEF CancelSession, TypeOK, LifeTypes, Ended, Statuses, tableVars
      <4>3. /\ UNCHANGED <<inFlight, failedQueue, queue, shutdown, anomalies>>
            /\ UNCHANGED <<epoch, sessions, owner, complete, cleaned, pass, deleting>>
        BY <3>2 DEF CancelSession, tableVars, actorVars
      <4>4. \A x \in Runtimes : status'[x] = status[x] \/ (status[x] = "running" /\ Ended(x)')
        BY <4>1, <4>2 DEF Ended
      <4>5. Ended(r)'
        BY <4>2, <4>3 DEF Ended
      <4> QED
        BY <3>1, <4>1, <4>3, <4>4, <4>5
    <3>3. CASE CloseSession(s)
      <4>1. \A x \in Runtimes : x # r => status'[x] = status[x] /\ calls'[x] = calls[x]
        BY <3>3 DEF CloseSession, TypeOK, LifeTypes, CleanTypes
      <4>2. status'[r] \in {"cancelled", "failed", "closed"} /\ (status'[r] = status[r] \/ status[r] = "running")
        BY <3>1, <3>3 DEF CloseSession, TypeOK, LifeTypes, Ended, Statuses, tableVars
      <4>3. /\ UNCHANGED <<inFlight, failedQueue, queue, shutdown, anomalies>>
            /\ UNCHANGED <<epoch, sessions, owner, complete, cleaned, pass, deleting>>
        BY <3>3 DEF CloseSession, tableVars, actorVars
      <4>4. \A x \in Runtimes : status'[x] = status[x] \/ (status[x] = "running" /\ Ended(x)')
        BY <4>1, <4>2 DEF Ended
      <4>5. Ended(r)'
        BY <4>2, <4>3 DEF Ended
      <4> QED
        BY <3>1, <4>1, <4>3, <4>4, <4>5
    <3> QED
      BY <1>5, <3>2, <3>3
  <2>2. TablesInv' /\ MailboxInv' /\ FlightInv'
    BY <2>1, StatusStep, TablesFrame, FlightFrame
  <2>3. \A x \in Runtimes : (Releasing(x)' <=> Releasing(x)) /\ (Ending(x)' => Ending(x) \/ x = r)
    BY <2>1 DEF Releasing, Ending, CloseHeld
  <2>4. CleanupInv'
    BY <2>1, <2>3, StatusStep DEF CleanupInv
  <2> QED
    BY <2>2, <2>4
<1> QED
  BY <1>1, <1>2, <1>3, <1>4, <1>5

\* Failing running runtimes and scheduling their cleanup keeps the cleanups right.
LEMMA FailStep ==
    ASSUME TypeOK, LifecycleInv, NEW R \in SUBSET Runtimes, NEW F \in SUBSET R,
           \A r \in F : status[r] = "running",
           status' = [r \in Runtimes |-> IF r \in F THEN "failed" ELSE status[r]],
           ScheduleFailedCleanup(R),
           \A r \in Runtimes : inFlight'[r] \subseteq inFlight[r],
           \A r \in Runtimes : CloseHeld(r)' => CloseHeld(r),
           UNCHANGED <<epoch, sessions, owner, shutdown>>, UNCHANGED cleanVars
    PROVE  TablesInv' /\ CleanupInv'
<1>1. \A r \in Runtimes : status'[r] = status[r] \/ (status[r] = "running" /\ Ended(r)')
  BY DEF Ended
<1>2. TablesInv'
  BY <1>1, StatusStep, TablesFrame DEF LifecycleInv
<1>3. \A r \in Runtimes : r \in failedQueue' => r \in failedQueue \/ Ended(r)'
  BY DEF ScheduleFailedCleanup, Ended
<1>4. \A r \in Runtimes : Releasing(r)' => Releasing(r)
  BY DEF Releasing, cleanVars
<1>5. \A r \in Runtimes : Ending(r)' => Ending(r) \/ Ended(r)'
  BY <1>3, <1>4 DEF Ending, cleanVars
<1>6. CleanupInv'
  <2>1. \A r \in Runtimes : Ended(r) => Ended(r)'
    BY <1>1, StatusStep
  <2> QED
    BY <1>4, <1>5, <2>1 DEF CleanupInv, LifecycleInv, cleanVars
<1> QED
  BY <1>2, <1>6

\* A turn of the pump keeps the invariant: an admission puts the same invocation
\* in flight and in the mailbox, of a session that is running.
LEMMA PumpLifecycle ==
    ASSUME TypeOK, LifecycleInv, NEW s \in Sessions,
           \/ PumpSkip(s)
           \/ \E st \in Stages : PumpAdmit(s, st) \/ PumpFailActor(s, st) \/ PumpSubmitError(s, st)
    PROVE  LifecycleInv'
<1>1. CASE PumpSkip(s)
  BY <1>1, LifecycleFrame DEF PumpSkip, flowVars, lifeVars, actorVars
<1>2. ASSUME NEW st \in Stages, PumpAdmit(s, st) PROVE LifecycleInv'
  <2>1. PICK r \in Runtimes, q \in SeqIds :
          /\ r = sessions[s] /\ r \in Running /\ q \in Runnable(r, st)
          /\ inFlight' = [inFlight EXCEPT ![r] = @ \cup {<<st, q>>}]
          /\ queue' = [queue EXCEPT ![st] = Append(@, Invoke(r, q))]
    <3>1. sessions[s] \in Runtimes
      BY <1>2, RunningRuntimes DEF PumpAdmit, TypeOK
    <3>2. Runnable(sessions[s], st) \subseteq SeqIds
      BY DEF Runnable, Candidates
    <3> QED
      BY <1>2, <3>1, <3>2 DEF PumpAdmit
  <2>2. /\ status[r] = "running"
        /\ <<st, q>> \notin inFlight[r]
        /\ owner[r] = s
    <3>1. owner[r] = s
      BY <2>1 DEF LifecycleInv, TablesInv, Runtimes
    <3> QED
      BY <2>1, <3>1, RunningRuntimes DEF Runnable, TypeOK
  <2>3. /\ UNCHANGED <<epoch, sessions, owner, status, failedQueue, shutdown, anomalies>>
        /\ UNCHANGED cleanVars
    BY <1>2 DEF PumpAdmit, lifeVars
  <2>4. /\ MailboxInv'
        /\ \A x \in Runtimes : CloseHeld(x)' => CloseHeld(x)
        /\ \A x \in Runtimes, t \in Stages \X SeqIds : Held(t, x) => Held(t, x)'
        /\ Held(<<st, q>>, r)'
    BY <2>1, <2>2, AdmitMailbox DEF LifecycleInv
  <2>5. /\ inFlight'[r] = inFlight[r] \cup {<<st, q>>}
        /\ \A x \in Runtimes : inFlight[x] \subseteq Stages \X SeqIds
        /\ \A x \in Runtimes : x # r => inFlight'[x] = inFlight[x]
    BY <2>1, <2>2 DEF TypeOK, FlowTypes
  <2>6. TablesInv'
    <3>1. r <= epoch
      BY <2>2 DEF LifecycleInv, TablesInv
    <3> QED
      BY <2>3, <2>5, <3>1 DEF LifecycleInv, TablesInv
  <2>7. CleanupInv'
    <3>1. \A x \in Runtimes : Releasing(x)' => Releasing(x)
      BY <2>3, <2>4 DEF Releasing, cleanVars
    <3>2. \A x \in Runtimes : (Ending(x)' => Ending(x)) /\ (Ended(x)' <=> Ended(x))
      BY <2>3, <3>1 DEF Ending, Ended, cleanVars
    <3>3. ~Ended(r)
      BY <2>2 DEF Ended
    <3>4. ~Releasing(r)'
      BY <2>2, <3>1, <3>3 DEF LifecycleInv, CleanupInv, Ending
    <3> QED
      BY <2>3, <2>5, <3>1, <3>2, <3>4 DEF LifecycleInv, CleanupInv, cleanVars
  <2>8. FlightInv'
    <3> SUFFICES ASSUME shutdown.phase # "done", NEW x \in Runtimes
                 PROVE  /\ inFlight'[x] # {} => sessions[owner[x]] = x
                        /\ \A t \in inFlight'[x] : Held(t, x)'
      BY <2>3 DEF LifecycleInv, FlightInv
    <3>1. sessions[owner[r]] = r
      BY <2>1, <2>2
    <3> QED
      BY <2>2, <2>4, <2>5, <3>1 DEF LifecycleInv, FlightInv
  <2> QED
    BY <2>4, <2>6, <2>7, <2>8 DEF LifecycleInv
<1>3. ASSUME NEW st \in Stages, PumpFailActor(s, st) \/ PumpSubmitError(s, st) PROVE LifecycleInv'
  <2>1. PICK R \in SUBSET Running : Fail(R) /\ ScheduleFailedCleanup(R)
    BY <1>3 DEF PumpFailActor, PumpSubmitError
  <2>2. R \subseteq Runtimes /\ \A x \in R : status[x] = "running"
    BY RunningRuntimes DEF TypeOK
  <2>3. /\ UNCHANGED <<epoch, sessions, owner, inFlight, queue, shutdown, anomalies>>
        /\ UNCHANGED cleanVars
    BY <1>3 DEF PumpFailActor, PumpSubmitError, actorVars
  <2>4. \A x \in Runtimes : CloseHeld(x)' => CloseHeld(x)
    BY <2>3 DEF CloseHeld
  <2>5. TablesInv' /\ CleanupInv'
    BY <2>1, <2>2, <2>3, <2>4, FailStep DEF Fail
  <2> QED
    BY <2>3, <2>5, FlightFrame DEF LifecycleInv
<1> QED
  BY <1>1, <1>2, <1>3

\* Resolving an invocation takes it out of its mailbox and of the invocations
\* in flight at once, unless it is in flight for no session any more.
LEMMA ResolveMailbox ==
    ASSUME TypeOK, LifecycleInv, NEW st \in Stages, NEW m, Resolve(st, m),
           \/ inFlight' = [inFlight EXCEPT ![m.runtime] = @ \ {<<st, m.seq>>}]
           \/ inFlight' = inFlight
    PROVE  /\ m.runtime \in Runtimes /\ m.seq \in SeqIds
           /\ <<st, m.seq>> \in inFlight[m.runtime]
           /\ MailboxInv'
           /\ \A x \in Runtimes : CloseHeld(x)' => CloseHeld(x)
           /\ \A x \in Runtimes, t \in Stages \X SeqIds :
                Held(t, x) => Held(t, x)' \/ (x = m.runtime /\ t = <<st, m.seq>>)
<1>1. m = Head(queue[st]) /\ queue[st] # << >> /\ m.kind = "run"
      /\ queue' = [queue EXCEPT ![st] = Tail(@)]
  BY DEF Resolve
<1>2. /\ m \in Messages /\ 1 \in DOMAIN queue[st] /\ m = queue[st][1]
      /\ \A t \in Stages : t # st => queue'[t] = queue[t] /\ Invocations(t)' = Invocations(t)
      /\ \A i \in Invocations(st)' :
           i + 1 \in Invocations(st) /\ i + 1 # 1 /\ queue'[st][i] = queue[st][i + 1]
      /\ \A i \in Invocations(st) :
           i # 1 => i - 1 \in Invocations(st)' /\ queue'[st][i - 1] = queue[st][i]
      /\ Invocations(st)' \subseteq Nat
      /\ \A x \in Runtimes : CloseHeld(x)' => CloseHeld(x)
  BY <1>1, TakeMailbox DEF LifecycleInv
<1>3. 1 \in Invocations(st)
  BY <1>1, <1>2 DEF Invocations
<1>4. m.runtime \in Runtimes /\ m.seq \in SeqIds
  BY <1>2 DEF Messages
<1>5. <<st, m.seq>> \in inFlight[m.runtime]
  BY <1>2, <1>3 DEF LifecycleInv, MailboxInv
<1>r. ASSUME NEW x \in Runtimes, NEW u, u \in inFlight[x],
             ~(x = m.runtime /\ u = <<st, m.seq>>)
      PROVE  u \in inFlight'[x]
  <2>1. inFlight \in [Runtimes -> SUBSET (Stages \X SeqIds)]
    BY DEF TypeOK, FlowTypes
  <2>2. CASE inFlight' = [inFlight EXCEPT ![m.runtime] = @ \ {<<st, m.seq>>}]
    <3>1. CASE x = m.runtime
      <4>1. inFlight'[x] = inFlight[x] \ {<<st, m.seq>>}
        BY ONLY <2>1, <2>2, <3>1, x \in Runtimes
      <4> QED
        BY ONLY <4>1, <3>1, <1>r
    <3>2. CASE x # m.runtime
      <4>1. inFlight'[x] = inFlight[x]
        BY ONLY <2>1, <2>2, <3>2, x \in Runtimes
      <4> QED
        BY ONLY <4>1, <1>r
    <3> QED
      BY <3>1, <3>2
  <2>3. CASE inFlight' = inFlight
    BY ONLY <2>3, <1>r
  <2> QED
    BY <2>2, <2>3
<1>6. MailboxInv'
  <2> SUFFICES ASSUME NEW t \in Stages, NEW i \in Invocations(t)'
               PROVE  /\ <<t, queue'[t][i].seq>> \in inFlight'[queue'[t][i].runtime]
                      /\ \A j \in Invocations(t)' :
                           queue'[t][j].runtime = queue'[t][i].runtime
                             /\ queue'[t][j].seq = queue'[t][i].seq => i = j
    BY DEF MailboxInv
  <2>1. \A x \in Stages : \A k \in Invocations(x) : queue[x][k].runtime \in Runtimes
    BY MailboxMessages DEF Invocations, Messages
  <2>2. CASE t # st
    <3>1. i \in Invocations(t) /\ queue[t][i].runtime \in Runtimes
      BY <2>1, <2>2, <1>2
    <3>2. <<t, queue[t][i].seq>> \in inFlight[queue[t][i].runtime]
      BY <3>1 DEF LifecycleInv, MailboxInv
    <3>3. <<t, queue[t][i].seq>> \in inFlight'[queue[t][i].runtime]
      <4>1. <<t, queue[t][i].seq>> # <<st, m.seq>>
        BY <2>2
      <4> QED
        BY <3>1, <3>2, <4>1, <1>r
    <3> QED
      BY <2>2, <3>1, <3>3, <1>2 DEF LifecycleInv, MailboxInv
  <2>3. CASE t = st
    <3>1. /\ i + 1 \in Invocations(st) /\ i + 1 # 1 /\ queue'[st][i] = queue[st][i + 1]
          /\ i \in Nat
      BY <2>3, <1>2
    <3>2. ~(queue[st][i + 1].runtime = m.runtime /\ queue[st][i + 1].seq = m.seq)
      BY <3>1, <1>2, <1>3 DEF LifecycleInv, MailboxInv
    <3>3. <<st, queue[st][i + 1].seq>> \in inFlight[queue[st][i + 1].runtime]
      BY <3>1 DEF LifecycleInv, MailboxInv
    <3>4. <<st, queue[st][i + 1].seq>> \in inFlight'[queue[st][i + 1].runtime]
      <4>1. queue[st][i + 1].runtime \in Runtimes
        BY <3>1, <2>1
      <4>2. ~(/\ queue[st][i + 1].runtime = m.runtime
              /\ <<st, queue[st][i + 1].seq>> = <<st, m.seq>>)
        BY <3>2
      <4> QED
        BY <3>3, <4>1, <4>2, <1>r
    <3>5. ASSUME NEW j \in Invocations(st)', queue'[st][j].runtime = queue'[st][i].runtime,
                 queue'[st][j].seq = queue'[st][i].seq
          PROVE  i = j
      <4>1. j + 1 \in Invocations(st) /\ queue'[st][j] = queue[st][j + 1] /\ j \in Nat
        BY <1>2
      <4>2. i + 1 = j + 1
        BY <3>1, <3>5, <4>1 DEF LifecycleInv, MailboxInv
      <4> QED
        BY <3>1, <4>1, <4>2
    <3> QED
      BY <2>3, <3>1, <3>4, <3>5
  <2> QED
    BY <2>2, <2>3
<1>7. ASSUME NEW x \in Runtimes, NEW t \in Stages \X SeqIds, Held(t, x)
      PROVE  Held(t, x)' \/ (x = m.runtime /\ t = <<st, m.seq>>)
  <2>1. PICK i \in Invocations(t[1]) : queue[t[1]][i].runtime = x /\ queue[t[1]][i].seq = t[2]
    BY <1>7 DEF Held
  <2>2. CASE t[1] # st
    BY <2>1, <2>2, <1>2 DEF Held
  <2>3. CASE t[1] = st /\ i = 1
    BY <2>1, <2>3, <1>2
  <2>4. CASE t[1] = st /\ i # 1
    BY <2>1, <2>4, <1>2 DEF Held
  <2> QED
    BY <2>2, <2>3, <2>4
<1> QED
  BY <1>2, <1>4, <1>5, <1>6, <1>7

\* A completion keeps the invariant: the invocation leaves the mailbox and the
\* ones in flight together, and a session that fails with none left is queued.
LEMMA CompleteLifecycle ==
    ASSUME TypeOK, LifecycleInv, NEW st \in Stages, Complete(st)
    PROVE  LifecycleInv'
<1>1. PICK m : m = Head(queue[st]) /\ Resolve(st, m)
  BY DEF Complete, CompleteAnomalous, CompleteFailed, CompleteDropped, CompletePublished
<1>2. /\ UNCHANGED <<epoch, sessions, owner, shutdown>>
      /\ UNCHANGED cleanVars
  BY <1>1 DEF Resolve, tableVars
<1>3. \/ inFlight' = [inFlight EXCEPT ![m.runtime] = @ \ {<<st, m.seq>>}]
      \/ inFlight' = inFlight
  BY <1>1 DEF Complete, CompleteAnomalous, CompleteFailed, CompleteDropped, CompletePublished, flowVars
<1>4. /\ m.runtime \in Runtimes /\ m.seq \in SeqIds
      /\ <<st, m.seq>> \in inFlight[m.runtime]
      /\ MailboxInv'
      /\ \A x \in Runtimes : CloseHeld(x)' => CloseHeld(x)
      /\ \A x \in Runtimes, t \in Stages \X SeqIds :
           Held(t, x) => Held(t, x)' \/ (x = m.runtime /\ t = <<st, m.seq>>)
  BY <1>1, <1>3, ResolveMailbox
<1>5. \A x \in Runtimes : inFlight'[x] \subseteq inFlight[x]
  BY <1>3, <1>4 DEF TypeOK, FlowTypes
<1>6. FlightInv'
  <2> SUFFICES ASSUME shutdown.phase # "done" PROVE FlightInv'
    BY <1>2 DEF FlightInv
  <2>1. Known(st, m)
    BY <1>4 DEF Known, LifecycleInv, FlightInv
  <2>2. ~CompleteAnomalous(st)
    BY <1>1, <2>1 DEF CompleteAnomalous
  <2>3. /\ anomalies' = anomalies
        /\ inFlight' = [inFlight EXCEPT ![m.runtime] = @ \ {<<st, m.seq>>}]
    BY <1>1, <2>2 DEF Complete, CompleteFailed, CompleteDropped, CompletePublished
  <2>4. ASSUME NEW x \in Runtimes, NEW t \in inFlight'[x] PROVE Held(t, x)'
    <3>1. t \in Stages \X SeqIds /\ Held(t, x)
      BY <2>4, <1>5 DEF LifecycleInv, FlightInv, TypeOK, FlowTypes
    <3>2. ~(x = m.runtime /\ t = <<st, m.seq>>)
      BY <2>3, <2>4 DEF TypeOK, FlowTypes
    <3> QED
      BY <1>4, <3>1, <3>2
  <2> QED
    BY <1>2, <1>5, <2>3, <2>4 DEF LifecycleInv, FlightInv
<1>7. TablesInv' /\ CleanupInv'
  <2>1. CASE CompleteFailed(st)
    <3> DEFINE F == IF health[st] = "running" THEN {m.runtime} \cap Running ELSE Running
    <3>1. Fail(F) /\ ScheduleFailedCleanup(F \cup {m.runtime})
      BY <1>1, <2>1 DEF CompleteFailed
    <3>2. F \cup {m.runtime} \in SUBSET Runtimes /\ \A x \in F : status[x] = "running"
      BY <1>4, RunningRuntimes DEF TypeOK
    <3> HIDE DEF F
    <3> QED
      BY <1>2, <1>4, <1>5, <3>1, <3>2, FailStep DEF Fail
  <2>2. CASE CompleteDropped(st)
    <3>1. ScheduleFailedCleanup({m.runtime}) /\ status' = status
      BY <1>1, <2>2 DEF CompleteDropped
    <3> DEFINE F == {x \in {m.runtime} : FALSE}
    <3>2. /\ F \subseteq {m.runtime} /\ {m.runtime} \subseteq Runtimes
          /\ \A x \in F : status[x] = "running"
          /\ status' = [x \in Runtimes |-> IF x \in F THEN "failed" ELSE status[x]]
      BY <1>4, <3>1 DEF TypeOK, LifeTypes
    <3> HIDE DEF F
    <3> QED
      BY <1>2, <1>4, <1>5, <3>1, <3>2, FailStep
  <2>3. CASE CompleteAnomalous(st) \/ CompletePublished(st)
    <3>1. UNCHANGED <<status, failedQueue>>
      BY <2>3 DEF CompleteAnomalous, CompletePublished, lifeVars
    <3>2. TablesInv'
      BY <1>2, <1>5, <3>1, TablesFrame DEF LifecycleInv
    <3>3. \A x \in Runtimes : Releasing(x)' => Releasing(x)
      BY <1>2, <1>4 DEF Releasing, cleanVars
    <3>4. \A x \in Runtimes : (Ending(x)' => Ending(x)) /\ (Ended(x)' <=> Ended(x))
      BY <1>2, <3>1, <3>3 DEF Ending, Ended, cleanVars
    <3> QED
      BY <1>2, <1>5, <3>2, <3>3, <3>4 DEF LifecycleInv, CleanupInv, cleanVars
  <2> QED
    BY <2>1, <2>2, <2>3 DEF Complete
<1> QED
  BY <1>4, <1>6, <1>7 DEF LifecycleInv

--------------------------------------------------------------------------------
(* Cleanup steps: statuses and invocations in flight do not change.        *)

\* A step of a cleanup, of its callers or of close() that leaves the mailboxes.
LEMMA CallerFrame ==
    ASSUME TypeOK, LifecycleInv, UNCHANGED <<status, inFlight, queue>>,
           UNCHANGED <<epoch, sessions, owner, anomalies>>,
           shutdown'.phase # "done" => shutdown.phase # "done",
           \A r \in Runtimes :
             /\ Ending(r)' => Ended(r)
             /\ Releasing(r)' => inFlight[r] = {}
             /\ complete'[r] => cleaned'[r] = Stages
    PROVE  LifecycleInv'
<1>1. TablesInv' /\ MailboxInv' /\ FlightInv'
  BY TablesFrame, FlightFrame DEF LifecycleInv
<1>2. \A r \in Runtimes : Ended(r)' <=> Ended(r)
  BY DEF Ended
<1>3. CleanupInv'
  BY <1>2, CleanupFrame DEF LifecycleInv
<1> QED
  BY <1>1, <1>3 DEF LifecycleInv

\* A step that changes only close messages, with the invocations where they are.
LEMMA MessageFrame ==
    ASSUME TypeOK, LifecycleInv, UNCHANGED <<status, inFlight>>,
           UNCHANGED <<epoch, sessions, owner, anomalies, shutdown>>,
           \A st \in Stages : /\ Invocations(st)' = Invocations(st)
                              /\ \A i \in Invocations(st) : queue'[st][i] = queue[st][i],
           \A r \in Runtimes :
             /\ Ending(r)' => Ended(r)
             /\ Releasing(r)' => inFlight[r] = {}
             /\ complete'[r] => cleaned'[r] = Stages
    PROVE  LifecycleInv'
<1>1. TablesInv'
  BY TablesFrame DEF LifecycleInv
<1>2. \A r \in Runtimes : Ended(r)' <=> Ended(r)
  BY DEF Ended
<1>3. CleanupInv'
  BY <1>2, CleanupFrame DEF LifecycleInv
<1>4. MailboxInv'
  BY DEF LifecycleInv, MailboxInv
<1>5. \A r \in Runtimes, t \in Stages \X SeqIds : Held(t, r) => Held(t, r)'
  BY DEF Held
<1>6. \A r \in Runtimes : inFlight[r] \subseteq Stages \X SeqIds
  BY DEF TypeOK, FlowTypes
<1>7. FlightInv'
  BY <1>5, <1>6 DEF LifecycleInv, FlightInv
<1> QED
  BY <1>1, <1>3, <1>4, <1>7 DEF LifecycleInv

\* What Ending and Releasing say of a runtime no step touches, in the form the
\* cleanup steps use.
LEMMA CleanupFacts ==
    ASSUME LifecycleInv, NEW r \in Runtimes
    PROVE  /\ Ending(r) => Ended(r)
           /\ Releasing(r) => inFlight[r] = {}
           /\ Releasing(r) => Ending(r)
           /\ complete[r] => cleaned[r] = Stages
BY DEF LifecycleInv, CleanupInv, Ending

\* The steps by which a cleanup takes the lock, drains and ends keep the invariant.
LEMMA PassLifecycle ==
    ASSUME TypeOK, LifecycleInv, NEW r \in Runtimes,
           \/ \E by \in Callers : AcquireCleanup(r, by) \/ LockTimeout(r, by)
           \/ Drained(r) \/ DrainTimeout(r) \/ EndPass(r)
           \/ \E st \in Stages : CloseRefused(r, st)
           \/ TakeFailed(r)
    PROVE  LifecycleInv'
<1>1. UNCHANGED <<status, inFlight, queue, epoch, sessions, owner, anomalies>>
  BY DEF AcquireCleanup, LockTimeout, Drained, DrainTimeout, EndPass, CloseRefused, TakeFailed,
         flowVars, lifeVars, tableVars, actorVars
<1>2. shutdown'.phase = shutdown.phase /\ shutdown'.todo \subseteq shutdown.todo
  BY DEF AcquireCleanup, LockTimeout, Drained, DrainTimeout, EndPass, CloseRefused, TakeFailed,
         TypeOK, ControlTypes
<1>3. \A x \in Runtimes : CloseHeld(x)' <=> CloseHeld(x)
  BY <1>1 DEF CloseHeld
<1> DEFINE Others ==
      /\ \A x \in Runtimes : x # r => /\ pass'[x] = pass[x] /\ calls'[x] = calls[x]
                                      /\ complete'[x] = complete[x]
                                      /\ x \in deleting' => x \in deleting
      /\ cleaned' = cleaned
      /\ failedQueue' \subseteq failedQueue
<1>4. Others
  <2>1. ASSUME NEW by \in Callers, AcquireCleanup(r, by) PROVE Others
    <3>1. CASE complete[r]
      BY <2>1, <3>1 DEF AcquireCleanup, lifeVars, Returned, TypeOK, CleanTypes
    <3>2. CASE ~complete[r]
      BY <2>1, <3>2 DEF AcquireCleanup, lifeVars, TypeOK, CleanTypes
    <3> QED
      BY <3>1, <3>2
  <2>2. CASE \E by \in Callers : LockTimeout(r, by)
    BY <2>2 DEF LockTimeout, lifeVars, TypeOK, CleanTypes
  <2>3. CASE Drained(r) \/ DrainTimeout(r) \/ \E st \in Stages : CloseRefused(r, st)
    BY <2>3 DEF Drained, DrainTimeout, CloseRefused, lifeVars, TypeOK, CleanTypes
  <2>4. CASE EndPass(r)
    BY <2>4 DEF EndPass, Returned, lifeVars, TypeOK, CleanTypes
  <2>5. CASE TakeFailed(r)
    BY <2>5 DEF TakeFailed, TypeOK, CleanTypes
  <2> QED
    BY <2>1, <2>2, <2>3, <2>4, <2>5
<1>5. Ending(r) /\ (pass'[r].phase = "clean" => pass[r].phase = "clean" \/ inFlight[r] = {})
      /\ (complete'[r] => (complete[r] \/ pass[r].phase = "clean") /\ cleaned[r] = Stages)
      /\ (r \in deleting' => r \in deleting \/ complete[r] \/ pass[r].phase = "clean")
  <2>1. CASE \E by \in Callers : AcquireCleanup(r, by)
    <3>1. PICK by \in Callers : AcquireCleanup(r, by)
      BY <2>1
    <3>2. Ending(r) /\ complete' = complete
      BY <3>1 DEF AcquireCleanup, Ending
    <3>3. CASE complete[r]
      BY <3>1, <3>2, <3>3, CleanupFacts DEF AcquireCleanup, Returned
    <3>4. CASE ~complete[r]
      <4>1. pass' = [pass EXCEPT ![r] = [NoPass EXCEPT !.by = by, !.phase = "drain"]]
            /\ deleting' = deleting
        BY <3>1, <3>4 DEF AcquireCleanup
      <4>2. pass'[r].phase = "drain"
        BY <4>1 DEF NoPass, TypeOK, CleanTypes
      <4> QED
        BY <3>2, <3>4, <4>1, <4>2
    <3> QED
      BY <3>3, <3>4
  <2>2. CASE \E by \in Callers : LockTimeout(r, by)
    BY <2>2, CleanupFacts DEF LockTimeout, Ending, TypeOK, CleanTypes
  <2>3. CASE Drained(r)
    BY <2>3, CleanupFacts DEF Drained, Ending
  <2>4. CASE DrainTimeout(r)
    BY <2>4, CleanupFacts DEF DrainTimeout, NoPass, Ending, TypeOK, CleanTypes
  <2>5. CASE EndPass(r)
    BY <2>5 DEF EndPass, NoPass, Returned, Ending, TypeOK, CleanTypes
  <2>6. CASE \E st \in Stages : CloseRefused(r, st)
    BY <2>6, CleanupFacts DEF CloseRefused, Ending, TypeOK, CleanTypes
  <2>7. CASE TakeFailed(r)
    BY <2>7, CleanupFacts DEF TakeFailed, Ending
  <2> QED
    BY <2>1, <2>2, <2>3, <2>4, <2>5, <2>6, <2>7
<1>6. ASSUME NEW x \in Runtimes
      PROVE  /\ Ending(x)' => Ended(x)
             /\ Releasing(x)' => inFlight[x] = {}
             /\ complete'[x] => cleaned'[x] = Stages
  <2>1. CASE x = r
    <3>1. Releasing(r)' => inFlight[r] = {}
      BY <1>3, <1>4, <1>5, CleanupFacts DEF Releasing
    <3> QED
      BY <2>1, <3>1, <1>4, <1>5, CleanupFacts
  <2>2. CASE x # r
    <3>1. Releasing(x)' => Releasing(x)
      BY <2>2, <1>3, <1>4 DEF Releasing
    <3>2. Ending(x)' => Ending(x)
      BY <2>2, <3>1, <1>2, <1>4 DEF Ending
    <3> QED
      BY <2>2, <3>1, <3>2, <1>4, CleanupFacts
  <2> QED
    BY <2>1, <2>2
<1> QED
  BY <1>1, <1>2, <1>6, CallerFrame

\* A close message enters a mailbox: no invocation moves.
LEMMA SendCloseLifecycle ==
    ASSUME TypeOK, LifecycleInv, NEW r \in Runtimes, NEW st \in Stages, SendClose(r, st)
    PROVE  LifecycleInv'
<1> DEFINE n == Len(queue[st]) + 1
<1>1. /\ UNCHANGED <<status, inFlight, epoch, sessions, owner, anomalies, shutdown, failedQueue>>
      /\ UNCHANGED <<complete, cleaned, calls, deleting>>
      /\ pass[r].phase = "clean"
      /\ queue' = [queue EXCEPT ![st] = Append(@, CloseMsg(r))]
      /\ pass' = [pass EXCEPT ![r].sent = TRUE]
  BY DEF SendClose, flowVars, lifeVars, tableVars
<1>2. \A x \in Runtimes : pass'[x].phase = pass[x].phase
  BY <1>1 DEF TypeOK, CleanTypes
<1>3. CloseMsg(r) \in Messages /\ CloseMsg(r).kind # "run" /\ CloseMsg(r).runtime = r
  BY BoundsAssumption DEF CloseMsg, Messages, SeqIds
<1>4. /\ DOMAIN queue'[st] = DOMAIN queue[st] \cup {n}
      /\ queue'[st][n] = CloseMsg(r)
      /\ \A i \in DOMAIN queue[st] : queue'[st][i] = queue[st][i]
      /\ \A t \in Stages : t # st => queue'[t] = queue[t]
  <2>1. queue[st] \in Seq(Messages) /\ queue'[st] = Append(queue[st], CloseMsg(r))
    BY <1>1 DEF TypeOK, ActorTypes
  <2> QED
    BY <1>1, <1>3, <2>1, AppendFacts DEF TypeOK, ActorTypes
<1> HIDE DEF n
<1>5. \A t \in Stages : /\ Invocations(t)' = Invocations(t)
                        /\ \A i \in Invocations(t) : queue'[t][i] = queue[t][i]
  BY <1>3, <1>4 DEF Invocations
<1>6. \A x \in Runtimes : CloseHeld(x)' => CloseHeld(x) \/ x = r
  BY <1>3, <1>4 DEF CloseHeld
<1>7. Releasing(r)
  BY <1>1 DEF Releasing
<1>8. \A x \in Runtimes : Releasing(x)' => Releasing(x)
  BY <1>1, <1>2, <1>6, <1>7 DEF Releasing
<1>9. \A x \in Runtimes : Ending(x)' => Ending(x)
  BY <1>1, <1>2, <1>8 DEF Ending
<1> QED
  BY <1>1, <1>5, <1>8, <1>9, CleanupFacts, MessageFrame

\* Giving up the wait for a stage relabels its close message: no invocation moves.
LEMMA StageTimeoutLifecycle ==
    ASSUME TypeOK, LifecycleInv, NEW r \in Runtimes, StageTimeout(r)
    PROVE  LifecycleInv'
<1>1. /\ UNCHANGED <<status, inFlight, epoch, sessions, owner, anomalies, shutdown, failedQueue>>
      /\ UNCHANGED <<complete, cleaned, calls, deleting>>
      /\ pass' = [pass EXCEPT ![r].todo = {}, ![r].sent = FALSE, ![r].error = TRUE]
  BY DEF StageTimeout, flowVars, lifeVars, tableVars
<1>2. \A x \in Runtimes : pass'[x].phase = pass[x].phase
  BY <1>1 DEF TypeOK, CleanTypes
<1>3. \A t \in Stages : /\ DOMAIN queue'[t] = DOMAIN queue[t]
                        /\ \A i \in DOMAIN queue[t] :
                             queue'[t][i] = IF queue[t][i] = CloseMsg(r)
                                            THEN [queue[t][i] EXCEPT !.kind = "late"]
                                            ELSE queue[t][i]
  BY DEF StageTimeout
<1>4. ASSUME NEW t \in Stages, NEW i \in DOMAIN queue[t]
      PROVE  \/ queue'[t][i] = queue[t][i]
             \/ /\ queue[t][i].kind # "run" /\ queue'[t][i].kind # "run"
                /\ queue'[t][i].runtime = queue[t][i].runtime
  <2>1. CASE queue[t][i] = CloseMsg(r)
    <3>1. queue'[t][i] = [CloseMsg(r) EXCEPT !.kind = "late"]
      BY <1>3, <2>1
    <3>2. queue'[t][i].kind = "late" /\ queue'[t][i].runtime = r
      BY <3>1 DEF CloseMsg
    <3>3. queue[t][i].kind = "close" /\ queue[t][i].runtime = r
      BY <2>1 DEF CloseMsg
    <3> QED
      BY <3>2, <3>3
  <2>2. CASE queue[t][i] # CloseMsg(r)
    BY <1>3, <2>2
  <2> QED
    BY <2>1, <2>2
<1>5. \A t \in Stages : /\ Invocations(t)' = Invocations(t)
                        /\ \A i \in Invocations(t) : queue'[t][i] = queue[t][i]
  BY <1>3, <1>4 DEF Invocations
<1>6. \A x \in Runtimes : CloseHeld(x)' => CloseHeld(x)
  BY <1>3, <1>4 DEF CloseHeld
<1>7. \A x \in Runtimes : Releasing(x)' => Releasing(x)
  BY <1>1, <1>2, <1>6 DEF Releasing
<1>8. \A x \in Runtimes : Ending(x)' => Ending(x)
  BY <1>1, <1>2, <1>7 DEF Ending
<1> QED
  BY <1>1, <1>5, <1>7, <1>8, CleanupFacts, MessageFrame

\* A closer ran: its message leaves the mailbox, the invocations shift.
LEMMA CloserDoneLifecycle ==
    ASSUME TypeOK, LifecycleInv, NEW st \in Stages, NEW ok \in BOOLEAN, CloserDone(st, ok)
    PROVE  LifecycleInv'
<1> DEFINE m == Head(queue[st])
<1>1. /\ UNCHANGED <<status, inFlight, epoch, sessions, owner, anomalies, shutdown, failedQueue>>
      /\ UNCHANGED <<complete, calls, deleting>>
      /\ queue[st] # << >> /\ m.kind # "run"
      /\ queue' = [queue EXCEPT ![st] = Tail(@)]
  BY DEF CloserDone, flowVars, lifeVars, tableVars
<1>2. /\ m \in Messages /\ 1 \in DOMAIN queue[st] /\ m = queue[st][1]
      /\ \A t \in Stages : t # st => queue'[t] = queue[t] /\ Invocations(t)' = Invocations(t)
      /\ \A i \in Invocations(st)' :
           i + 1 \in Invocations(st) /\ i + 1 # 1 /\ queue'[st][i] = queue[st][i + 1]
      /\ \A i \in Invocations(st) :
           i # 1 => i - 1 \in Invocations(st)' /\ queue'[st][i - 1] = queue[st][i]
      /\ Invocations(st)' \subseteq Nat
      /\ \A x \in Runtimes : CloseHeld(x)' => CloseHeld(x)
  BY <1>1, TakeMailbox DEF LifecycleInv
<1>3. m.runtime \in Runtimes
  BY <1>2 DEF Messages
<1>4. CloseHeld(m.runtime)
  BY <1>1, <1>2 DEF CloseHeld
<1>5. /\ \A x \in Runtimes : pass'[x].phase = pass[x].phase
      /\ \A x \in Runtimes : x # m.runtime => cleaned'[x] = cleaned[x]
      /\ \A x \in Runtimes : cleaned[x] \subseteq cleaned'[x]
      /\ \A x \in Runtimes : cleaned'[x] \subseteq cleaned[x] \cup {st}
  <2>1. CASE m.kind = "late"
    BY <2>1 DEF CloserDone
  <2>2. CASE m.kind # "late"
    <3>1. /\ cleaned' = IF ok THEN [cleaned EXCEPT ![m.runtime] = @ \cup {st}] ELSE cleaned
          /\ pass' = [pass EXCEPT ![m.runtime].todo = @ \ {st}, ![m.runtime].sent = FALSE,
                                  ![m.runtime].error = @ \/ ~ok]
      BY <2>2 DEF CloserDone
    <3>t. /\ pass \in [Runtimes -> Passes]
          /\ cleaned \in [Runtimes -> SUBSET Stages]
      BY DEF TypeOK, CleanTypes
    <3>2. ASSUME NEW x \in Runtimes PROVE pass'[x].phase = pass[x].phase
      <4>1. CASE x = m.runtime
        <5>1. pass'[x] = [pass[x] EXCEPT !.todo = @ \ {st}, !.sent = FALSE, !.error = @ \/ ~ok]
          BY ONLY <3>1, <3>t, <4>1, x \in Runtimes
        <5>2. pass[x] \in Passes
          BY ONLY <3>t, x \in Runtimes
        <5> QED
          BY ONLY <5>1, <5>2 DEF Passes
      <4>2. CASE x # m.runtime
        <5>1. pass'[x] = pass[x]
          BY ONLY <3>1, <3>t, <4>2, x \in Runtimes
        <5> QED
          BY ONLY <5>1
      <4> QED
        BY <4>1, <4>2
    <3>3. ASSUME NEW x \in Runtimes
          PROVE  /\ x # m.runtime => cleaned'[x] = cleaned[x]
                 /\ cleaned[x] \subseteq cleaned'[x]
                 /\ cleaned'[x] \subseteq cleaned[x] \cup {st}
      <4>1. CASE ok
        <5>1. cleaned' = [cleaned EXCEPT ![m.runtime] = @ \cup {st}]
          BY ONLY <3>1, <4>1
        <5>2. CASE x = m.runtime
          <6>1. cleaned'[x] = cleaned[x] \cup {st}
            BY ONLY <5>1, <5>2, <3>t, x \in Runtimes
          <6> QED
            BY ONLY <6>1, <5>2
        <5>3. CASE x # m.runtime
          <6>1. cleaned'[x] = cleaned[x]
            BY ONLY <5>1, <5>3, <3>t, x \in Runtimes
          <6> QED
            BY ONLY <6>1
        <5> QED
          BY <5>2, <5>3
      <4>2. CASE ~ok
        <5>1. cleaned' = cleaned
          BY ONLY <3>1, <4>2
        <5> QED
          BY ONLY <5>1
      <4> QED
        BY <4>1, <4>2
    <3> QED
      BY <3>2, <3>3
  <2> QED
    BY <2>1, <2>2
<1> HIDE DEF m
<1>6. \A x \in Runtimes : Releasing(x)' => Releasing(x)
  BY <1>1, <1>2, <1>4, <1>5 DEF Releasing
<1>7. \A x \in Runtimes : Ending(x)' => Ending(x)
  BY <1>1, <1>5, <1>6 DEF Ending
<1>8. \A x \in Runtimes : complete'[x] => cleaned'[x] = Stages
  <2> SUFFICES ASSUME NEW x \in Runtimes, complete'[x] PROVE cleaned'[x] = Stages
    OBVIOUS
  <2>1. cleaned[x] = Stages
    BY <1>1, CleanupFacts
  <2>2. cleaned[x] \subseteq cleaned'[x] /\ cleaned'[x] \subseteq cleaned[x] \cup {st}
    BY <1>5
  <2> QED
    BY <2>1, <2>2
<1>9. TablesInv' /\ CleanupInv'
  <2>1. TablesInv'
    BY <1>1, TablesFrame DEF LifecycleInv
  <2>2. \A x \in Runtimes : Ended(x)' <=> Ended(x)
    BY <1>1 DEF Ended
  <2> QED
    BY <1>1, <1>6, <1>7, <1>8, <2>1, <2>2, CleanupFacts, CleanupFrame DEF LifecycleInv
<1>10. MailboxInv'
  <2> SUFFICES ASSUME NEW t \in Stages, NEW i \in Invocations(t)'
               PROVE  /\ <<t, queue'[t][i].seq>> \in inFlight'[queue'[t][i].runtime]
                      /\ \A j \in Invocations(t)' :
                           queue'[t][j].runtime = queue'[t][i].runtime
                             /\ queue'[t][j].seq = queue'[t][i].seq => i = j
    BY DEF MailboxInv
  <2>1. CASE t # st
    BY <2>1, <1>1, <1>2 DEF LifecycleInv, MailboxInv
  <2>2. CASE t = st
    <3>1. i + 1 \in Invocations(st) /\ queue'[st][i] = queue[st][i + 1] /\ i \in Nat
      BY <2>2, <1>2
    <3>2. <<st, queue'[st][i].seq>> \in inFlight'[queue'[st][i].runtime]
      BY <3>1, <1>1 DEF LifecycleInv, MailboxInv
    <3>3. ASSUME NEW j \in Invocations(st)', queue'[st][j].runtime = queue'[st][i].runtime,
                 queue'[st][j].seq = queue'[st][i].seq
          PROVE  i = j
      <4>1. j + 1 \in Invocations(st) /\ queue'[st][j] = queue[st][j + 1] /\ j \in Nat
        BY <1>2
      <4>2. i + 1 = j + 1
        BY <3>1, <3>3, <4>1 DEF LifecycleInv, MailboxInv
      <4> QED
        BY <3>1, <4>1, <4>2
    <3> QED
      BY <2>2, <3>2, <3>3
  <2> QED
    BY <2>1, <2>2
<1>11. FlightInv'
  <2>1. ASSUME NEW x \in Runtimes, NEW t \in Stages \X SeqIds, Held(t, x) PROVE Held(t, x)'
    <3>1. PICK i \in Invocations(t[1]) : queue[t[1]][i].runtime = x /\ queue[t[1]][i].seq = t[2]
      BY <2>1 DEF Held
    <3>2. CASE t[1] # st
      BY <3>1, <3>2, <1>2 DEF Held
    <3>3. CASE t[1] = st
      <4>1. i # 1
        BY <3>1, <3>3, <1>1, <1>2 DEF Invocations
      <4> QED
        BY <3>1, <3>3, <4>1, <1>2 DEF Held
    <3> QED
      BY <3>2, <3>3
  <2>2. \A x \in Runtimes : inFlight[x] \subseteq Stages \X SeqIds
    BY DEF TypeOK, FlowTypes
  <2> QED
    BY <1>1, <2>1, <2>2 DEF LifecycleInv, FlightInv
<1> QED
  BY <1>9, <1>10, <1>11 DEF LifecycleInv

\* Forgetting a session whose runtime is released orphans no invocation.
LEMMA DeleteLifecycle ==
    ASSUME TypeOK, LifecycleInv, NEW r \in Runtimes, DeleteSession(r)
    PROVE  LifecycleInv'
<1>1. PICK s : /\ s = owner[r] /\ r \in deleting
               /\ \/ sessions[s] = r /\ sessions' = [sessions EXCEPT ![s] = 0]
                  \/ sessions' = sessions
  BY DEF DeleteSession
<1>2. /\ UNCHANGED <<status, inFlight, queue, epoch, owner, anomalies, shutdown, failedQueue>>
      /\ UNCHANGED <<complete, cleaned, calls, pass>>
      /\ deleting' \subseteq deleting
  BY DEF DeleteSession, flowVars, lifeVars, actorVars
<1>3. \A x \in Sessions : sessions'[x] = sessions[x] \/ sessions'[x] = 0
  BY <1>1 DEF TypeOK, TableTypes
<1>4. TablesInv'
  BY <1>2, <1>3 DEF LifecycleInv, TablesInv
<1>5. \A x \in Runtimes : (Releasing(x)' => Releasing(x)) /\ (Ending(x)' => Ending(x))
  BY <1>2 DEF Releasing, Ending, CloseHeld
<1>6. CleanupInv'
  BY <1>2, <1>5 DEF LifecycleInv, CleanupInv, Ended
<1>7. MailboxInv'
  BY <1>2 DEF LifecycleInv, MailboxInv, Invocations
<1>8. FlightInv'
  <2>1. inFlight[r] = {}
    BY <1>1, CleanupFacts DEF Releasing
  <2>2. ASSUME shutdown.phase # "done", NEW x \in Runtimes, inFlight[x] # {}
        PROVE  sessions'[owner[x]] = x
    <3>1. sessions[owner[x]] = x /\ x # r
      BY <2>1, <2>2 DEF LifecycleInv, FlightInv
    <3>2. owner[x] \in Sessions
      BY <2>2 DEF LifecycleInv, TablesInv
    <3> QED
      BY <1>1, <3>1, <3>2 DEF TypeOK, TableTypes
  <2> QED
    BY <1>2, <2>2 DEF LifecycleInv, FlightInv, Held, Invocations
<1> QED
  BY <1>4, <1>6, <1>7, <1>8 DEF LifecycleInv

--------------------------------------------------------------------------------
\* close() ends every session before it asks for its cleanup, and forgets the
\* sessions only at its end.
LEMMA ShutdownLifecycle ==
    ASSUME TypeOK, LifecycleInv, ShutdownBegin \/ Shutdown
    PROVE  LifecycleInv'
<1>1. CASE ShutdownBegin
  <2>1. /\ UNCHANGED <<inFlight, queue, epoch, sessions, owner, anomalies, failedQueue>>
        /\ UNCHANGED cleanVars
        /\ shutdown.phase = "open" /\ shutdown'.phase = "sessions" /\ shutdown'.todo = Current
    BY <1>1 DEF ShutdownBegin, tableVars, actorVars
  <2>2. \A x \in Runtimes : status'[x] = IF x \in Running THEN "closed" ELSE status[x]
    BY <1>1 DEF ShutdownBegin
  <2>3. \A x \in Runtimes : status'[x] = status[x] \/ (status[x] = "running" /\ Ended(x)')
    BY <2>2, RunningRuntimes DEF Ended, TypeOK
  <2>4. \A x \in Runtimes : (Ended(x) => Ended(x)') /\ (status'[x] = "none" <=> status[x] = "none")
    BY <2>3, StatusStep
  <2>5. TablesInv' /\ MailboxInv' /\ FlightInv'
    BY <2>1, <2>4, TablesFrame, FlightFrame DEF LifecycleInv
  <2>6. \A x \in Runtimes : x \in Current => Ended(x)'
    <3> SUFFICES ASSUME NEW x \in Runtimes, x \in Current PROVE Ended(x)'
      OBVIOUS
    <3>1. status[x] # "none"
      BY DEF Current, LifecycleInv, TablesInv
    <3>2. CASE status[x] = "running"
      BY <2>2, <3>2 DEF Running, Ended
    <3>3. CASE status[x] # "running"
      BY <2>4, <3>1, <3>3 DEF Ended, TypeOK, LifeTypes, Statuses
    <3> QED
      BY <3>2, <3>3
  <2>7. \A x \in Runtimes : /\ Releasing(x)' => Releasing(x)
                            /\ Ending(x)' => Ending(x) \/ x \in Current
    BY <2>1 DEF Releasing, Ending, CloseHeld, cleanVars
  <2>8. CleanupInv'
    BY <2>1, <2>4, <2>6, <2>7, CleanupFacts, CleanupFrame DEF LifecycleInv, cleanVars
  <2> QED
    BY <2>5, <2>8 DEF LifecycleInv
<1>2. ASSUME NEW r \in Runtimes, ShutdownSession(r) PROVE LifecycleInv'
  <2>1. /\ UNCHANGED <<status, inFlight, queue, epoch, sessions, owner, anomalies, failedQueue>>
        /\ UNCHANGED <<complete, cleaned, pass, deleting>>
        /\ calls' = [calls EXCEPT ![r] = @ \cup {"shutdown"}]
        /\ shutdown.phase = "sessions" /\ r \in shutdown.todo
        /\ shutdown' = [shutdown EXCEPT !.todo = @ \ {r}]
    BY <1>2 DEF ShutdownSession, flowVars, lifeVars, tableVars, actorVars
  <2>2. shutdown'.phase = shutdown.phase /\ shutdown'.todo \subseteq shutdown.todo
    BY <2>1 DEF TypeOK, ControlTypes
  <2>3. Ending(r)
    BY <2>1 DEF Ending
  <2>4. \A x \in Runtimes : x # r => calls'[x] = calls[x]
    BY <2>1 DEF TypeOK, CleanTypes
  <2>5. \A x \in Runtimes : (Releasing(x)' => Releasing(x)) /\ (Ending(x)' => Ending(x))
    BY <2>1, <2>2, <2>3, <2>4 DEF Releasing, Ending, CloseHeld
  <2> QED
    BY <2>1, <2>2, <2>5, CleanupFacts, CallerFrame
<1>3. ASSUME /\ UNCHANGED <<status, inFlight, queue, epoch, sessions, owner, anomalies, failedQueue>>
             /\ UNCHANGED cleanVars
             /\ shutdown.phase # "done" /\ shutdown'.phase \in {"sessions", "join"} =>
                  shutdown'.todo \subseteq failedQueue
             /\ shutdown'.phase # "done" => shutdown.phase # "done"
      PROVE  LifecycleInv'
  <2>1. \A x \in Runtimes : Releasing(x)' => Releasing(x)
    BY <1>3 DEF Releasing, CloseHeld, cleanVars
  <2>2. CASE shutdown'.phase \in {"sessions", "join"}
    <3>1. \A x \in Runtimes : Ending(x)' => Ending(x)
      BY <1>3, <2>1, <2>2 DEF Ending, cleanVars
    <3> QED
      BY <1>3, <2>1, <3>1, CleanupFacts, CallerFrame DEF cleanVars
  <2>3. CASE shutdown'.phase \notin {"sessions", "join"}
    <3>1. \A x \in Runtimes : Ending(x)' => Ending(x)
      BY <1>3, <2>1, <2>3 DEF Ending, cleanVars
    <3> QED
      BY <1>3, <2>1, <3>1, CleanupFacts, CallerFrame DEF cleanVars
  <2> QED
    BY <2>2, <2>3
<1>4. CASE ShutdownStopThread \/ ShutdownJoin
  BY <1>3, <1>4 DEF ShutdownStopThread, ShutdownJoin, flowVars, lifeVars, tableVars, actorVars
<1>5. ASSUME NEW st \in Stages, JoinActor(st) PROVE LifecycleInv'
  <2>1. shutdown'.phase = "actors" /\ shutdown.phase = "actors"
    BY <1>5 DEF JoinActor, TypeOK, ControlTypes
  <2> QED
    BY <1>3, <1>5, <2>1 DEF JoinActor, flowVars, lifeVars, tableVars, actorVars
<1>6. ASSUME NEW st \in Stages, CloseActor(st) PROVE LifecycleInv'
  BY <1>6, LifecycleFrame DEF CloseActor, flowVars, lifeVars, tableVars
<1>7. CASE ShutdownDone
  <2>1. /\ UNCHANGED <<status, inFlight, queue, epoch, owner, failedQueue>>
        /\ UNCHANGED cleanVars
        /\ shutdown'.phase = "done" /\ \A s \in Sessions : sessions'[s] = 0
    BY <1>7 DEF ShutdownDone, flowVars, lifeVars, actorVars
  <2>2. \A x \in Runtimes : (Releasing(x)' => Releasing(x)) /\ (Ending(x)' => Ending(x))
    BY <2>1 DEF Releasing, Ending, CloseHeld, cleanVars
  <2>3. CleanupInv'
    BY <2>1, <2>2, CleanupFacts, CleanupFrame DEF LifecycleInv, Ended, cleanVars
  <2>4. TablesInv' /\ MailboxInv' /\ FlightInv'
    BY <2>1 DEF LifecycleInv, TablesInv, MailboxInv, FlightInv, Invocations
  <2> QED
    BY <2>3, <2>4 DEF LifecycleInv
<1> QED
  BY <1>1, <1>2, <1>4, <1>5, <1>6, <1>7 DEF Shutdown

\* Nothing exists, so nothing is ending or in flight.
LEMMA InitLifecycle == Init => LifecycleInv
<1> SUFFICES ASSUME Init PROVE LifecycleInv
  OBVIOUS
<1>1. TablesInv
  BY DEF Init, TablesInv, Runtimes
<1>2. CleanupInv
  <2> SUFFICES ASSUME NEW r \in Runtimes PROVE ~Ending(r) /\ ~Releasing(r) /\ ~complete[r]
    BY DEF CleanupInv
  <2>1. ~CloseHeld(r)
    BY DEF Init, CloseHeld
  <2>2. pass[r].phase = "idle"
    BY DEF Init, NoPass
  <2>3. ~Releasing(r)
    BY <2>1, <2>2 DEF Init, Releasing
  <2>4. ~Ending(r)
    BY <2>2, <2>3 DEF Init, Ending
  <2> QED
    BY <2>3, <2>4 DEF Init
<1>3. MailboxInv
  BY DEF Init, MailboxInv, Invocations
<1>4. FlightInv
  BY DEF Init, FlightInv
<1> QED
  BY <1>1, <1>2, <1>3, <1>4 DEF LifecycleInv

\* Every step of the scheduler preserves the invariant, one case per action.
LEMMA StepLifecycle ==
    ASSUME TypeOK, LifecycleInv, [Next]_vars
    PROVE  LifecycleInv'
<1>1. CASE Client
  BY <1>1, ClientLifecycle DEF Client
<1>2. CASE PumpTurn
  BY <1>2, PumpLifecycle DEF PumpTurn
<1>3. ASSUME NEW st \in Stages, Actor(st) PROVE LifecycleInv'
  <2>1. CASE Start(st)
    BY <2>1, LifecycleFrame DEF Start, flowVars, lifeVars, tableVars
  <2> QED
    BY <1>3, <2>1, CompleteLifecycle, CloserDoneLifecycle DEF Actor
<1>4. ASSUME NEW st \in Stages, WorkerFail(st) PROVE LifecycleInv'
  BY <1>4, LifecycleFrame DEF WorkerFail, flowVars, lifeVars, tableVars
<1>5. ASSUME NEW st \in Stages, AbandonActor(st) PROVE LifecycleInv'
  <2>1. shutdown'.phase = "actors" /\ shutdown.phase = "actors"
    BY <1>5 DEF AbandonActor, TypeOK, ControlTypes
  <2>2. /\ UNCHANGED <<status, inFlight, queue, epoch, sessions, owner, anomalies, failedQueue>>
        /\ UNCHANGED cleanVars
    BY <1>5 DEF AbandonActor, flowVars, lifeVars, tableVars, actorVars
  <2>3. \A x \in Runtimes : Releasing(x)' => Releasing(x)
    BY <2>2 DEF Releasing, CloseHeld, cleanVars
  <2>4. \A x \in Runtimes : Ending(x)' => Ending(x)
    BY <2>1, <2>2, <2>3 DEF Ending, cleanVars
  <2> QED
    BY <2>1, <2>2, <2>3, <2>4, CleanupFacts, CallerFrame DEF cleanVars
<1>6. ASSUME NEW r \in Runtimes, Cleanup(r) \/ Timeout(r) PROVE LifecycleInv'
  <2>1. CASE \/ \E by \in Callers : AcquireCleanup(r, by) \/ LockTimeout(r, by)
             \/ Drained(r) \/ DrainTimeout(r) \/ EndPass(r)
             \/ \E st \in Stages : CloseRefused(r, st)
             \/ TakeFailed(r)
    BY <2>1, PassLifecycle
  <2>2. CASE (\E st \in Stages : SendClose(r, st)) \/ StageTimeout(r) \/ DeleteSession(r)
    BY <2>2, SendCloseLifecycle, StageTimeoutLifecycle, DeleteLifecycle
  <2> QED
    BY <1>6, <2>1, <2>2 DEF Cleanup, Timeout
<1>7. CASE ShutdownBegin \/ Shutdown
  BY <1>7, ShutdownLifecycle
<1>8. CASE UNCHANGED vars
  BY <1>8, LifecycleFrame DEF vars, flowVars, lifeVars, tableVars, actorVars
<1> QED
  BY <1>1, <1>2, <1>3, <1>4, <1>5, <1>6, <1>7, <1>8 DEF Next

--------------------------------------------------------------------------------
\* For every graph, limits, number of sessions and faults: what the tables say
\* of sessions, cleanups and invocations is always consistent with the mailboxes.
THEOREM Lifecycle == Spec => []LifecycleInv
<1>1. Init => LifecycleInv
  BY InitLifecycle
<1>2. TypeOK /\ LifecycleInv /\ [Next]_vars => LifecycleInv'
  BY StepLifecycle
<1>3. Spec => []TypeOK
  BY TypeCorrect
<1> QED
  BY <1>1, <1>2, <1>3, PTL DEF Spec

\* Until close() is over every invocation in flight is held by its actor, once,
\* and every one an actor holds belongs to the runtime its session still has: the
\* counters of stale and orphaned results stay at zero.
THEOREM InvocationsMatch == Spec => []ResultsMatch
<1>1. TypeOK /\ LifecycleInv => ResultsMatch
  <2> SUFFICES ASSUME TypeOK, LifecycleInv, shutdown.phase # "done" PROVE ResultsMatch
    BY DEF ResultsMatch
  <2>1. ASSUME NEW st \in Stages, NEW i \in Invocations(st) PROVE Known(st, queue[st][i])
    <3>1. queue[st][i].runtime \in Runtimes
      BY MailboxMessages DEF Invocations, Messages
    <3>2. <<st, queue[st][i].seq>> \in inFlight[queue[st][i].runtime]
      BY DEF LifecycleInv, MailboxInv
    <3> QED
      BY <3>1, <3>2 DEF Known, LifecycleInv, FlightInv
  <2> QED
    BY <2>1 DEF ResultsMatch, LifecycleInv, MailboxInv, FlightInv
<1> QED
  BY <1>1, TypeCorrect, Lifecycle, PTL

\* No stage is asked to release a session, or has released it, while any actor
\* holds an invocation of that session.
THEOREM ReleaseIsSafe == Spec => []ReleaseAfterDrain
<1>1. TypeOK /\ LifecycleInv => ReleaseAfterDrain
  <2> SUFFICES ASSUME TypeOK, LifecycleInv, NEW st \in Stages, NEW r \in Runtimes,
                      \/ r \in {m.runtime : m \in {x \in Holding(st) : x.kind # "run"}}
                      \/ st \in cleaned[r],
                      NEW t \in Stages, NEW i \in Invocations(t), queue[t][i].runtime = r
               PROVE  FALSE
    BY DEF ReleaseAfterDrain
  <2>1. Releasing(r)
    BY DEF Releasing, Holding, CloseHeld
  <2>2. inFlight[r] = {}
    BY <2>1, CleanupFacts
  <2> QED
    BY <2>2 DEF LifecycleInv, MailboxInv
<1> QED
  BY <1>1, TypeCorrect, Lifecycle, PTL

\* A cleanup that reports success has released every stage of a session that
\* ended and has nothing in flight.
THEOREM CompletionIsTrue == Spec => []CompleteMeansReleased
<1>1. LifecycleInv => CompleteMeansReleased
  <2> SUFFICES ASSUME LifecycleInv, NEW r \in Runtimes, complete[r]
               PROVE  cleaned[r] = Stages /\ inFlight[r] = {} /\ status[r] # "running"
    BY DEF CompleteMeansReleased
  <2>1. Releasing(r)
    BY DEF Releasing
  <2> QED
    BY <2>1, CleanupFacts DEF Ended
<1> QED
  BY <1>1, Lifecycle, PTL

--------------------------------------------------------------------------------
(* Sessions that ended hold nothing.                                       *)

HoldsNothing(r) == slots[r] = {} /\ pending[r] = {} /\ outputs[r] = << >>

\* A step that keeps what ended sessions hold.
LEMMA TerminalFrame ==
    ASSUME TerminalHoldsNothing,
           \A r \in Runtimes :
             Ended(r)' => \/ Ended(r) /\ (HoldsNothing(r) => HoldsNothing(r)')
                          \/ HoldsNothing(r)'
    PROVE  TerminalHoldsNothing'
BY DEF TerminalHoldsNothing, Ended, HoldsNothing

\* A step that ends the sessions of R and drops what they hold.
LEMMA TerminalDiscard ==
    ASSUME TypeOK, TerminalHoldsNothing, NEW R, Discard(R),
           \A r \in Runtimes : r \notin R => status'[r] = status[r]
    PROVE  TerminalHoldsNothing'
<1>1. \A r \in Runtimes : r \in R => HoldsNothing(r)'
  BY DEF Discard, HoldsNothing
<1>2. \A r \in Runtimes : r \notin R =>
        slots'[r] = slots[r] /\ pending'[r] = pending[r] /\ outputs'[r] = outputs[r]
  BY DEF Discard
<1> QED
  BY <1>1, <1>2 DEF TerminalHoldsNothing, HoldsNothing

\* No step of the scheduler gives an artifact or an output to a session that ended.
LEMMA StepTerminal ==
    ASSUME TypeOK, TerminalHoldsNothing, [Next]_vars
    PROVE  TerminalHoldsNothing'
<1>1. ASSUME UNCHANGED <<slots, pending, outputs, status>> PROVE TerminalHoldsNothing'
  BY <1>1 DEF TerminalHoldsNothing
<1>2. ASSUME NEW s \in Sessions, NEW f \in Finals, CreateSession(s, f) PROVE TerminalHoldsNothing'
  BY <1>2 DEF CreateSession, TerminalHoldsNothing, TypeOK, LifeTypes
<1>3. ASSUME NEW s \in Sessions, NEW q \in SeqIds, NEW A \in SUBSET IngressArtifacts,
             TryPushInputs(s, q, A)
      PROVE  TerminalHoldsNothing'
  <2>1. PICK r : r \in Running /\ UNCHANGED <<pending, outputs, status>>
                 /\ \A x \in Runtimes : x # r => slots'[x] = slots[x]
    BY <1>3 DEF TryPushInputs, lifeVars, TypeOK, FlowTypes
  <2>2. status[r] = "running"
    BY <2>1 DEF Running
  <2> QED
    BY <2>1, <2>2 DEF TerminalHoldsNothing
<1>4. ASSUME NEW s \in Sessions, NEW f \in SeqIds, FinishInputs(s, f) PROVE TerminalHoldsNothing'
  BY <1>1, <1>4 DEF FinishInputs, lifeVars
<1>5. ASSUME NEW s \in Sessions, PollOutputs(s) PROVE TerminalHoldsNothing'
  BY <1>5 DEF PollOutputs, TerminalHoldsNothing, lifeVars, TypeOK, FlowTypes
<1>6. ASSUME NEW s \in Sessions, CancelSession(s) PROVE TerminalHoldsNothing'
  <2> DEFINE r == sessions[s]
             R == IF status[r] = "running" THEN {r} ELSE {}
  <2>1. /\ status[r] \in {"running", "cancelled"}
        /\ status' = [status EXCEPT ![r] = "cancelled"]
        /\ Discard(R)
    BY <1>6 DEF CancelSession
  <2>2. \A x \in Runtimes : x \notin R => status'[x] = status[x]
    BY <2>1 DEF TypeOK, LifeTypes
  <2> HIDE DEF R
  <2> QED
    BY <2>1, <2>2, TerminalDiscard
<1>7. ASSUME NEW s \in Sessions, CloseSession(s) PROVE TerminalHoldsNothing'
  <2>1. /\ Discard({sessions[s]})
        /\ \A x \in Runtimes : x \notin {sessions[s]} => status'[x] = status[x]
    BY <1>7 DEF CloseSession, TypeOK, LifeTypes
  <2> QED
    BY <2>1, TerminalDiscard
<1>8. ASSUME NEW s \in Sessions, PumpSkip(s) PROVE TerminalHoldsNothing'
  BY <1>1, <1>8 DEF PumpSkip, flowVars, lifeVars
<1>9. ASSUME NEW s \in Sessions, NEW st \in Stages, PumpAdmit(s, st) PROVE TerminalHoldsNothing'
  <2>1. PICK r : r \in Running /\ UNCHANGED <<pending, outputs, status>>
                 /\ \A x \in Runtimes : x # r => slots'[x] = slots[x]
    BY <1>9 DEF PumpAdmit, lifeVars, TypeOK, FlowTypes
  <2>2. status[r] = "running"
    BY <2>1 DEF Running
  <2> QED
    BY <2>1, <2>2 DEF TerminalHoldsNothing
<1>10. ASSUME NEW R, Fail(R) PROVE TerminalHoldsNothing'
  <2>1. \A x \in Runtimes : x \notin R => status'[x] = status[x]
    BY <1>10 DEF Fail
  <2> QED
    BY <1>10, <2>1, TerminalDiscard DEF Fail
<1>11. ASSUME NEW s \in Sessions, NEW st \in Stages, PumpFailActor(s, st) \/ PumpSubmitError(s, st)
       PROVE  TerminalHoldsNothing'
  BY <1>10, <1>11 DEF PumpFailActor, PumpSubmitError
<1>12. ASSUME NEW st \in Stages, Complete(st) PROVE TerminalHoldsNothing'
  <2>1. CASE CompleteAnomalous(st)
    BY <1>1, <2>1 DEF CompleteAnomalous, flowVars, lifeVars
  <2>2. CASE CompleteFailed(st)
    BY <1>10, <2>2 DEF CompleteFailed
  <2>3. CASE CompleteDropped(st)
    BY <1>1, <2>3 DEF CompleteDropped
  <2>4. CASE CompletePublished(st)
    <3>1. PICK r : status[r] = "running" /\ status' = status
                   /\ \A x \in Runtimes : x # r =>
                        slots'[x] = slots[x] /\ pending'[x] = pending[x] /\ outputs'[x] = outputs[x]
      BY <2>4 DEF CompletePublished, Usable, lifeVars, TypeOK, FlowTypes
    <3> QED
      BY <3>1 DEF TerminalHoldsNothing
  <2> QED
    BY <1>12, <2>1, <2>2, <2>3, <2>4 DEF Complete
<1>13. ASSUME NEW st \in Stages,
              \/ Start(st) \/ WorkerFail(st) \/ AbandonActor(st)
              \/ \E ok \in BOOLEAN : CloserDone(st, ok)
       PROVE  TerminalHoldsNothing'
  BY <1>1, <1>13 DEF Start, WorkerFail, AbandonActor, CloserDone, flowVars, lifeVars
<1>14. ASSUME NEW r \in Runtimes, EndPass(r) PROVE TerminalHoldsNothing'
  <2>1. status' = status
    BY <1>14 DEF EndPass, lifeVars
  <2>2. CASE slots[r] # {}
    BY <1>14, <2>1, <2>2, TerminalDiscard DEF EndPass
  <2>3. CASE slots[r] = {}
    BY <1>1, <1>14, <2>1, <2>3 DEF EndPass
  <2> QED
    BY <2>2, <2>3
<1>15. ASSUME NEW r \in Runtimes,
              \/ \E by \in Callers : AcquireCleanup(r, by) \/ LockTimeout(r, by)
              \/ Drained(r) \/ DrainTimeout(r) \/ StageTimeout(r)
              \/ \E st \in Stages : SendClose(r, st) \/ CloseRefused(r, st)
              \/ DeleteSession(r) \/ TakeFailed(r)
       PROVE  TerminalHoldsNothing'
  BY <1>1, <1>15 DEF AcquireCleanup, LockTimeout, Drained, DrainTimeout, StageTimeout, SendClose,
                     CloseRefused, DeleteSession, TakeFailed, flowVars, lifeVars
<1>16. CASE ShutdownBegin
  <2>1. Discard(Current) /\ \A x \in Runtimes : x \notin Current => status'[x] = status[x]
    BY <1>16 DEF ShutdownBegin, Running
  <2> QED
    BY <2>1, TerminalDiscard
<1>17. CASE Shutdown
  BY <1>1, <1>17 DEF Shutdown, ShutdownSession, ShutdownStopThread, ShutdownJoin, CloseActor,
                     JoinActor, ShutdownDone, flowVars, lifeVars
<1>18. CASE UNCHANGED vars
  BY <1>1, <1>18 DEF vars, flowVars, lifeVars
<1>19. CASE Client
  BY <1>2, <1>3, <1>4, <1>5, <1>6, <1>7, <1>19 DEF Client
<1>20. CASE PumpTurn
  BY <1>8, <1>9, <1>11, <1>20 DEF PumpTurn
<1>21. ASSUME NEW st \in Stages, Actor(st) \/ WorkerFail(st) \/ AbandonActor(st)
       PROVE  TerminalHoldsNothing'
  BY <1>12, <1>13, <1>21 DEF Actor
<1>22. ASSUME NEW r \in Runtimes, Cleanup(r) \/ Timeout(r) PROVE TerminalHoldsNothing'
  BY <1>14, <1>15, <1>22 DEF Cleanup, Timeout
<1> QED
  BY <1>16, <1>17, <1>18, <1>19, <1>20, <1>21, <1>22 DEF Next

\* However late the results of its invocations arrive, a session that was
\* cancelled, failed or closed holds no artifact and no output.
THEOREM TerminalIsEmpty == Spec => []TerminalHoldsNothing
<1>1. Init => TerminalHoldsNothing
  BY DEF Init, TerminalHoldsNothing
<1>2. TypeOK /\ TerminalHoldsNothing /\ [Next]_vars => TerminalHoldsNothing'
  BY StepTerminal
<1> QED
  BY <1>1, <1>2, TypeCorrect, PTL DEF Spec

\* A step that schedules nothing: no runtime fails and none that failed gets rid
\* of its last invocation.
LEMMA ScheduledFrame ==
    ASSUME FailedIsScheduled, UNCHANGED scheduled,
           \A r \in Runtimes :
             status'[r] = "failed" /\ inFlight'[r] = {} => status[r] = "failed" /\ inFlight[r] = {}
    PROVE  FailedIsScheduled'
BY DEF FailedIsScheduled

\* _schedule_failed_cleanup for the runtimes that a step fails or takes an
\* invocation from.
LEMMA ScheduledStep ==
    ASSUME TypeOK, FailedIsScheduled, NEW R \in SUBSET Runtimes, ScheduleFailedCleanup(R),
           \A r \in Runtimes \ R :
             status'[r] = "failed" /\ inFlight'[r] = {} => status[r] = "failed" /\ inFlight[r] = {}
    PROVE  FailedIsScheduled'
BY DEF FailedIsScheduled, ScheduleFailedCleanup, TypeOK, LifeTypes

\* Every step that fails a session or resolves an invocation of a failed one
\* schedules its cleanup.
LEMMA StepScheduled ==
    ASSUME TypeOK, FailedIsScheduled, [Next]_vars
    PROVE  FailedIsScheduled'
<1>1. ASSUME UNCHANGED <<status, scheduled, inFlight>> PROVE FailedIsScheduled'
  BY <1>1 DEF FailedIsScheduled
<1>2. ASSUME NEW s \in Sessions, NEW f \in Finals, CreateSession(s, f) PROVE FailedIsScheduled'
  BY <1>2, ScheduledFrame DEF CreateSession, TypeOK, LifeTypes
<1>3. ASSUME NEW s \in Sessions,
             \/ \E q \in SeqIds, A \in SUBSET IngressArtifacts : TryPushInputs(s, q, A)
             \/ \E f \in SeqIds : FinishInputs(s, f)
             \/ PollOutputs(s) \/ PumpSkip(s)
      PROVE  FailedIsScheduled'
  BY <1>1, <1>3 DEF TryPushInputs, FinishInputs, PollOutputs, PumpSkip, flowVars, lifeVars
<1>4. ASSUME NEW s \in Sessions, CancelSession(s) \/ CloseSession(s) PROVE FailedIsScheduled'
  <2>1. UNCHANGED <<scheduled, inFlight>>
        /\ \A r \in Runtimes : status'[r] = "failed" => status[r] = "failed"
    BY <1>4 DEF CancelSession, CloseSession, TypeOK, LifeTypes
  <2> QED
    BY <2>1, ScheduledFrame
<1>5. ASSUME NEW s \in Sessions, NEW st \in Stages, PumpAdmit(s, st) PROVE FailedIsScheduled'
  <2>1. UNCHANGED <<status, scheduled>> /\ \A r \in Runtimes : inFlight[r] \subseteq inFlight'[r]
    BY <1>5 DEF PumpAdmit, lifeVars, TypeOK, FlowTypes
  <2> QED
    BY <2>1, ScheduledFrame
<1>6. ASSUME NEW s \in Sessions, NEW st \in Stages, PumpFailActor(s, st) \/ PumpSubmitError(s, st)
      PROVE  FailedIsScheduled'
  <2>1. PICK R \in SUBSET Runtimes : Fail(R) /\ ScheduleFailedCleanup(R)
    BY <1>6, RunningRuntimes DEF PumpFailActor, PumpSubmitError, TypeOK
  <2>2. UNCHANGED inFlight /\ \A r \in Runtimes \ R : status'[r] = status[r]
    BY <1>6, <2>1 DEF PumpFailActor, PumpSubmitError, Fail
  <2> QED
    BY <2>1, <2>2, ScheduledStep
<1>7. ASSUME NEW st \in Stages, Complete(st) PROVE FailedIsScheduled'
  <2>1. Head(queue[st]) \in Messages
    BY <1>7, HeadIsMessage DEF Complete, CompleteAnomalous, CompleteFailed, CompleteDropped,
                               CompletePublished, Resolve, TypeOK
  <2>2. PICK r \in Runtimes, q \in SeqIds :
         r = Head(queue[st]).runtime /\ q = Head(queue[st]).seq
    BY <2>1 DEF Messages
  <2>3. CASE CompleteAnomalous(st)
    BY <1>1, <2>3 DEF CompleteAnomalous, flowVars, lifeVars
  <2>4. CASE CompleteFailed(st)
    <3>1. PICK R \in SUBSET Runtimes : Fail(R) /\ ScheduleFailedCleanup(R \cup {r})
      BY <2>2, <2>4, RunningRuntimes DEF CompleteFailed, TypeOK
    <3>2. \A x \in Runtimes \ (R \cup {r}) : status'[x] = status[x] /\ inFlight'[x] = inFlight[x]
      BY <2>2, <2>4, <3>1 DEF CompleteFailed, Fail, TypeOK, FlowTypes
    <3> QED
      BY <3>1, <3>2, ScheduledStep
  <2>5. CASE CompleteDropped(st)
    <3>1. status' = status /\ ScheduleFailedCleanup({r})
      BY <2>2, <2>5 DEF CompleteDropped
    <3>2. \A x \in Runtimes \ {r} : inFlight'[x] = inFlight[x]
      BY <2>2, <2>5 DEF CompleteDropped, TypeOK, FlowTypes
    <3> QED
      BY <3>1, <3>2, ScheduledStep
  <2>6. CASE CompletePublished(st)
    <3>1. UNCHANGED <<status, scheduled>> /\ status[r] = "running"
      BY <2>2, <2>6 DEF CompletePublished, Usable, lifeVars
    <3>2. \A x \in Runtimes : x # r => inFlight'[x] = inFlight[x]
      BY <2>2, <2>6 DEF CompletePublished, TypeOK, FlowTypes
    <3> QED
      BY <3>1, <3>2, ScheduledFrame
  <2> QED
    BY <1>7, <2>3, <2>4, <2>5, <2>6 DEF Complete
<1>8. ASSUME NEW st \in Stages,
             \/ Start(st) \/ WorkerFail(st) \/ AbandonActor(st)
             \/ \E ok \in BOOLEAN : CloserDone(st, ok)
      PROVE  FailedIsScheduled'
  BY <1>1, <1>8 DEF Start, WorkerFail, AbandonActor, CloserDone, flowVars, lifeVars
<1>9. ASSUME NEW r \in Runtimes,
             \/ \E by \in Callers : AcquireCleanup(r, by) \/ LockTimeout(r, by)
             \/ Drained(r) \/ DrainTimeout(r) \/ StageTimeout(r) \/ EndPass(r)
             \/ \E st \in Stages : SendClose(r, st) \/ CloseRefused(r, st)
             \/ DeleteSession(r) \/ TakeFailed(r)
      PROVE  FailedIsScheduled'
  BY <1>1, <1>9 DEF AcquireCleanup, LockTimeout, Drained, DrainTimeout, StageTimeout, EndPass,
                    SendClose, CloseRefused, DeleteSession, TakeFailed, flowVars, lifeVars
<1>10. CASE ShutdownBegin
  <2>1. UNCHANGED <<scheduled, inFlight>>
        /\ \A r \in Runtimes : status'[r] = "failed" => status[r] = "failed"
    BY <1>10 DEF ShutdownBegin, TypeOK, LifeTypes
  <2> QED
    BY <2>1, ScheduledFrame
<1>11. CASE Shutdown \/ UNCHANGED vars
  BY <1>1, <1>11 DEF Shutdown, ShutdownSession, ShutdownStopThread, ShutdownJoin, CloseActor,
                     JoinActor, ShutdownDone, vars, flowVars, lifeVars
<1>12. CASE Client
  BY <1>2, <1>3, <1>4, <1>12 DEF Client
<1>13. CASE PumpTurn
  BY <1>3, <1>5, <1>6, <1>13 DEF PumpTurn
<1>14. ASSUME NEW st \in Stages, Actor(st) \/ WorkerFail(st) \/ AbandonActor(st)
       PROVE  FailedIsScheduled'
  BY <1>7, <1>8, <1>14 DEF Actor
<1>15. ASSUME NEW r \in Runtimes, Cleanup(r) \/ Timeout(r) PROVE FailedIsScheduled'
  BY <1>9, <1>15 DEF Cleanup, Timeout
<1> QED
  BY <1>10, <1>11, <1>12, <1>13, <1>14, <1>15 DEF Next

\* A failed session is never forgotten: once its last invocation is resolved, in
\* whatever way, its cleanup has been queued.
THEOREM FailureIsScheduled == Spec => []FailedIsScheduled
<1>1. Init => FailedIsScheduled
  BY DEF Init, FailedIsScheduled
<1>2. TypeOK /\ FailedIsScheduled /\ [Next]_vars => FailedIsScheduled'
  BY StepScheduled
<1> QED
  BY <1>1, <1>2, TypeCorrect, PTL DEF Spec

--------------------------------------------------------------------------------
(* The order of releases.                                                  *)

\* Some actor holds the release that the pass of r waits for.
Awaited(r) ==
    \E st \in Stages : \E i \in DOMAIN queue[st] :
        queue[st][i].kind = "close" /\ queue[st][i].runtime = r

\* What the invariant says of a runtime whose pass is not waiting.
LEMMA NotAwaited ==
    ASSUME ReleaseInv, NEW r \in Runtimes,
           pass[r].phase # "clean" \/ ~pass[r].sent \/ pass[r].todo = {}
    PROVE  ~Awaited(r)
BY DEF ReleaseInv, Awaited, IsNext

\* Mailboxes that hold no release they did not hold, and that may have lost their
\* head; passes that stay as they are, or for which nothing is awaited any more.
LEMMA ReleaseFrame ==
    ASSUME TypeOK, ReleaseInv,
           \A st \in Stages : \E k \in {0, 1} : \A i \in DOMAIN queue'[st] :
             /\ i \in Nat
             /\ queue'[st][i].kind = "close" =>
                  i + k \in DOMAIN queue[st] /\ queue'[st][i] = queue[st][i + k],
           \A r \in Runtimes :
             \/ pass'[r] = pass[r] /\ cleaned'[r] = cleaned[r]
             \/ /\ ~Awaited(r)'
                /\ pass'[r].phase = "clean" /\ ~pass'[r].error
                     => pass'[r].todo \cup cleaned'[r] = Stages
    PROVE  ReleaseInv'
<1>1. \A r \in Runtimes :
        pass'[r].phase = "clean" /\ ~pass'[r].error => pass'[r].todo \cup cleaned'[r] = Stages
  BY DEF ReleaseInv
<1>2. ASSUME NEW st \in Stages, NEW i \in DOMAIN queue'[st], queue'[st][i].kind = "close",
             NEW r, r = queue'[st][i].runtime
      PROVE  /\ queue'[st][i] = CloseMsg(r)
             /\ pass'[r].phase = "clean" /\ pass'[r].sent /\ IsNext(st, pass'[r].todo)
             /\ \A j \in DOMAIN queue'[st] : queue'[st][j] = CloseMsg(r) => i = j
  <2>1. PICK k \in {0, 1} : \A j \in DOMAIN queue'[st] :
          /\ j \in Nat
          /\ queue'[st][j].kind = "close" =>
               j + k \in DOMAIN queue[st] /\ queue'[st][j] = queue[st][j + k]
    OBVIOUS
  <2>2. /\ i + k \in DOMAIN queue[st] /\ queue'[st][i] = queue[st][i + k]
        /\ queue[st][i + k].kind = "close" /\ queue[st][i + k].runtime = r
    BY <1>2, <2>1
  <2>3. r \in Runtimes
    BY <2>2, MailboxMessages DEF Messages
  <2>4. Awaited(r)'
    BY <1>2 DEF Awaited
  <2>5. pass'[r] = pass[r]
    BY <2>3, <2>4
  <2>6. /\ queue[st][i + k] = CloseMsg(r)
        /\ pass[r].phase = "clean" /\ pass[r].sent /\ IsNext(st, pass[r].todo)
        /\ \A j \in DOMAIN queue[st] : queue[st][j] = CloseMsg(r) => i + k = j
    BY <2>2 DEF ReleaseInv
  <2>7. ASSUME NEW j \in DOMAIN queue'[st], queue'[st][j] = CloseMsg(r) PROVE i = j
    <3>1. queue'[st][j].kind = "close"
      BY <2>7 DEF CloseMsg
    <3>2. j + k \in DOMAIN queue[st] /\ queue[st][j + k] = CloseMsg(r) /\ i \in Nat /\ j \in Nat
      BY <2>1, <2>7, <3>1
    <3>3. i + k = j + k
      BY <2>6, <3>2
    <3> QED
      BY <3>2, <3>3
  <2> QED
    BY <2>2, <2>5, <2>6, <2>7 DEF IsNext
<1> QED
  BY <1>1, <1>2 DEF ReleaseInv

\* The same mailboxes, with one pass that goes on.
LEMMA ReleasePass ==
    ASSUME TypeOK, ReleaseInv, UNCHANGED <<queue, cleaned>>, NEW r \in Runtimes,
           \A x \in Runtimes : x # r => pass'[x] = pass[x],
           \/ pass'[r] = pass[r]
           \/ /\ pass[r].phase # "clean" \/ ~pass[r].sent \/ pass[r].todo = {}
              /\ pass'[r].phase = "clean" /\ ~pass'[r].error
                   => pass'[r].todo \cup cleaned[r] = Stages
    PROVE  ReleaseInv'
<1>1. \A st \in Stages : \A i \in DOMAIN queue'[st] : i \in Nat /\ i + 0 = i
  BY DEF TypeOK, ActorTypes
<1>2. pass'[r] = pass[r] \/ ~Awaited(r)'
  BY NotAwaited DEF Awaited
<1>3. \A st \in Stages : \E k \in {0, 1} : \A i \in DOMAIN queue'[st] :
        /\ i \in Nat
        /\ queue'[st][i].kind = "close" =>
             i + k \in DOMAIN queue[st] /\ queue'[st][i] = queue[st][i + k]
  BY <1>1
<1>4. \A x \in Runtimes :
        \/ pass'[x] = pass[x] /\ cleaned'[x] = cleaned[x]
        \/ /\ ~Awaited(x)'
           /\ pass'[x].phase = "clean" /\ ~pass'[x].error
                => pass'[x].todo \cup cleaned'[x] = Stages
  BY <1>2
<1> QED
  BY <1>3, <1>4, ReleaseFrame

\* A step that leaves the passes and only takes the head of a mailbox, or appends
\* an invocation to one.
LEMMA ReleaseMailbox ==
    ASSUME TypeOK, ReleaseInv, UNCHANGED <<pass, cleaned>>,
           \/ UNCHANGED queue
           \/ \E st \in Stages : queue[st] # << >> /\ queue' = [queue EXCEPT ![st] = Tail(@)]
           \/ \E st \in Stages, m \in Messages :
                m.kind = "run" /\ queue' = [queue EXCEPT ![st] = Append(@, m)]
    PROVE  ReleaseInv'
<1> DEFINE Shorter(st, k) ==
             \A i \in DOMAIN queue'[st] :
               /\ i \in Nat
               /\ queue'[st][i].kind = "close" =>
                    i + k \in DOMAIN queue[st] /\ queue'[st][i] = queue[st][i + k]
<1>1. \A st \in Stages : queue[st] \in Seq(Messages) /\ \A i \in DOMAIN queue[st] : i \in Nat /\ i + 0 = i
  BY DEF TypeOK, ActorTypes
<1>2. \A st \in Stages : queue'[st] = queue[st] => Shorter(st, 0)
  BY <1>1
<1>3. ASSUME NEW st \in Stages, queue[st] # << >>, queue' = [queue EXCEPT ![st] = Tail(@)]
      PROVE  Shorter(st, 1) /\ \A t \in Stages : t # st => queue'[t] = queue[t]
  <2>1. queue'[st] = Tail(queue[st]) /\ \A t \in Stages : t # st => queue'[t] = queue[t]
    BY <1>3 DEF TypeOK, ActorTypes
  <2>2. /\ DOMAIN Tail(queue[st]) \subseteq Nat
        /\ \A i \in DOMAIN Tail(queue[st]) :
             i + 1 \in DOMAIN queue[st] /\ Tail(queue[st])[i] = queue[st][i + 1]
    BY <1>1, <1>3, TailFacts
  <2> QED
    BY <2>1, <2>2
<1>4. ASSUME NEW st \in Stages, NEW m \in Messages, m.kind = "run",
             queue' = [queue EXCEPT ![st] = Append(@, m)]
      PROVE  Shorter(st, 0) /\ \A t \in Stages : t # st => queue'[t] = queue[t]
  <2>1. queue'[st] = Append(queue[st], m) /\ \A t \in Stages : t # st => queue'[t] = queue[t]
    BY <1>4 DEF TypeOK, ActorTypes
  <2>2. /\ DOMAIN queue'[st] = DOMAIN queue[st] \cup {Len(queue[st]) + 1}
        /\ queue'[st][Len(queue[st]) + 1] = m
        /\ \A i \in DOMAIN queue[st] : queue'[st][i] = queue[st][i]
        /\ Len(queue[st]) + 1 \in Nat
    BY <1>1, <2>1, AppendFacts
  <2> QED
    BY <1>1, <1>4, <2>1, <2>2
<1>5. \A st \in Stages : Shorter(st, 0) \/ Shorter(st, 1)
  BY <1>2, <1>3, <1>4
<1>6. \A st \in Stages : \E k \in {0, 1} : Shorter(st, k)
  BY <1>5
<1> QED
  BY <1>6, ReleaseFrame

\* A release is sent for the next stage, and was not sent yet.
LEMMA ReleaseSent ==
    ASSUME TypeOK, ReleaseInv, NEW r \in Runtimes, NEW st \in Stages, SendClose(r, st)
    PROVE  ReleaseInv'
<1> DEFINE n == Len(queue[st]) + 1
<1>1. /\ pass[r].phase = "clean" /\ IsNext(st, pass[r].todo) /\ ~pass[r].sent
      /\ queue' = [queue EXCEPT ![st] = Append(@, CloseMsg(r))]
      /\ pass' = [pass EXCEPT ![r].sent = TRUE]
      /\ UNCHANGED cleaned
  BY DEF SendClose
<1>2. /\ \A x \in Runtimes : /\ pass'[x].phase = pass[x].phase
                             /\ pass'[x].todo = pass[x].todo /\ pass'[x].error = pass[x].error
      /\ \A x \in Runtimes : x # r => pass'[x] = pass[x]
      /\ pass'[r].sent
  BY <1>1 DEF TypeOK, CleanTypes, Passes
<1>3. CloseMsg(r) \in Messages /\ CloseMsg(r).kind = "close" /\ CloseMsg(r).runtime = r
  BY BoundsAssumption DEF CloseMsg, Messages, SeqIds
<1>4. /\ DOMAIN queue'[st] = DOMAIN queue[st] \cup {n}
      /\ queue'[st][n] = CloseMsg(r)
      /\ \A i \in DOMAIN queue[st] : queue'[st][i] = queue[st][i]
      /\ \A t \in Stages : t # st => queue'[t] = queue[t]
  <2>1. queue[st] \in Seq(Messages) /\ queue'[st] = Append(queue[st], CloseMsg(r))
    BY <1>1 DEF TypeOK, ActorTypes
  <2> QED
    BY <1>1, <1>3, <2>1, AppendFacts DEF TypeOK, ActorTypes
<1> HIDE DEF n
<1>5. ~Awaited(r)
  BY <1>1, NotAwaited
<1>6. \A x \in Runtimes :
        pass'[x].phase = "clean" /\ ~pass'[x].error => pass'[x].todo \cup cleaned'[x] = Stages
  BY <1>1, <1>2 DEF ReleaseInv
<1>7. ASSUME NEW t \in Stages, NEW i \in DOMAIN queue'[t], queue'[t][i].kind = "close",
             NEW x, x = queue'[t][i].runtime
      PROVE  /\ queue'[t][i] = CloseMsg(x)
             /\ pass'[x].phase = "clean" /\ pass'[x].sent /\ IsNext(t, pass'[x].todo)
             /\ \A j \in DOMAIN queue'[t] : queue'[t][j] = CloseMsg(x) => i = j
  <2>1. CASE t = st /\ i = n
    <3>1. x = r
      BY <1>3, <1>4, <1>7, <2>1
    <3>2. \A j \in DOMAIN queue[st] : queue[st][j] # CloseMsg(r)
      BY <1>3, <1>5 DEF Awaited
    <3> QED
      BY <1>1, <1>2, <1>4, <2>1, <3>1, <3>2 DEF IsNext
  <2>2. CASE t # st \/ i # n
    <3>1. i \in DOMAIN queue[t] /\ queue'[t][i] = queue[t][i]
      BY <1>4, <2>2
    <3>2. x \in Runtimes
      BY <1>7, <3>1, MailboxMessages DEF Messages
    <3>3. x # r
      BY <1>5, <1>7, <3>1 DEF Awaited
    <3>4. /\ queue[t][i] = CloseMsg(x)
          /\ pass[x].phase = "clean" /\ pass[x].sent /\ IsNext(t, pass[x].todo)
          /\ \A j \in DOMAIN queue[t] : queue[t][j] = CloseMsg(x) => i = j
      BY <1>7, <3>1 DEF ReleaseInv
    <3>5. CloseMsg(r) # CloseMsg(x)
      BY <3>3 DEF CloseMsg
    <3>6. \A j \in DOMAIN queue'[t] : queue'[t][j] = CloseMsg(x)
            => j \in DOMAIN queue[t] /\ queue[t][j] = CloseMsg(x)
      BY <1>4, <3>5
    <3> QED
      BY <1>2, <3>1, <3>2, <3>3, <3>4, <3>6
  <2> QED
    BY <2>1, <2>2
<1> QED
  BY <1>6, <1>7 DEF ReleaseInv

\* Giving up turns the release that is awaited into a late one.
LEMMA ReleaseGivenUp ==
    ASSUME TypeOK, ReleaseInv, NEW r \in Runtimes, StageTimeout(r)
    PROVE  ReleaseInv'
<1>1. /\ UNCHANGED cleaned
      /\ pass' = [pass EXCEPT ![r].todo = {}, ![r].sent = FALSE, ![r].error = TRUE]
      /\ \A st \in Stages : /\ DOMAIN queue'[st] = DOMAIN queue[st]
                            /\ \A i \in DOMAIN queue[st] :
                                 queue'[st][i] = IF queue[st][i] = CloseMsg(r)
                                                 THEN [queue[st][i] EXCEPT !.kind = "late"]
                                                 ELSE queue[st][i]
  BY DEF StageTimeout
<1>2. pass'[r].error /\ \A x \in Runtimes : x # r => pass'[x] = pass[x]
  BY <1>1 DEF TypeOK, CleanTypes, Passes
<1>3. [CloseMsg(r) EXCEPT !.kind = "late"].kind = "late"
  BY DEF CloseMsg
<1>4. ASSUME NEW st \in Stages, NEW i \in DOMAIN queue'[st], queue'[st][i].kind = "close"
      PROVE  /\ i \in DOMAIN queue[st] /\ queue'[st][i] = queue[st][i] /\ queue[st][i] # CloseMsg(r)
  BY <1>1, <1>3, <1>4
<1>5. ~Awaited(r)'
  <2> SUFFICES ASSUME NEW st \in Stages, NEW i \in DOMAIN queue'[st],
                      queue'[st][i].kind = "close", queue'[st][i].runtime = r
               PROVE  FALSE
    BY DEF Awaited
  <2>1. i \in DOMAIN queue[st] /\ queue'[st][i] = queue[st][i] /\ queue[st][i] # CloseMsg(r)
    BY <1>4
  <2> QED
    BY <2>1 DEF ReleaseInv
<1>6. \A st \in Stages : \A i \in DOMAIN queue'[st] : i \in Nat /\ i + 0 = i
  BY <1>1 DEF TypeOK, ActorTypes
<1>7. \A st \in Stages : \E k \in {0, 1} : \A i \in DOMAIN queue'[st] :
        /\ i \in Nat
        /\ queue'[st][i].kind = "close" =>
             i + k \in DOMAIN queue[st] /\ queue'[st][i] = queue[st][i + k]
  BY <1>4, <1>6
<1>8. \A x \in Runtimes :
        \/ pass'[x] = pass[x] /\ cleaned'[x] = cleaned[x]
        \/ /\ ~Awaited(x)'
           /\ pass'[x].phase = "clean" /\ ~pass'[x].error
                => pass'[x].todo \cup cleaned'[x] = Stages
  BY <1>1, <1>2, <1>5
<1> QED
  BY <1>7, <1>8, ReleaseFrame

\* A closer returned: the release that was awaited is the head of its mailbox.
LEMMA ReleaseDone ==
    ASSUME TypeOK, ReleaseInv, NEW st \in Stages, NEW ok \in BOOLEAN, CloserDone(st, ok)
    PROVE  ReleaseInv'
<1> DEFINE m == Head(queue[st])
<1>1. /\ queue[st] # << >>
      /\ queue' = [queue EXCEPT ![st] = Tail(@)]
      /\ m.kind # "run"
  BY DEF CloserDone
<1>2. /\ m \in Messages /\ m = queue[st][1] /\ 1 \in DOMAIN queue[st]
      /\ queue'[st] = Tail(queue[st])
      /\ \A t \in Stages : t # st => queue'[t] = queue[t]
      /\ DOMAIN Tail(queue[st]) \subseteq Nat
      /\ \A i \in DOMAIN Tail(queue[st]) :
           i + 1 \in DOMAIN queue[st] /\ i + 1 # 1 /\ Tail(queue[st])[i] = queue[st][i + 1]
  <2>1. queue[st] \in Seq(Messages) /\ queue \in [Stages -> Seq(Messages)]
    BY DEF TypeOK, ActorTypes
  <2> QED
    BY <1>1, <2>1, TailFacts
<1> HIDE DEF m
<1>3. PICK r \in Runtimes : r = m.runtime
  BY <1>2 DEF Messages
<1>4. CASE m.kind = "late"
  <2>1. UNCHANGED <<cleaned, pass>>
    BY <1>4 DEF CloserDone, m
  <2> QED
    BY <1>1, <2>1, ReleaseMailbox
<1>5. CASE m.kind # "late"
  <2>1. m.kind = "close" /\ m = CloseMsg(r)
    BY <1>1, <1>2, <1>3, <1>5 DEF Messages, ReleaseInv
  <2>2. /\ pass[r].phase = "clean" /\ IsNext(st, pass[r].todo)
        /\ \A j \in DOMAIN queue[st] : queue[st][j] = CloseMsg(r) => 1 = j
    BY <1>2, <1>3, <2>1 DEF ReleaseInv
  <2>3. /\ cleaned' = IF ok THEN [cleaned EXCEPT ![r] = @ \cup {st}] ELSE cleaned
        /\ pass' = [pass EXCEPT ![r].todo = @ \ {st}, ![r].sent = FALSE, ![r].error = @ \/ ~ok]
    BY <1>3, <1>5 DEF CloserDone, m
  <2>4. pass \in [Runtimes -> Passes] /\ cleaned \in [Runtimes -> SUBSET Stages]
    BY DEF TypeOK, CleanTypes
  <2>5. pass'[r] = [pass[r] EXCEPT !.todo = @ \ {st}, !.sent = FALSE, !.error = @ \/ ~ok]
    BY ONLY <2>3, <2>4, <1>3
  <2>6. \A x \in Runtimes : x # r => pass'[x] = pass[x]
    BY ONLY <2>3, <2>4, <1>3
  <2>7. ASSUME ok PROVE cleaned'[r] = cleaned[r] \cup {st} /\ \A x \in Runtimes : x # r => cleaned'[x] = cleaned[x]
    <3>1. cleaned' = [cleaned EXCEPT ![r] = @ \cup {st}]
      BY ONLY <2>3, <2>7
    <3> QED
      BY ONLY <2>4, <3>1, <1>3
  <2>8. ASSUME ~ok PROVE cleaned' = cleaned
    BY ONLY <2>3, <2>8
  <2>9. pass[r] \in Passes
    BY <1>3, <2>4
  <2>10. pass'[r].todo = pass[r].todo \ {st} /\ pass'[r].error = (pass[r].error \/ ~ok)
    BY ONLY <2>5, <2>9 DEF Passes
  <2>11. ~pass'[r].error => pass'[r].todo \cup cleaned'[r] = Stages
    <3>1. ASSUME ~pass'[r].error PROVE ok /\ ~pass[r].error
      BY ONLY <2>10, <3>1
    <3>2. ~pass[r].error => pass[r].todo \cup cleaned[r] = Stages
      BY <1>3, <2>2 DEF ReleaseInv
    <3> QED
      BY <2>7, <2>10, <3>1, <3>2
  <2>12. ~Awaited(r)'
    <3> SUFFICES ASSUME NEW t \in Stages, NEW i \in DOMAIN queue'[t],
                        queue'[t][i].kind = "close", queue'[t][i].runtime = r
                 PROVE  FALSE
      BY DEF Awaited
    <3>1. CASE t = st
      <4>1. i + 1 \in DOMAIN queue[st] /\ i + 1 # 1 /\ queue[st][i + 1] = queue'[st][i]
        BY <1>2, <3>1
      <4>2. queue[st][i + 1] = CloseMsg(r)
        BY <3>1, <4>1 DEF ReleaseInv
      <4> QED
        BY <2>2, <4>1, <4>2
    <3>2. CASE t # st
      <4>1. i \in DOMAIN queue[t] /\ queue[t][i] = queue'[t][i]
        BY <1>2, <3>2
      <4>2. IsNext(t, pass[r].todo)
        BY <4>1 DEF ReleaseInv
      <4>3. Rank[t] <= Rank[st] /\ Rank[st] <= Rank[t]
        BY <2>2, <4>2 DEF IsNext
      <4> QED
        BY <3>2, <4>3, RankAssumption
    <3> QED
      BY <3>1, <3>2
  <2>13. \A t \in Stages : \E k \in {0, 1} : \A i \in DOMAIN queue'[t] :
           /\ i \in Nat
           /\ queue'[t][i].kind = "close" =>
                i + k \in DOMAIN queue[t] /\ queue'[t][i] = queue[t][i + k]
    <3>1. \A t \in Stages : \A i \in DOMAIN queue[t] : i \in Nat /\ i + 0 = i
      BY DEF TypeOK, ActorTypes
    <3> QED
      BY <1>2, <3>1
  <2>14. \A x \in Runtimes :
           \/ pass'[x] = pass[x] /\ cleaned'[x] = cleaned[x]
           \/ /\ ~Awaited(x)'
              /\ pass'[x].phase = "clean" /\ ~pass'[x].error
                   => pass'[x].todo \cup cleaned'[x] = Stages
    BY <2>6, <2>7, <2>8, <2>11, <2>12
  <2> QED
    BY <2>13, <2>14, ReleaseFrame
<1> QED
  BY <1>4, <1>5

\* Every step keeps the release of stage state in order.
LEMMA StepRelease ==
    ASSUME TypeOK, ReleaseInv, [Next]_vars
    PROVE  ReleaseInv'
<1>1. ASSUME UNCHANGED <<queue, pass, cleaned>> PROVE ReleaseInv'
  BY <1>1, ReleaseMailbox
<1>2. CASE Client
  BY <1>1, <1>2 DEF Client, CreateSession, TryPushInputs, FinishInputs, PollOutputs, CancelSession,
                    CloseSession, actorVars, cleanVars
<1>3. ASSUME NEW s \in Sessions, NEW st \in Stages, PumpAdmit(s, st) PROVE ReleaseInv'
  <2>1. sessions[s] \in Runtimes /\ UNCHANGED <<pass, cleaned>>
    BY <1>3, RunningRuntimes DEF PumpAdmit, TypeOK, cleanVars
  <2>2. PICK q \in Runnable(sessions[s], st) :
          queue' = [queue EXCEPT ![st] = Append(@, Invoke(sessions[s], q))]
    BY <1>3 DEF PumpAdmit
  <2>3. Invoke(sessions[s], q) \in Messages /\ Invoke(sessions[s], q).kind = "run"
    BY <2>1, <2>2 DEF Invoke, Messages, Runnable, Candidates
  <2> QED
    BY <2>1, <2>2, <2>3, ReleaseMailbox
<1>4. CASE PumpTurn
  BY <1>1, <1>3, <1>4 DEF PumpTurn, PumpSkip, PumpFailActor, PumpSubmitError, actorVars, cleanVars
<1>5. ASSUME NEW st \in Stages, Complete(st) PROVE ReleaseInv'
  <2>1. /\ queue[st] # << >> /\ queue' = [queue EXCEPT ![st] = Tail(@)]
        /\ UNCHANGED <<pass, cleaned>>
    BY <1>5 DEF Complete, CompleteAnomalous, CompleteFailed, CompleteDropped, CompletePublished,
                Resolve, cleanVars
  <2> QED
    BY <2>1, ReleaseMailbox
<1>6. ASSUME NEW st \in Stages, Actor(st) \/ WorkerFail(st) \/ AbandonActor(st) PROVE ReleaseInv'
  BY <1>1, <1>5, <1>6, ReleaseDone
     DEF Actor, Start, WorkerFail, AbandonActor, actorVars, cleanVars
<1>7. ASSUME NEW r \in Runtimes,
             \/ \E by \in Callers : AcquireCleanup(r, by) \/ LockTimeout(r, by)
             \/ Drained(r) \/ DrainTimeout(r) \/ EndPass(r)
             \/ \E st \in Stages : CloseRefused(r, st)
             \/ DeleteSession(r) \/ TakeFailed(r)
      PROVE  ReleaseInv'
  <2>1. UNCHANGED <<queue, cleaned>>
    BY <1>7 DEF AcquireCleanup, LockTimeout, Drained, DrainTimeout, EndPass, CloseRefused,
                DeleteSession, TakeFailed, actorVars
  <2>2. /\ pass \in [Runtimes -> Passes] /\ pass[r] \in Passes
        /\ cleaned[r] \subseteq Stages
    BY DEF TypeOK, CleanTypes
  <2>3. ASSUME NEW by \in Callers, AcquireCleanup(r, by) PROVE ReleaseInv'
    <3>1. /\ pass[r].phase = "idle"
          /\ \/ UNCHANGED pass
             \/ pass' = [pass EXCEPT ![r] = [NoPass EXCEPT !.by = by, !.phase = "drain"]]
      BY <2>3 DEF AcquireCleanup
    <3>2. [NoPass EXCEPT !.by = by, !.phase = "drain"].phase = "drain"
      BY DEF NoPass
    <3>3. /\ pass'[r] = pass[r] \/ pass'[r].phase = "drain"
          /\ \A x \in Runtimes : x # r => pass'[x] = pass[x]
      BY <2>2, <3>1, <3>2
    <3> QED
      BY <2>1, <3>1, <3>3, ReleasePass
  <2>4. CASE Drained(r)
    <3>1. /\ pass[r].phase = "drain"
          /\ pass' = [pass EXCEPT ![r].phase = "clean", ![r].todo = Stages \ cleaned[r]]
      BY <2>4 DEF Drained
    <3>2. /\ pass'[r].todo = Stages \ cleaned[r]
          /\ \A x \in Runtimes : x # r => pass'[x] = pass[x]
      BY <2>2, <3>1 DEF Passes
    <3> QED
      BY <2>1, <2>2, <3>1, <3>2, ReleasePass
  <2>5. CASE DrainTimeout(r) \/ EndPass(r)
    <3>1. /\ pass[r].phase = "drain" \/ pass[r].todo = {}
          /\ pass' = [pass EXCEPT ![r] = NoPass]
      BY <2>5 DEF DrainTimeout, EndPass
    <3>2. /\ pass'[r].phase = "idle"
          /\ \A x \in Runtimes : x # r => pass'[x] = pass[x]
      BY <2>2, <3>1 DEF NoPass
    <3> QED
      BY <2>1, <3>1, <3>2, ReleasePass
  <2>6. ASSUME NEW st \in Stages, CloseRefused(r, st) PROVE ReleaseInv'
    <3>1. /\ ~pass[r].sent
          /\ pass' = [pass EXCEPT ![r].todo = @ \ {st}, ![r].error = TRUE]
      BY <2>6 DEF CloseRefused
    <3>2. pass'[r].error /\ \A x \in Runtimes : x # r => pass'[x] = pass[x]
      BY <2>2, <3>1 DEF Passes
    <3> QED
      BY <2>1, <3>1, <3>2, ReleasePass
  <2>7. ASSUME UNCHANGED pass PROVE ReleaseInv'
    BY <1>1, <2>1, <2>7
  <2> QED
    BY <1>7, <2>3, <2>4, <2>5, <2>6, <2>7 DEF LockTimeout, DeleteSession, TakeFailed
<1>8. ASSUME NEW r \in Runtimes, Cleanup(r) \/ Timeout(r) PROVE ReleaseInv'
  BY <1>7, <1>8, ReleaseSent, ReleaseGivenUp DEF Cleanup, Timeout
<1>9. CASE ShutdownBegin \/ UNCHANGED vars
  BY <1>1, <1>9 DEF ShutdownBegin, vars, actorVars, cleanVars
<1>10. CASE Shutdown
  BY <1>1, <1>10 DEF Shutdown, ShutdownSession, ShutdownStopThread, ShutdownJoin, CloseActor,
                     JoinActor, ShutdownDone, actorVars, cleanVars
<1> QED
  BY <1>2, <1>4, <1>6, <1>8, <1>9, <1>10 DEF Next

\* For every stage graph: as long as no release failed, a stage is asked to
\* release a session after every stage it feeds has done so.
THEOREM ReleasesInOrder == Spec => []ReleaseOrder
<1>1. Init => ReleaseInv
  BY DEF Init, ReleaseInv, NoPass
<1>2. TypeOK /\ ReleaseInv /\ [Next]_vars => ReleaseInv'
  BY StepRelease
<1>3. TypeOK /\ ReleaseInv => ReleaseOrder
  <2> SUFFICES ASSUME TypeOK, ReleaseInv, NEW st \in Stages, NEW r \in Runtimes,
                      CloseMsg(r) \in Holding(st), ~pass[r].error,
                      NEW e \in Edges, e.source = st
               PROVE  e.target \in cleaned[r]
    BY DEF ReleaseOrder
  <2>1. PICK i \in DOMAIN queue[st] : queue[st][i] = CloseMsg(r)
    BY DEF Holding
  <2>2. queue[st][i].kind = "close" /\ queue[st][i].runtime = r
    BY <2>1 DEF CloseMsg
  <2>3. pass[r].phase = "clean" /\ IsNext(st, pass[r].todo)
    BY <2>2 DEF ReleaseInv
  <2>4. e.target \in Stages /\ Rank[st] < Rank[e.target] /\ Rank[st] \in Nat /\ Rank[e.target] \in Nat
    BY GraphAssumption, RankAssumption
  <2>5. e.target \notin pass[r].todo
    BY <2>3, <2>4 DEF IsNext
  <2> QED
    BY <2>3, <2>4, <2>5 DEF ReleaseInv
<1> QED
  BY <1>1, <1>2, <1>3, TypeCorrect, PTL DEF Spec

--------------------------------------------------------------------------------
(* Wakeups: while no close message is about, no work is stranded.          *)

\* deque.remove drops one element only.
LEMMA WithoutKeeps ==
    ASSUME NEW S, NEW q \in Seq(S), NEW x, NEW i \in DOMAIN q, q[i] # x
    PROVE  \E j \in DOMAIN Without(q, x) : Without(q, x)[j] = q[i]
<1>1. CASE \A k \in DOMAIN q : q[k] # x
  BY <1>1 DEF Without
<1>2. CASE \E k \in DOMAIN q : q[k] = x
  <2> DEFINE k == CHOOSE k \in DOMAIN q : q[k] = x
             p == [j \in 1 .. Len(q) - 1 |-> IF j < k THEN q[j] ELSE q[j + 1]]
  <2>1. k \in DOMAIN q /\ q[k] = x
    BY <1>2
  <2>2. Without(q, x) = p
    BY <1>2 DEF Without
  <2> HIDE DEF k
  <2>3. Len(q) \in Nat /\ DOMAIN q = 1 .. Len(q)
    OBVIOUS
  <2>4. CASE i < k
    <3>1. i \in 1 .. Len(q) - 1 /\ p[i] = q[i]
      BY <2>1, <2>3, <2>4
    <3> QED
      BY <2>2, <3>1
  <2>5. CASE i > k
    <3>1. i - 1 \in 1 .. Len(q) - 1 /\ p[i - 1] = q[i]
      BY <2>1, <2>3, <2>5
    <3> QED
      BY <2>2, <3>1
  <2> QED
    BY <2>1, <2>3, <2>4, <2>5
<1> QED
  BY <1>1, <1>2

\* A turn moves the first session behind the others.
LEMMA Rotation ==
    ASSUME NEW S, NEW q \in Seq(S), q # << >>, NEW p, p = Append(Tail(q), Head(q))
    PROVE  /\ Len(q) \in Nat \ {0} /\ Len(p) = Len(q)
           /\ DOMAIN q = 1 .. Len(q) /\ DOMAIN p = 1 .. Len(q)
           /\ \A i \in 1 .. Len(q) - 1 : p[i] = q[i + 1]
           /\ p[Len(q)] = q[1] /\ Head(q) = q[1]
OBVIOUS

LEMMA RotationKeeps ==
    ASSUME TypeOK, NEW s \in Sessions, Turn(s), NEW i \in DOMAIN order
    PROVE  \E j \in DOMAIN order' : order'[j] = order[i]
<1> DEFINE n == Len(order)
<1>1. /\ n \in Nat \ {0} /\ DOMAIN order = 1 .. n /\ DOMAIN order' = 1 .. n
      /\ \A j \in 1 .. n - 1 : order'[j] = order[j + 1]
      /\ order'[n] = order[1]
  BY Rotation DEF Turn, TypeOK, TableTypes
<1> HIDE DEF n
<1>2. i = 1 \/ i - 1 \in 1 .. n - 1
  BY <1>1
<1>3. i - 1 \in 1 .. n - 1 => i - 1 \in DOMAIN order' /\ order'[i - 1] = order[i]
  BY <1>1
<1> QED
  BY <1>1, <1>2, <1>3

\* What is in flight does not change by a runtime that has nothing in flight.
LEMMA FlyingKept ==
    ASSUME inFlight' = inFlight,
           \A r \in Current \ Current' : inFlight[r] = {},
           \A r \in Current' \ Current : inFlight[r] = {}
    PROVE  Flying' = Flying
BY DEF Flying

\* Admission depends on the session's own tables and on what is in flight.
SameTables(r) ==
    UNCHANGED <<slots[r], inFlight[r], frontier[r], pending[r], outputs[r]>>

LEMMA AdmissibleKept ==
    ASSUME NEW r \in Runtimes, NEW st \in Stages, SameTables(r), Flying' = Flying
    PROVE  Admissible(r, st)' <=> Admissible(r, st)
<1>1. /\ slots'[r] = slots[r] /\ inFlight'[r] = inFlight[r] /\ frontier'[r] = frontier[r]
      /\ pending'[r] = pending[r] /\ outputs'[r] = outputs[r]
  BY DEF SameTables
<1>2. Runnable(r, st)' = Runnable(r, st)
  BY <1>1 DEF Runnable, Candidates
<1>3. HasExecutionCapacity(st)' <=> HasExecutionCapacity(st)
  BY DEF HasExecutionCapacity, StageInFlight, GroupInFlight
<1>4. HasOutputCapacity(r, st)' <=> HasOutputCapacity(r, st)
  BY <1>1 DEF HasOutputCapacity, EdgeOccupancy, Reserved, OutputOccupancy
<1> QED
  BY <1>2, <1>3, <1>4 DEF Admissible

\* A step that gives no running session anything and empties no mailbox.
Calm ==
    /\ UNCHANGED <<sessions, inFlight, frontier>>
    /\ \A r \in Runtimes :
         /\ status'[r] = "none" => status[r] = "none" /\ slots'[r] \subseteq slots[r]
         /\ status'[r] = "running" =>
              /\ status[r] = "running"
              /\ slots'[r] = slots[r] /\ pending'[r] = pending[r] /\ outputs'[r] = outputs[r]
    /\ \A st \in Stages : queue[st] # << >> => queue'[st] # << >>

LEMMA CalmServes ==
    ASSUME TypeOK, Calm, NEW s \in Sessions, Served(s)
    PROVE  Served(s)'
<1> DEFINE r == sessions[s]
<1>1. sessions' = sessions /\ Current' = Current /\ Flying' = Flying
  BY DEF Calm, Current, Flying
<1> SUFFICES ASSUME sessions'[s] \in Running', NEW st \in Stages, Admissible(r, st)'
             PROVE  queue'[st] # << >>
  BY <1>1 DEF Served
<1>2. r \in Current /\ status'[r] = "running"
  BY <1>1 DEF Running
<1>3. r \in Runtimes
  BY <1>2, CurrentRuntime DEF Current, TypeOK
<1>4. status[r] = "running" /\ SameTables(r)
  BY <1>2, <1>3 DEF Calm, SameTables
<1>5. Admissible(r, st)
  BY <1>1, <1>3, <1>4, AdmissibleKept
<1> QED
  BY <1>2, <1>4, <1>5 DEF Served, Running, Calm

LEMMA CalmWake ==
    ASSUME TypeOK, WakeInv, Calm, UNCHANGED <<order, pump>>
    PROVE  WakeInv'
<1>1. \A s \in Sessions : Served(s) => Served(s)'
  BY CalmServes
<1>2. \A i \in DOMAIN order : order[i] \in Sessions
  BY DEF TypeOK, TableTypes
<1>3. \A r \in Runtimes : status'[r] = "none" => slots'[r] = {}
  BY DEF Calm, WakeInv
<1>4. \A i \in DOMAIN order : Served(order[i]) => Served(order[i])'
  BY <1>1, <1>2
<1> QED
  BY <1>1, <1>3, <1>4 DEF WakeInv, Calm

\* A step that leaves the lock to a pump whose round has just begun, or that
\* will begin another.
LEMMA PumpingWake ==
    ASSUME TypeOK, WakeInv, UNCHANGED sessions,
           \A i \in DOMAIN order : \E j \in DOMAIN order' : order'[j] = order[i],
           \A r \in Runtimes : status'[r] = "none" => slots'[r] = {},
           \/ pump'.active /\ (pump'.progress \/ pump'.left >= Len(order'))
           \/ ~pump'.active /\ order' = << >>,
           TypeOK'
    PROVE  WakeInv'
<1>1. \A s \in Sessions : sessions'[s] # 0 => \E i \in DOMAIN order' : order'[i] = s
  <2> SUFFICES ASSUME NEW s \in Sessions, sessions[s] # 0
               PROVE  \E j \in DOMAIN order' : order'[j] = s
    OBVIOUS
  <2>1. PICK i \in DOMAIN order : order[i] = s
    BY DEF WakeInv
  <2> QED
    BY <2>1
<1>2. CASE pump'.active /\ (pump'.progress \/ pump'.left >= Len(order'))
  <2>2. pump'.left >= Len(order') => \A i \in DOMAIN order' : ~(i > pump'.left)
    <3>1. pump'.left \in Nat /\ Len(order') \in Nat /\ DOMAIN order' = 1 .. Len(order')
      BY DEF TypeOK, TableTypes, ControlTypes, Pumps
    <3> QED
      BY <3>1
  <2> QED
    BY <1>1, <1>2, <2>2 DEF WakeInv
<1>3. CASE ~pump'.active /\ order' = << >>
  <2>1. \A s \in Sessions : sessions'[s] = 0
    BY <1>1, <1>3
  <2>2. \A s \in Sessions : Served(s)'
    BY <2>1 DEF Served, Running, Current
  <2> QED
    BY <1>1, <1>3, <2>2 DEF WakeInv
<1> QED
  BY <1>2, <1>3

LEMMA StartPumpPumps ==
    ASSUME TypeOK, StartPump, UNCHANGED order
    PROVE  \/ pump'.active /\ (pump'.progress \/ pump'.left >= Len(order'))
           \/ ~pump'.active /\ order' = << >>
BY DEF StartPump, PumpIdle, PumpRound, TypeOK, TableTypes

\* The client's calls that pump.
LEMMA InputsWake ==
    ASSUME TypeOK, TypeOK', WakeInv, NEW s \in Sessions,
           \/ \E q \in SeqIds, A \in SUBSET IngressArtifacts : TryPushInputs(s, q, A)
           \/ \E f \in SeqIds : FinishInputs(s, f)
           \/ PollOutputs(s)
    PROVE  WakeInv'
<1>1. UNCHANGED <<sessions, order, status>> /\ StartPump
  BY DEF TryPushInputs, FinishInputs, PollOutputs, tableVars, lifeVars
<1>2. \A r \in Runtimes : status'[r] = "none" => slots'[r] = {}
  <2>1. CASE \E q \in SeqIds, A \in SUBSET IngressArtifacts : TryPushInputs(s, q, A)
    <3>1. PICK r : r \in Running /\ \A x \in Runtimes : x # r => slots'[x] = slots[x]
      BY <2>1 DEF TryPushInputs, TypeOK, FlowTypes
    <3>2. status[r] = "running"
      BY <3>1 DEF Running
    <3> QED
      BY <1>1, <3>1, <3>2 DEF WakeInv
  <2>2. CASE (\E f \in SeqIds : FinishInputs(s, f)) \/ PollOutputs(s)
    BY <1>1, <2>2 DEF FinishInputs, PollOutputs, WakeInv
  <2> QED
    BY <2>1, <2>2
<1>3. \A i \in DOMAIN order : \E j \in DOMAIN order' : order'[j] = order[i]
  BY <1>1
<1> QED
  BY <1>1, <1>2, <1>3, StartPumpPumps, PumpingWake

\* Every completion pumps, in its own right or within the pump it interrupts.
LEMMA CompleteWake ==
    ASSUME TypeOK, TypeOK', WakeInv, NEW st \in Stages, Complete(st)
    PROVE  WakeInv'
<1>1. PICK m : Resolve(st, m)
  BY DEF Complete, CompleteAnomalous, CompleteFailed, CompleteDropped, CompletePublished
<1>2. UNCHANGED <<sessions, order>>
  BY <1>1 DEF Resolve, tableVars
<1>3. \/ pump'.active /\ (pump'.progress \/ pump'.left >= Len(order'))
      \/ ~pump'.active /\ order' = << >>
  BY <1>1, <1>2, StartPumpPumps DEF Resolve
<1>4. \A r \in Runtimes : status'[r] = "none" => slots'[r] = {}
  <2>1. CASE CompleteAnomalous(st) \/ CompleteDropped(st)
    BY <2>1 DEF CompleteAnomalous, CompleteDropped, flowVars, lifeVars, WakeInv
  <2>2. CASE CompleteFailed(st)
    BY <2>2 DEF CompleteFailed, Fail, Discard, WakeInv
  <2>3. CASE CompletePublished(st)
    <3>1. PICK r : status[r] = "running" /\ status' = status
                   /\ \A x \in Runtimes : x # r => slots'[x] = slots[x]
      BY <2>3 DEF CompletePublished, Usable, lifeVars, TypeOK, FlowTypes
    <3> QED
      BY <3>1 DEF WakeInv
  <2> QED
    BY <2>1, <2>2, <2>3 DEF Complete
<1>5. \A i \in DOMAIN order : \E j \in DOMAIN order' : order'[j] = order[i]
  BY <1>2
<1> QED
  BY <1>2, <1>3, <1>4, <1>5, PumpingWake

\* A turn of a round in which something was admitted leads to another round.
LEMMA RoundGoesOn ==
    ASSUME TypeOK, NEW s \in Sessions, Turn(s), NEW made \in BOOLEAN, NEW last,
           EndTurn(made, last), pump.progress \/ made
    PROVE  pump'.active /\ (pump'.progress \/ pump'.left >= Len(order'))
<1>1. Len(order') = Len(order) /\ Len(order) \in Nat
  BY Rotation DEF Turn, TypeOK, TableTypes
<1>2. \/ pump' = [active |-> TRUE, left |-> pump.left - 1, progress |-> TRUE, last |-> last]
      \/ pump' = [active |-> TRUE, left |-> Len(order), progress |-> FALSE, last |-> last]
  BY DEF EndTurn, PumpRound
<1> QED
  BY <1>1, <1>2

LEMMA AdmitWake ==
    ASSUME TypeOK, TypeOK', WakeInv, NEW s \in Sessions, NEW st \in Stages, PumpAdmit(s, st)
    PROVE  WakeInv'
<1> DEFINE r == sessions[s]
<1>1. Turn(s) /\ r \in Running /\ UNCHANGED <<sessions, status>>
  BY DEF PumpAdmit, lifeVars
<1>2. PICK q : /\ slots' = [slots EXCEPT ![r] = @ \ {<<q, a, st>> : a \in Consumes[st]}]
               /\ EndTurn(TRUE, {<<r, st, q>>})
  BY DEF PumpAdmit
<1>3. pump'.active /\ (pump'.progress \/ pump'.left >= Len(order'))
  BY <1>1, <1>2, RoundGoesOn
<1>4. \A x \in Runtimes : status'[x] = "none" => slots'[x] = {}
  <2>1. status[r] = "running"
    BY <1>1 DEF Running
  <2>2. \A x \in Runtimes : x # r => slots'[x] = slots[x]
    BY <1>2 DEF TypeOK, FlowTypes
  <2> QED
    BY <1>1, <2>1, <2>2 DEF WakeInv
<1>5. \A i \in DOMAIN order : \E j \in DOMAIN order' : order'[j] = order[i]
  BY <1>1, RotationKeeps
<1> QED
  BY <1>1, <1>3, <1>4, <1>5, PumpingWake

\* A turn that admits nothing: the session is served, and so are those before it.
LEMMA TurnWake ==
    ASSUME TypeOK, TypeOK', WakeInv, NEW s \in Sessions, Turn(s), EndTurn(FALSE, {}), Served(s)',
           UNCHANGED sessions,
           \A r \in Runtimes : status'[r] = "none" => slots'[r] = {},
           \A x \in Sessions : Served(x) => Served(x)'
    PROVE  WakeInv'
<1> DEFINE n == Len(order)
<1>1. /\ n \in Nat \ {0} /\ Len(order') = n
      /\ DOMAIN order = 1 .. n /\ DOMAIN order' = 1 .. n
      /\ \A i \in 1 .. n - 1 : order'[i] = order[i + 1]
      /\ order'[n] = s
      /\ \A i \in 1 .. n : order[i] \in Sessions
  BY Rotation DEF Turn, TypeOK, TableTypes
<1>2. \A i \in DOMAIN order : \E j \in DOMAIN order' : order'[j] = order[i]
  BY RotationKeeps
<1>3. pump.active /\ pump.left \in Nat
  BY DEF Turn, TypeOK, ControlTypes, Pumps
<1>4. CASE pump.progress
  BY <1>2, <1>4, RoundGoesOn, PumpingWake
<1>5. CASE ~pump.progress
  <2>1. \A i \in 1 .. n : i > pump.left => Served(order[i])
    BY <1>1, <1>3, <1>5 DEF WakeInv
  <2>2. \A i \in 1 .. n, x \in Sessions : i > pump.left - 1 /\ order'[i] = x => Served(x)'
    <3> SUFFICES ASSUME NEW i \in 1 .. n, NEW x \in Sessions, i > pump.left - 1, order'[i] = x
                 PROVE  Served(x)'
      OBVIOUS
    <3>1. CASE i = n
      BY <1>1, <3>1
    <3>2. CASE i # n
      <4>1. i \in 1 .. n - 1 /\ i + 1 \in 1 .. n /\ i + 1 > pump.left
        <5>1. n \in Nat /\ pump.left \in Nat /\ i \in 1 .. n /\ i # n /\ i > pump.left - 1
          BY <1>1, <1>3, <3>2
        <5> HIDE DEF n
        <5> QED
          BY <5>1
      <4>2. order[i + 1] = x
        BY <1>1, <4>1
      <4>3. Served(x)
        BY <2>1, <4>1, <4>2
      <4> QED
        BY <4>3
    <3> QED
      BY <3>1, <3>2
  <2>3. \A x \in Sessions : sessions'[x] # 0 => \E i \in DOMAIN order' : order'[i] = x
    <3> SUFFICES ASSUME NEW x \in Sessions, sessions[x] # 0
                 PROVE  \E j \in DOMAIN order' : order'[j] = x
      OBVIOUS
    <3>1. PICK i \in DOMAIN order : order[i] = x
      BY DEF WakeInv
    <3> QED
      BY <1>2, <3>1
  <2>4. CASE pump.left > 1
    <3>1. pump' = [active |-> TRUE, left |-> pump.left - 1, progress |-> FALSE, last |-> {}]
      BY <1>5, <2>4 DEF EndTurn
    <3>2. \A i \in DOMAIN order' : i > pump.left - 1 => Served(order[i])'
      <4> SUFFICES ASSUME NEW i \in 1 .. n, i > pump.left - 1 PROVE Served(order[i])'
        BY <1>1
      <4>1. PICK x \in Sessions : order'[i] = x
        BY <1>1 DEF TypeOK, TableTypes
      <4>2. Served(x)'
        BY <2>2, <4>1
      <4> QED
        BY <4>1, <4>2 DEF Served
    <3> QED
      BY <2>3, <3>1, <3>2 DEF WakeInv
  <2>5. CASE ~(pump.left > 1)
    <3>1. ~pump'.active
      BY <1>5, <2>5 DEF EndTurn, PumpIdle
    <3>2. \A x \in Sessions : Served(x)'
      <4> SUFFICES ASSUME NEW x \in Sessions PROVE Served(x)'
        OBVIOUS
      <4>1. CASE sessions'[x] = 0
        BY <4>1 DEF Served, Running, Current
      <4>2. CASE sessions'[x] # 0
        <5>1. PICK i \in 1 .. n : order'[i] = x
          BY <1>1, <2>3, <4>2
        <5>2. i > pump.left - 1
          BY <1>3, <2>5
        <5> QED
          BY <2>2, <5>1, <5>2
      <4> QED
        BY <4>1, <4>2
    <3> QED
      BY <2>3, <3>1, <3>2 DEF WakeInv
  <2> QED
    BY <2>4, <2>5
<1> QED
  BY <1>4, <1>5

\* A mailbox without room holds something.
LEMMA FullMailbox ==
    ASSUME TypeOK, NEW st \in Stages, ~MailboxHasRoom(st)
    PROVE  queue[st] # << >>
<1>1. MailboxCapacity[st] \in Nat \ {0} /\ queue[st] \in Seq(Messages) /\ busy[st] \in BOOLEAN
  BY LimitAssumption DEF TypeOK, ActorTypes
<1> SUFFICES ASSUME queue[st] = << >> PROVE MailboxHasRoom(st)
  OBVIOUS
<1>2. Len(queue[st]) = 0
  OBVIOUS
<1>3. Waiting(st) \in {-1, 0}
  BY <1>2 DEF Waiting
<1> QED
  BY <1>1, <1>3 DEF MailboxHasRoom

\* A step that ends running sessions and drops what they hold is calm.
LEMMA DiscardCalm ==
    ASSUME TypeOK, NEW R \in SUBSET Runtimes, Discard(R),
           UNCHANGED <<sessions, inFlight, frontier, queue>>,
           \A r \in Runtimes :
             /\ status'[r] = "none" => status[r] = "none"
             /\ status'[r] = "running" => status[r] = "running" /\ r \notin R
    PROVE  Calm
<1>1. \A r \in Runtimes :
        /\ slots'[r] = (IF r \in R THEN {} ELSE slots[r])
        /\ pending'[r] = (IF r \in R THEN {} ELSE pending[r])
        /\ outputs'[r] = (IF r \in R THEN << >> ELSE outputs[r])
  BY DEF Discard
<1> QED
  BY <1>1 DEF Calm

LEMMA FailCalm ==
    ASSUME TypeOK, NEW R \in SUBSET Running, Fail(R),
           UNCHANGED <<sessions, inFlight, frontier, queue>>
    PROVE  Calm /\ \A r \in R : status'[r] = "failed"
<1>1. R \in SUBSET Runtimes
  BY RunningRuntimes DEF TypeOK
<1>2. \A r \in Runtimes : status'[r] = (IF r \in R THEN "failed" ELSE status[r])
  BY DEF Fail
<1>3. Calm
  BY <1>1, <1>2, DiscardCalm DEF Fail
<1> QED
  BY <1>1, <1>2, <1>3

\* The turns of the pump.
LEMMA PumpWake ==
    ASSUME TypeOK, TypeOK', WakeInv, NEW s \in Sessions,
           \/ PumpSkip(s)
           \/ \E st \in Stages : PumpAdmit(s, st) \/ PumpFailActor(s, st) \/ PumpSubmitError(s, st)
    PROVE  WakeInv'
<1>1. ASSUME Calm, Turn(s), EndTurn(FALSE, {}), Served(s)' PROVE WakeInv'
  <2>1. UNCHANGED sessions /\ \A r \in Runtimes : status'[r] = "none" => slots'[r] = {}
    BY <1>1 DEF Calm, WakeInv
  <2>2. \A x \in Sessions : Served(x) => Served(x)'
    BY <1>1, CalmServes
  <2> QED
    BY <1>1, <2>1, <2>2, TurnWake
<1>2. CASE PumpSkip(s)
  <2>1. Calm
    BY <1>2 DEF PumpSkip, Calm, flowVars, lifeVars, actorVars
  <2>2. Served(s)
    <3> SUFFICES ASSUME sessions[s] \in Running, NEW st \in Stages, Admissible(sessions[s], st)
                 PROVE  queue[st] # << >>
      BY DEF Served
    <3>1. st \notin Ready(sessions[s])
      BY <1>2 DEF PumpSkip
    <3> QED
      BY <3>1, FullMailbox DEF Ready
  <2> QED
    BY <1>1, <1>2, <2>1, <2>2, CalmServes DEF PumpSkip
<1>3. ASSUME NEW st \in Stages, PumpFailActor(s, st) \/ PumpSubmitError(s, st) PROVE WakeInv'
  <2>1. PICK R \in SUBSET Running : Fail(R) /\ sessions[s] \in R
    BY <1>3 DEF PumpFailActor, PumpSubmitError
  <2>2. UNCHANGED <<sessions, inFlight, frontier, queue>> /\ Turn(s) /\ EndTurn(FALSE, {})
    BY <1>3 DEF PumpFailActor, PumpSubmitError, actorVars
  <2>3. Calm /\ status'[sessions[s]] = "failed"
    BY <2>1, <2>2, FailCalm
  <2>4. Served(s)'
    BY <2>2, <2>3 DEF Served, Running
  <2> QED
    BY <1>1, <2>2, <2>3, <2>4
<1> QED
  BY <1>2, <1>3, AdmitWake

\* The calls that end sessions.
LEMMA EndingWake ==
    ASSUME TypeOK, WakeInv, NEW s \in Sessions,
           CancelSession(s) \/ CloseSession(s) \/ ShutdownBegin
    PROVE  WakeInv'
<1>1. UNCHANGED <<sessions, inFlight, frontier, queue, order, pump>>
  BY DEF CancelSession, CloseSession, ShutdownBegin, tableVars, actorVars
<1> DEFINE r == sessions[s]
<1>2. CASE CancelSession(s)
  <2> DEFINE R == IF status[r] = "running" THEN {r} ELSE {}
  <2>1. r \in Runtimes /\ Discard(R) /\ status' = [status EXCEPT ![r] = "cancelled"]
    BY <1>2, CurrentRuntime DEF CancelSession, TypeOK
  <2>2. \A x \in Runtimes : status'[x] = (IF x = r THEN "cancelled" ELSE status[x])
    BY <2>1 DEF TypeOK, LifeTypes
  <2>3. R \in SUBSET Runtimes /\ \A x \in Runtimes : status'[x] = "running" => x \notin R
    BY <2>1, <2>2
  <2> HIDE DEF r, R
  <2> QED
    BY <1>1, <2>1, <2>2, <2>3, DiscardCalm, CalmWake
<1>3. CASE CloseSession(s)
  <2>1. r \in Runtimes /\ Discard({r})
        /\ status' = [status EXCEPT ![r] = IF @ = "running" THEN "closed" ELSE @]
    BY <1>3, CurrentRuntime DEF CloseSession, TypeOK
  <2>2. \A x \in Runtimes : /\ x # r => status'[x] = status[x]
                            /\ status'[r] = (IF status[r] = "running" THEN "closed" ELSE status[r])
    BY <2>1 DEF TypeOK, LifeTypes
  <2> HIDE DEF r
  <2> QED
    BY <1>1, <2>1, <2>2, DiscardCalm, CalmWake
<1>4. CASE ShutdownBegin
  <2>1. Current \in SUBSET Runtimes
    BY CurrentRuntime DEF Current, TypeOK
  <2>2. /\ Discard(Current)
        /\ \A x \in Runtimes : status'[x] = (IF x \in Running THEN "closed" ELSE status[x])
    BY <1>4 DEF ShutdownBegin
  <2>3. \A x \in Runtimes : status'[x] = "running" => x \notin Current
    BY <2>2 DEF Running
  <2> QED
    BY <1>1, <2>1, <2>2, <2>3, DiscardCalm, CalmWake
<1> QED
  BY <1>2, <1>3, <1>4

\* The steps of actors, cleanups and close() that end no session and resolve
\* no invocation.
LEMMA QuietWake ==
    ASSUME TypeOK, LifecycleInv, WakeInv,
           \/ \E st \in Stages : \/ Start(st) \/ WorkerFail(st) \/ AbandonActor(st)
                                 \/ CloseActor(st) \/ JoinActor(st)
           \/ \E r \in Runtimes :
                \/ \E by \in Callers : AcquireCleanup(r, by) \/ LockTimeout(r, by)
                \/ Drained(r) \/ DrainTimeout(r) \/ TakeFailed(r) \/ ShutdownSession(r)
                \/ \E st \in Stages : SendClose(r, st) \/ CloseRefused(r, st)
                \/ StageTimeout(r) \/ EndPass(r)
           \/ ShutdownStopThread \/ ShutdownJoin
           \/ UNCHANGED vars
    PROVE  WakeInv'
<1> DEFINE Rest == UNCHANGED <<sessions, inFlight, frontier, status, order, pump>>
           Held0 == UNCHANGED <<slots, pending, outputs>>
<1>0. ASSUME Rest, Held0, \A st \in Stages : queue[st] # << >> => queue'[st] # << >>
      PROVE  WakeInv'
  <2>1. Calm
    BY <1>0 DEF Calm
  <2> QED
    BY <1>0, <2>1, CalmWake
<1>1. ASSUME NEW st \in Stages, \/ Start(st) \/ WorkerFail(st) \/ AbandonActor(st)
                                \/ CloseActor(st) \/ JoinActor(st)
      PROVE  WakeInv'
  <2>1. Rest /\ Held0 /\ queue' = queue
    BY <1>1 DEF Start, WorkerFail, AbandonActor, CloseActor, JoinActor,
                flowVars, lifeVars, tableVars, actorVars
  <2> QED
    BY <1>0, <2>1
<1>2. ASSUME NEW r \in Runtimes,
             \/ \E by \in Callers : AcquireCleanup(r, by) \/ LockTimeout(r, by)
             \/ Drained(r) \/ DrainTimeout(r) \/ TakeFailed(r) \/ ShutdownSession(r)
             \/ \E st \in Stages : CloseRefused(r, st)
      PROVE  WakeInv'
  <2>1. Rest /\ Held0 /\ queue' = queue
    BY <1>2 DEF AcquireCleanup, LockTimeout, Drained, DrainTimeout, TakeFailed, ShutdownSession,
                CloseRefused, flowVars, lifeVars, tableVars, actorVars
  <2> QED
    BY <1>0, <2>1
<1>3. ASSUME NEW r \in Runtimes, NEW st \in Stages, SendClose(r, st) PROVE WakeInv'
  <2>1. Rest /\ Held0 /\ queue' = [queue EXCEPT ![st] = Append(@, CloseMsg(r))]
    BY <1>3 DEF SendClose, flowVars, lifeVars, tableVars
  <2>2. \A t \in Stages : queue[t] \in Seq(Messages)
    BY DEF TypeOK, ActorTypes
  <2>3. Append(queue[st], CloseMsg(r)) # << >>
    BY <2>2
  <2>4. \A t \in Stages : queue'[t] = IF t = st THEN Append(queue[st], CloseMsg(r)) ELSE queue[t]
    BY <2>1 DEF TypeOK, ActorTypes
  <2> QED
    BY <1>0, <2>1, <2>3, <2>4
<1>4. ASSUME NEW r \in Runtimes, StageTimeout(r) PROVE WakeInv'
  <2>1. Rest /\ Held0
    BY <1>4 DEF StageTimeout, flowVars, lifeVars, tableVars
  <2>2. \A t \in Stages : DOMAIN queue'[t] = DOMAIN queue[t]
    BY <1>4 DEF StageTimeout
  <2>3. \A t \in Stages : queue[t] # << >> => DOMAIN queue[t] # {}
    <3> SUFFICES ASSUME NEW t \in Stages, queue[t] # << >> PROVE DOMAIN queue[t] # {}
      OBVIOUS
    <3>1. queue[t] \in Seq(Messages)
      BY DEF TypeOK, ActorTypes
    <3>2. 1 \in DOMAIN queue[t]
      BY <3>1
    <3> QED
      BY <3>2
  <2>4. DOMAIN << >> = {}
    OBVIOUS
  <2>5. \A t \in Stages : queue[t] # << >> => queue'[t] # << >>
    BY <2>2, <2>3, <2>4
  <2> QED
    BY <1>0, <2>1, <2>5
<1>5. ASSUME NEW r \in Runtimes, EndPass(r) PROVE WakeInv'
  <2>1. Rest /\ queue' = queue
    BY <1>5 DEF EndPass, lifeVars, tableVars, actorVars
  <2>2. CASE slots[r] = {}
    BY <1>0, <1>5, <2>1, <2>2 DEF EndPass
  <2>3. CASE slots[r] # {}
    <3>1. Discard({r})
      BY <1>5, <2>3 DEF EndPass
    <3>2. status[r] # "running"
      BY <1>5, CleanupFacts DEF EndPass, Releasing, Ended
    <3> QED
      BY <2>1, <3>1, <3>2, DiscardCalm, CalmWake
  <2> QED
    BY <2>2, <2>3
<1>6. CASE ShutdownStopThread \/ ShutdownJoin \/ UNCHANGED vars
  <2>1. Rest /\ Held0 /\ queue' = queue
    BY <1>6 DEF ShutdownStopThread, ShutdownJoin, vars, flowVars, lifeVars, tableVars, actorVars
  <2> QED
    BY <1>0, <2>1
<1> QED
  BY <1>1, <1>2, <1>3, <1>4, <1>5, <1>6

\* Where nothing was put nothing can be admitted: a stage has an input.
LEMMA NothingRunnable ==
    ASSUME NEW r \in Runtimes, NEW st \in Stages, slots[r] = {}
    PROVE  ~Admissible(r, st)
BY InputAssumption DEF Admissible, Runnable

\* A new session has no artifacts yet, and the one it replaces nothing in flight.
LEMMA CreateWake ==
    ASSUME TypeOK, TypeOK', LifecycleInv, WakeInv, NEW s \in Sessions, NEW f, CreateSession(s, f)
    PROVE  WakeInv'
<1> DEFINE old == sessions[s]
           rest == Without(order, s)
<1>0. PICK r \in Runtimes : r = epoch + 1
  BY DEF CreateSession
<1>1. /\ ~pump.active /\ (old # 0 => inFlight[old] = {})
      /\ sessions' = [sessions EXCEPT ![s] = r] /\ order' = Append(rest, s)
      /\ status' = [status EXCEPT ![r] = "running"]
      /\ UNCHANGED <<frontier, slots, inFlight, pending, outputs, pump, queue>>
  BY <1>0 DEF CreateSession, LockFree, actorVars
<1>2. status[r] = "none" /\ inFlight[r] = {} /\ slots[r] = {}
  <2>1. ~(r <= epoch)
    BY <1>0 DEF TypeOK, TableTypes
  <2> QED
    BY <1>1, <2>1 DEF LifecycleInv, TablesInv, WakeInv
<1>3. /\ sessions'[s] = r
      /\ \A x \in Sessions : x # s => sessions'[x] = sessions[x] /\ sessions[x] # r
      /\ \A x \in Runtimes : x # r => status'[x] = status[x]
  <2>1. r # 0
    BY BoundsAssumption DEF Runtimes
  <2>2. \A x \in Sessions : sessions[x] # r
    BY <1>2, <2>1 DEF LifecycleInv, TablesInv
  <2> QED
    BY <1>1, <2>2 DEF TypeOK, TableTypes, LifeTypes
<1>4. \A x \in Sessions : sessions'[x] # 0 => \E i \in DOMAIN order' : order'[i] = x
  <2> SUFFICES ASSUME NEW x \in Sessions, sessions'[x] # 0
               PROVE  \E i \in DOMAIN order' : order'[i] = x
    OBVIOUS
  <2>1. rest \in Seq(Sessions) /\ order \in Seq(Sessions)
    BY WithoutType DEF TypeOK, TableTypes
  <2>2. /\ \A i \in DOMAIN rest : i \in DOMAIN order' /\ order'[i] = rest[i]
        /\ Len(rest) + 1 \in DOMAIN order' /\ order'[Len(rest) + 1] = s
    BY <1>1, <2>1, AppendFacts
  <2>3. CASE x = s
    BY <2>2, <2>3
  <2>4. CASE x # s
    <3>1. PICK i \in DOMAIN order : order[i] = x
      BY <1>3, <2>4 DEF WakeInv
    <3>2. PICK j \in DOMAIN rest : rest[j] = x
      BY <2>1, <2>4, <3>1, WithoutKeeps
    <3> QED
      BY <2>2, <3>2
  <2> QED
    BY <2>3, <2>4
<1>5. Flying' = Flying
  <2>1. \A x \in Current \ Current' : inFlight[x] = {}
    BY <1>1, <1>3 DEF Current
  <2>2. \A x \in Current' \ Current : inFlight[x] = {}
    BY <1>2, <1>3 DEF Current
  <2> QED
    BY <1>1, <2>1, <2>2, FlyingKept
<1>6. \A x \in Sessions : Served(x)'
  <2> SUFFICES ASSUME NEW x \in Sessions, sessions'[x] \in Running', NEW st \in Stages,
                      Admissible(sessions[x], st)'
               PROVE  queue'[st] # << >>
    BY DEF Served
  <2>1. CASE x = s
    <3>1. slots'[r] = {}
      BY <1>1, <1>2
    <3>2. ~Admissible(r, st)'
      BY <1>1, <3>1, InputAssumption DEF Admissible, Runnable
    <3> QED
      BY <1>3, <2>1, <3>2
  <2>2. CASE x # s
    <3>0. sessions'[x] = sessions[x] /\ sessions[x] # 0 /\ sessions[x] # r
      BY <1>3, <2>2 DEF Running, Current
    <3>1. PICK y \in Runtimes : y = sessions[x]
      BY <3>0, CurrentRuntime DEF TypeOK
    <3>2. sessions'[x] = y /\ status'[y] = "running" /\ y # r /\ y # 0
      BY <3>0, <3>1 DEF Running
    <3>3. y \in Running
      BY <1>3, <3>1, <3>2 DEF Running, Current
    <3>4. Admissible(y, st)'
      BY <3>2
    <3>5. Admissible(y, st)
      BY <1>1, <1>5, <3>4, AdmissibleKept DEF SameTables
    <3> QED
      BY <1>1, <3>1, <3>3, <3>5 DEF WakeInv, Served
  <2> QED
    BY <2>1, <2>2
<1>7. \A x \in Runtimes : status'[x] = "none" => slots'[x] = {}
  BY <1>1, <1>2, <1>3 DEF WakeInv
<1> QED
  BY <1>1, <1>4, <1>6, <1>7 DEF WakeInv

\* Forgetting a closed session frees no capacity: it has nothing in flight.
LEMMA DeleteWake ==
    ASSUME TypeOK, TypeOK', LifecycleInv, WakeInv, NEW r \in Runtimes, DeleteSession(r)
    PROVE  WakeInv'
<1> DEFINE s == owner[r]
<1>1. /\ ~pump.active /\ r \in deleting
      /\ UNCHANGED <<frontier, slots, inFlight, pending, outputs, status, pump, queue>>
  BY DEF DeleteSession, LockFree, actorVars, flowVars, lifeVars
<1>2. CASE sessions[s] # r
  <2>1. UNCHANGED <<sessions, order>>
    BY <1>2 DEF DeleteSession
  <2>2. Calm
    BY <1>1, <2>1 DEF Calm
  <2> QED
    BY <1>1, <2>1, <2>2, CalmWake
<1>3. CASE sessions[s] = r
  <2>1. inFlight[r] = {} /\ status[r] # "none"
    BY <1>1, CleanupFacts DEF Releasing, Ended
  <2>2. s \in Sessions
    BY <2>1 DEF LifecycleInv, TablesInv
  <2>3. sessions' = [sessions EXCEPT ![s] = 0] /\ order' = Without(order, s)
    BY <1>3 DEF DeleteSession
  <2>4. sessions'[s] = 0 /\ \A x \in Sessions : x # s => sessions'[x] = sessions[x]
    BY <2>2, <2>3 DEF TypeOK, TableTypes
  <2>5. Flying' = Flying
    <3>1. \A x \in Current \ Current' : inFlight[x] = {}
      BY <1>3, <2>1, <2>4 DEF Current
    <3>2. \A x \in Current' \ Current : inFlight[x] = {}
      BY <2>4 DEF Current
    <3> QED
      BY <1>1, <3>1, <3>2, FlyingKept
  <2>6. \A x \in Sessions : sessions'[x] # 0 => \E i \in DOMAIN order' : order'[i] = x
    <3> SUFFICES ASSUME NEW x \in Sessions, sessions'[x] # 0
                 PROVE  \E i \in DOMAIN order' : order'[i] = x
      OBVIOUS
    <3>1. PICK i \in DOMAIN order : order[i] = x /\ x # s
      BY <2>4 DEF WakeInv
    <3>2. order \in Seq(Sessions)
      BY DEF TypeOK, TableTypes
    <3> QED
      BY <2>3, <3>1, <3>2, WithoutKeeps
  <2>7. \A x \in Sessions : Served(x)'
    <3> SUFFICES ASSUME NEW x \in Sessions, sessions'[x] \in Running', NEW st \in Stages,
                        Admissible(sessions[x], st)'
                 PROVE  queue'[st] # << >>
      BY DEF Served
    <3>0. sessions'[x] = sessions[x] /\ sessions[x] # 0
      BY <2>4 DEF Running, Current
    <3>1. PICK y \in Runtimes : y = sessions[x]
      BY <3>0, CurrentRuntime DEF TypeOK
    <3>2. y \in Running /\ sessions'[x] = y
      BY <1>1, <3>0, <3>1 DEF Running, Current
    <3>3. Admissible(y, st)'
      BY <3>2
    <3>4. Admissible(y, st)
      BY <1>1, <2>5, <3>3, AdmissibleKept DEF SameTables
    <3> QED
      BY <1>1, <3>1, <3>2, <3>4 DEF WakeInv, Served
  <2> QED
    BY <1>1, <2>6, <2>7 DEF WakeInv
<1> QED
  BY <1>2, <1>3

\* close() forgets all sessions.
LEMMA DoneWake ==
    ASSUME TypeOK, WakeInv, ShutdownDone
    PROVE  WakeInv'
<1>1. UNCHANGED <<slots, status, pump>> /\ ~pump.active /\ \A s \in Sessions : sessions'[s] = 0
  BY DEF ShutdownDone, LockFree, flowVars, lifeVars
<1>2. \A s \in Sessions : Served(s)'
  BY <1>1 DEF Served, Running, Current
<1> QED
  BY <1>1, <1>2 DEF WakeInv

LEMMA InitWake == Init => WakeInv
<1> SUFFICES ASSUME Init PROVE WakeInv
  OBVIOUS
<1>1. \A s \in Sessions : sessions[s] = 0
  BY DEF Init
<1>2. \A s \in Sessions : Served(s)
  BY <1>1 DEF Served, Running, Current
<1> QED
  BY <1>1, <1>2 DEF WakeInv, Init, PumpIdle

\* Every step preserves the invariant as long as the mailboxes hold invocations.
LEMMA StepWake ==
    ASSUME TypeOK, TypeOK', LifecycleInv, OnlyInvocations, WakeInv, [Next]_vars
    PROVE  WakeInv'
<1>1. CASE Client
  BY <1>1, CreateWake, InputsWake, EndingWake DEF Client
<1>2. CASE PumpTurn
  BY <1>2, PumpWake DEF PumpTurn
<1>3. ASSUME NEW st \in Stages, Actor(st) PROVE WakeInv'
  <2>1. ~(\E ok \in BOOLEAN : CloserDone(st, ok))
    <3> SUFFICES ASSUME queue[st] # << >>, Head(queue[st]).kind # "run" PROVE FALSE
      BY DEF CloserDone
    <3>1. queue[st] \in Seq(Messages)
      BY DEF TypeOK, ActorTypes
    <3>2. 1 \in DOMAIN queue[st] /\ Head(queue[st]) = queue[st][1]
      BY <3>1
    <3> QED
      BY <3>2 DEF OnlyInvocations
  <2> QED
    BY <1>3, <2>1, QuietWake, CompleteWake DEF Actor
<1>4. ASSUME NEW st \in Stages, WorkerFail(st) \/ AbandonActor(st) PROVE WakeInv'
  BY <1>4, QuietWake
<1>5. ASSUME NEW r \in Runtimes, Cleanup(r) \/ Timeout(r) PROVE WakeInv'
  BY <1>5, QuietWake, DeleteWake DEF Cleanup, Timeout
<1>6. CASE ShutdownBegin
  <2>1. CASE Sessions = {}
    <3>1. \A r \in Runtimes : status'[r] = status[r] /\ slots'[r] = slots[r]
          /\ pending'[r] = pending[r] /\ outputs'[r] = outputs[r]
      BY <1>6, <2>1 DEF ShutdownBegin, Running, Current, Discard
    <3>2. Calm /\ UNCHANGED <<order, pump>>
      BY <1>6, <3>1 DEF ShutdownBegin, Calm, tableVars, actorVars
    <3> QED
      BY <3>2, CalmWake
  <2> QED
    BY <1>6, <2>1, EndingWake
<1>7. CASE Shutdown
  BY <1>7, QuietWake, DoneWake DEF Shutdown
<1>8. CASE UNCHANGED vars
  BY <1>8, QuietWake
<1> QED
  BY <1>1, <1>2, <1>3, <1>4, <1>5, <1>6, <1>7, <1>8 DEF Next

\* For every graph, limits, number of sessions and faults: as long as no cleanup
\* has sent a close message, no wakeup is lost.  When nothing is in flight and no
\* lock is held, no stage of a running session has a task it could be given.
THEOREM NothingIsStranded == Spec /\ []OnlyInvocations => []NothingStranded
<1>1. Init => WakeInv
  BY InitWake
<1>2. TypeOK /\ TypeOK' /\ LifecycleInv /\ OnlyInvocations /\ WakeInv /\ [Next]_vars => WakeInv'
  BY StepWake
<1>3. TypeOK /\ WakeInv => NothingStranded
  <2> SUFFICES ASSUME TypeOK, WakeInv, Quiescent, NEW r \in Running, NEW st \in Stages,
                      Admissible(r, st)
               PROVE  FALSE
    BY DEF NothingStranded
  <2>1. PICK s \in Sessions : sessions[s] = r
    BY DEF Running, Current
  <2> QED
    BY <2>1 DEF WakeInv, Served, Quiescent, LockFree
<1>4. Spec => []TypeOK
  BY TypeCorrect
<1>5. Spec => []LifecycleInv
  BY Lifecycle
<1> QED
  BY <1>1, <1>2, <1>3, <1>4, <1>5, PTL DEF Spec

\* What a session that nobody ends and no failure touches looks like.
Untroubled ==
    /\ \A r \in Runtimes : ~Ended(r)
    /\ \A st \in Stages : health[st] = "running"
    /\ shutdown.phase = "open"

LEMMA StepUntroubled ==
    ASSUME TypeOK, LifecycleInv, Untroubled, [Next]_vars,
           ClientOps \cap {"cancel", "close", "shutdown"} = {},
           Faults \cap {"execution", "worker", "submit"} = {}
    PROVE  Untroubled'
<1>1. ASSUME UNCHANGED <<status, health, shutdown>> PROVE Untroubled'
  BY <1>1 DEF Untroubled, Ended
<1>2. CASE Client
  <2>1. PICK s \in Sessions :
          \/ \E f \in Finals : CreateSession(s, f)
          \/ \E q \in SeqIds, A \in SUBSET IngressArtifacts : TryPushInputs(s, q, A)
          \/ \E f \in SeqIds : FinishInputs(s, f)
          \/ PollOutputs(s)
    BY <1>2 DEF Client, CancelSession, CloseSession
  <2>2. CASE \E f \in Finals : CreateSession(s, f)
    <3>1. UNCHANGED <<health, shutdown>>
          /\ \E r \in Runtimes : status' = [status EXCEPT ![r] = "running"]
      BY <2>2 DEF CreateSession, actorVars
    <3> QED
      BY <3>1 DEF Untroubled, Ended, TypeOK, LifeTypes
  <2>3. CASE ~(\E f \in Finals : CreateSession(s, f))
    BY <1>1, <2>1, <2>3 DEF TryPushInputs, FinishInputs, PollOutputs, lifeVars, actorVars
  <2> QED
    BY <2>2, <2>3
<1>3. CASE PumpTurn
  <2>1. PICK s \in Sessions : PumpSkip(s) \/ \E st \in Stages : PumpAdmit(s, st)
    BY <1>3 DEF PumpTurn, PumpFailActor, PumpSubmitError, Untroubled
  <2> QED
    BY <1>1, <2>1 DEF PumpSkip, PumpAdmit, lifeVars, actorVars
<1>4. ASSUME NEW st \in Stages, Actor(st) PROVE Untroubled'
  <2>1. ~CompleteFailed(st)
    BY DEF CompleteFailed, Untroubled
  <2> QED
    BY <1>1, <1>4, <2>1 DEF Actor, Start, Complete, CompleteAnomalous, CompleteDropped,
         CompletePublished, CloserDone, Resolve, lifeVars, actorVars
<1>5. ASSUME NEW st \in Stages, WorkerFail(st) \/ AbandonActor(st) PROVE Untroubled'
  BY <1>5 DEF WorkerFail, AbandonActor, Untroubled
<1>6. ASSUME NEW r \in Runtimes, Cleanup(r) \/ Timeout(r) PROVE Untroubled'
  <2>1. UNCHANGED <<status, health>>
    BY <1>6 DEF Cleanup, AcquireCleanup, Drained, SendClose, CloseRefused, EndPass, DeleteSession,
         TakeFailed, Timeout, LockTimeout, DrainTimeout, StageTimeout, lifeVars, actorVars
  <2>2. UNCHANGED shutdown
    BY <1>6 DEF Cleanup, AcquireCleanup, Drained, SendClose, CloseRefused, EndPass, DeleteSession,
         TakeFailed, Timeout, LockTimeout, DrainTimeout, StageTimeout, Untroubled
  <2> QED
    BY <1>1, <2>1, <2>2
<1>7. ~(ShutdownBegin \/ Shutdown)
  BY DEF ShutdownBegin, Shutdown, ShutdownSession, ShutdownStopThread, ShutdownJoin, CloseActor,
         JoinActor, ShutdownDone, Untroubled
<1>8. CASE UNCHANGED vars
  BY <1>1, <1>8 DEF vars, lifeVars, actorVars
<1> QED
  BY <1>2, <1>3, <1>4, <1>5, <1>6, <1>7, <1>8 DEF Next

\* So where no client ends a session and nothing fails, no wakeup is ever lost:
\* the pump is left only when nothing can be admitted or a completion will come.
THEOREM NothingIsLost ==
    ASSUME ClientOps \cap {"cancel", "close", "shutdown"} = {},
           Faults \cap {"execution", "worker", "submit"} = {}
    PROVE  Spec => []NothingStranded
<1>1. Init => Untroubled
  BY DEF Init, Untroubled, Ended
<1>2. TypeOK /\ LifecycleInv /\ Untroubled /\ [Next]_vars => Untroubled'
  BY StepUntroubled
<1>3. TypeOK /\ LifecycleInv /\ Untroubled => OnlyInvocations
  <2> SUFFICES ASSUME TypeOK, LifecycleInv, Untroubled, NEW st \in Stages,
                      NEW i \in DOMAIN queue[st], queue[st][i].kind # "run"
               PROVE  FALSE
    BY DEF OnlyInvocations
  <2>1. PICK r \in Runtimes : r = queue[st][i].runtime
    BY MailboxMessages DEF Messages
  <2>2. Releasing(r)
    BY <2>1 DEF Releasing, CloseHeld
  <2> QED
    BY <2>2, CleanupFacts DEF Untroubled
<1>4. Spec => []TypeOK
  BY TypeCorrect
<1>5. Spec => []LifecycleInv
  BY Lifecycle
<1>6. Spec /\ []OnlyInvocations => []NothingStranded
  BY NothingIsStranded
<1> QED
  BY <1>1, <1>2, <1>3, <1>4, <1>5, <1>6, PTL DEF Spec
================================================================================
