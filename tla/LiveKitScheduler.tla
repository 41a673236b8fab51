-------------------------- MODULE LiveKitScheduler --------------------------
(***************************************************************************)
(* Admission of sessions to model workers: LiveKitScheduler                *)
(* (telefuser/service/livekit/scheduler.py).  Every method runs under the  *)
(* scheduler's lock, so each is one operator from its state to the next.   *)
(*                                                                         *)
(* The state is a record: the sessions that hold a slot of each worker,    *)
(* the workers that are `up' (neither stopped, failed nor draining) and    *)
(* the FIFO queue of waiting sessions.  Workers and sessions are numbered  *)
(* in the order of their names and of their creation.                      *)
(***************************************************************************)
EXTENDS Integers, Sequences, FiniteSets, SequencesExt

CONSTANTS NumWorkers,    \* configured model workers
          Capacity,      \* retained sessions per worker
          QueueSize,     \* queue_size
          NumSessions    \* bound: sessions admitted over the run

ASSUME AdmissionAssumption ==
  /\ NumWorkers \in Nat \ {0} /\ Capacity \in Nat \ {0}
  /\ QueueSize \in Nat /\ NumSessions \in Nat \ {0}

Workers == 1 .. NumWorkers
Sessions == 1 .. NumSessions
NoWorker == 0
NoSession == 0

SchedStates ==
  [slots : [Workers -> SUBSET Sessions], up : SUBSET Workers, queue : Seq(Sessions)]

NewScheduler == [slots |-> [w \in Workers |-> {}], up |-> Workers, queue |-> << >>]

Load(sched, w) == Cardinality(sched.slots[w])
HasRoom(sched, w) == w \in sched.up /\ Load(sched, w) < Capacity

\* Mutant: a full worker is still a candidate.
M_CandidatesOffByOne(sched) == {w \in sched.up : Load(sched, w) <= Capacity}

Candidates(sched) == {w \in Workers : HasRoom(sched, w)}

\* _least_loaded_worker: the smallest load, then the first name.
LeastLoaded(sched) ==
  CHOOSE w \in Candidates(sched) :
    \A v \in Candidates(sched) :
      Load(sched, w) < Load(sched, v) \/ (Load(sched, w) = Load(sched, v) /\ w <= v)

Owner(sched, s) ==
  IF \E w \in Workers : s \in sched.slots[w]
    THEN CHOOSE w \in Workers : s \in sched.slots[w]
    ELSE NoWorker

Give(sched, w, s) == [sched EXCEPT !.slots[w] = @ \cup {s}]
GiveFirst(sched, w) == [Give(sched, w, Head(sched.queue)) EXCEPT !.queue = Tail(@)]

(* assign: a slot, a place in the queue, or a rejection (not CanAssign).   *)
CanAssign(sched) == Candidates(sched) # {} \/ Len(sched.queue) < QueueSize
Assign(sched, s) ==
  IF Candidates(sched) # {} THEN Give(sched, LeastLoaded(sched), s)
                            ELSE [sched EXCEPT !.queue = Append(@, s)]

\* Mutant: a session that ends in the queue stays there.
M_DequeuedStays(sched, s) == sched

Dequeued(sched, s) == [sched EXCEPT !.queue = RemoveFirst(@, s)]

(* release_session: the slot goes to the head of the queue, whatever other *)
(* worker has room, unless the worker is stopped.                          *)
Release(sched, s) ==
  LET w == Owner(sched, s)
      freed == [sched EXCEPT !.slots[w] = @ \ {s}]
  IN  IF w = NoWorker THEN Dequeued(sched, s)
      ELSE IF sched.queue = << >> \/ w \notin sched.up THEN freed
      ELSE GiveFirst(freed, w)

(* drain_queue: while there are both, the head of the queue is given to   *)
(* the least loaded worker.  `given' are the workers of the first n.       *)
GiveEach(sched, given, n) ==
  [sched EXCEPT
     !.slots = [w \in Workers |-> sched.slots[w] \cup
                                     {sched.queue[i] : i \in {j \in 1 .. n : given[j] = w}}],
     !.queue = SubSeq(@, n + 1, Len(@))]

Drains(sched, given, n) ==
  /\ \A i \in 1 .. n : LET before == GiveEach(sched, given, i - 1)
                      IN  Candidates(before) # {} /\ given[i] = LeastLoaded(before)
  /\ n = Len(sched.queue) \/ Candidates(GiveEach(sched, given, n)) = {}

(* reassign_session raises unless CanReassign.                             *)
CanReassign(sched, s, target) ==
  /\ Owner(sched, s) # NoWorker
  /\ Owner(sched, s) = target \/ HasRoom(sched, target)

Reassign(sched, s, target) ==
  Give([sched EXCEPT !.slots[Owner(sched, s)] = @ \ {s}], target, s)
=============================================================================
