---------------------------- MODULE ReplicaPool ----------------------------
(***************************************************************************)
(* The replicas of a PipelinePool and its ordinary users                   *)
(* (telefuser/service/core/pipeline_pool.py): the queue of available       *)
(* replicas, acquire(), eviction of dead replicas, and the ways a caller   *)
(* gives a replica back.  Sessions are added by PoolSessions, the tasks    *)
(* that are the callers by BatchService.                                   *)
(*                                                                         *)
(* The pool lives on one event loop: an action is the code between two     *)
(* awaits of one caller, or the death of a replica process.  A handle's    *)
(* _dead flag is only set on the way to its eviction, which ends the       *)
(* process, so `alive' stands for the whole of _handle_is_dead.            *)
(***************************************************************************)
EXTENDS Integers, Sequences, FiniteSets

CONSTANTS NumReplicas,   \* replicas started
          Callers        \* concurrent users of acquire()

ASSUME PoolAssumption == NumReplicas \in Nat \ {0}

Replicas == 1 .. NumReplicas
ReplicaStatus == {"idle", "busy", "session_reserved", "session_busy", "dead"}
NoReplica == 0

VARIABLES
  alive,        \* replica processes that run
  status,       \* _instance_status
  available,    \* the queue of replica indices
  liveCount,    \* _live_count
  phase,        \* where each caller of acquire() stands
  holds,        \* the replica each caller uses
  closed        \* aclose() cleared the handles

replicaVars == <<alive, status, liveCount>>
callerVars == <<phase, holds>>
poolVars == <<replicaVars, available, callerVars, closed>>

PoolInit ==
  /\ alive = Replicas
  /\ status = [r \in Replicas |-> "idle"]
  /\ available = [i \in Replicas |-> i]
  /\ liveCount = NumReplicas
  /\ phase = [c \in Callers |-> "out"]
  /\ holds = [c \in Callers |-> NoReplica]
  /\ closed = FALSE

\* A replica process dies by itself.
Dies(r) ==
  /\ r \in alive
  /\ alive' = alive \ {r}
  /\ UNCHANGED <<status, liveCount, available, callerVars, closed>>

\* Mutant: the eviction does not shrink the capacity.
M_EvictUncounted(r) ==
  /\ status' = [status EXCEPT ![r] = "dead"]
  /\ alive' = alive \ {r}
  /\ UNCHANGED liveCount

(* _evict_replica: mark, count once, stop the process.                     *)
Evict(r) ==
  IF status[r] = "dead"
    THEN UNCHANGED replicaVars
    ELSE /\ status' = [status EXCEPT ![r] = "dead"]
         /\ liveCount' = liveCount - 1
         /\ alive' = alive \ {r}

Enter(c, p, r) ==
  /\ phase' = [phase EXCEPT ![c] = p]
  /\ holds' = [holds EXCEPT ![c] = r]

-----------------------------------------------------------------------------
(* acquire(): the capacity check, then the wait on the queue.              *)
AcquireBegins(c) ==
  /\ phase[c] = "out" /\ liveCount > 0
  /\ Enter(c, "waiting", NoReplica)
  /\ UNCHANGED <<replicaVars, available, closed>>

\* The check fails: at the start, or each time the wait of 5 s elapses.
AcquireFails(c) ==
  /\ phase[c] = "waiting" /\ liveCount = 0
  /\ Enter(c, "out", NoReplica)
  /\ UNCHANGED <<replicaVars, available, closed>>

\* The queue hands out an index.  A dead replica is evicted and the loop
\* goes on; after aclose() the index finds no handle and the caller gets an
\* IndexError.
AcquireTakes(c) ==
  LET r == Head(available)
  IN  /\ phase[c] = "waiting" /\ available # << >>
      /\ available' = Tail(available)
      /\ \/ /\ ~closed /\ r \in alive
            /\ status' = [status EXCEPT ![r] = "busy"]
            /\ Enter(c, "holding", r)
            /\ UNCHANGED <<alive, liveCount>>
         \/ /\ ~closed /\ r \notin alive
            /\ Evict(r)
            /\ UNCHANGED callerVars
         \/ /\ closed
            /\ Enter(c, "out", NoReplica)
            /\ UNCHANGED replicaVars
      /\ UNCHANGED closed

\* Mutant: every way out of acquire() puts the index back (`finally').
M_CallDiesReturns(c) ==
  /\ phase[c] = "holding"
  /\ Enter(c, "out", NoReplica)
  /\ Evict(holds[c])
  /\ available' = Append(available, holds[c])
  /\ UNCHANGED closed

(* The three ways out of acquire().  The statuses are gone once the pool   *)
(* is closed: the caller then gets an IndexError and nothing changes.      *)
CallReturns(c) ==
  /\ phase[c] = "holding"
  /\ Enter(c, "out", NoReplica)
  /\ IF closed THEN UNCHANGED <<status, available>>
               ELSE /\ status' = [status EXCEPT ![holds[c]] = "idle"]
                    /\ available' = Append(available, holds[c])
  /\ UNCHANGED <<alive, liveCount, closed>>

CallDies(c) ==
  /\ phase[c] = "holding"
  /\ Enter(c, "out", NoReplica)
  /\ IF closed THEN UNCHANGED replicaVars ELSE Evict(holds[c])
  /\ UNCHANGED <<available, closed>>

\* Any other exception, such as the RuntimeError of an `error' reply, passes
\* acquire() by: the replica stays `busy' and nobody ever returns it.
CallRaises(c) ==
  /\ phase[c] = "holding"
  /\ Enter(c, "out", NoReplica)
  /\ UNCHANGED <<replicaVars, available, closed>>

CallEnds(c) == CallReturns(c) \/ CallDies(c) \/ CallRaises(c)

-----------------------------------------------------------------------------
PoolTypeOK ==
  /\ alive \in SUBSET Replicas
  /\ status \in [Replicas -> ReplicaStatus]
  /\ available \in Seq(Replicas)
  /\ liveCount \in 0 .. NumReplicas
  /\ phase \in [Callers -> {"out", "waiting", "holding"}]
  /\ holds \in [Callers -> Replicas \cup {NoReplica}]
  /\ closed \in BOOLEAN

Queued(r) == {i \in 1 .. Len(available) : available[i] = r}
HeldBy(r) == {c \in Callers : holds[c] = r}

\* A replica an exception left `busy' with nobody using it.
Abandoned(r) == status[r] = "busy" /\ HeldBy(r) = {}

LiveReplicas == {r \in Replicas : status[r] # "dead"}
=============================================================================
