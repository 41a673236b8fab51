---------------------------- MODULE PoolSessions ----------------------------
(***************************************************************************)
(* Session leases over a ReplicaPool (open_session, acquire_session,       *)
(* close_session and aclose of telefuser/service/core/pipeline_pool.py) as *)
(* the connections of the VLA server use them (_PipelinePoolVLABackend,    *)
(* telefuser/service/vla_session.py).                                      *)
(*                                                                         *)
(* The sections under _session_leases_lock hold no await and are therefore *)
(* atomic.  A lease's own lock is held across the replica call; it is a    *)
(* FIFO queue whose head is the holder.  The code takes a free lock        *)
(* without yielding; here another task may run in between.                 *)
(***************************************************************************)
EXTENDS ReplicaPool

CONSTANTS NumConns,     \* WebSocket connections
          Sessions,     \* session ids their clients use
          MaxLeases     \* bound: lease objects alive at once

ASSUME SessionAssumption == NumConns \in Nat \ {0} /\ MaxLeases \in Nat \ {0}

Conns == 1 .. NumConns
Closer == 0             \* aclose() in the lock queues
Leases == 1 .. MaxLeases
NoLease == 0
NoSession == "none"

VARIABLES
  binding,      \* _session_leases: the lease of each session
  opening,      \* _opening_sessions
  lease,        \* the _ReplicaSessionLease objects: replica and closing flag
  locked,       \* the lock queue of each lease, holder first
  conn,         \* each connection: where it stands, for which session and lease
  shutdown,     \* _session_shutdown
  remaining     \* the leases aclose() still waits for

leaseVars == <<binding, opening, lease, locked>>
vars == <<poolVars, leaseVars, conn, shutdown, remaining>>

Ops == {"OPEN", "USE", "CLOSE"}
Places == {"idle", "taking", "taken", "locking", "calling", "open", "releasing"}
Idle == [at |-> "idle", session |-> NoSession, lease |-> NoLease, replica |-> NoReplica,
         op |-> "OPEN", ok |-> FALSE]
Open(s) == [Idle EXCEPT !.at = "open", !.session = s]

Pop(s) == [binding EXCEPT ![s] = NoLease]
NewLease(r) == [replica |-> r, closing |-> FALSE]

Init ==
  /\ PoolInit
  /\ binding = [s \in Sessions |-> NoLease]
  /\ opening = {}
  /\ lease = [l \in Leases |-> NewLease(NoReplica)]
  /\ locked = [l \in Leases |-> << >>]
  /\ conn = [k \in Conns |-> Idle]
  /\ shutdown = FALSE
  /\ remaining = {}

At(k, place) == conn[k].at = place
HasLock(x, l) == locked[l] # << >> /\ Head(locked[l]) = x
Unlocked(l) == [locked EXCEPT ![l] = Tail(@)]
Usable(s) == binding[s] # NoLease /\ ~lease[binding[s]].closing

\* _return_available_replica: a dead replica is evicted instead.
GiveBack(r) ==
  \/ closed /\ UNCHANGED <<replicaVars, available>>
  \/ /\ ~closed /\ r \in alive
     /\ status' = [status EXCEPT ![r] = "idle"]
     /\ available' = Append(available, r)
     /\ UNCHANGED <<alive, liveCount>>
  \/ /\ ~closed /\ r \notin alive
     /\ Evict(r)
     /\ UNCHANGED available

-----------------------------------------------------------------------------
\* A lease out of the table is never read again: its fields are forgotten.
Forgotten(bound) ==
  [l \in Leases |-> IF \E s \in Sessions : bound[s] = l THEN lease[l] ELSE NewLease(NoReplica)]

(* close_session, up to the wait for the lease's lock.  It is given the    *)
(* state its caller leaves and the place of a connection that is through.  *)
CloseSession(k, locks, bound, done) ==
  LET s == conn[k].session
      l == bound[s]
  IN  /\ binding' = bound
      /\ IF l = NoLease \/ lease[l].closing
           THEN /\ locked' = locks
                /\ lease' = Forgotten(bound)
                /\ conn' = [conn EXCEPT ![k] = done]
           ELSE /\ locked' = [locks EXCEPT ![l] = Append(@, k)]
                /\ lease' = [lease EXCEPT ![l].closing = TRUE]
                /\ conn' = [conn EXCEPT ![k] = [done EXCEPT !.at = "releasing", !.session = s,
                                                   !.lease = l, !.ok = done.at = "idle"]]

\* The connection is through with the close.
Closed(c) == IF c.ok THEN Idle ELSE Open(c.session)

\* ... and after it: the lease is popped and its replica returned, once.
CloseEnds(k) ==
  LET c == conn[k]
  IN  /\ At(k, "releasing") /\ HasLock(k, c.lease)
      /\ locked' = Unlocked(c.lease)
      /\ conn' = [conn EXCEPT ![k] = Closed(c)]
      /\ IF binding[c.session] = c.lease
           THEN /\ binding' = Pop(c.session)
                /\ lease' = Forgotten(Pop(c.session))
                /\ GiveBack(lease[c.lease].replica)
           ELSE UNCHANGED <<binding, lease, replicaVars, available>>
      /\ UNCHANGED <<opening, callerVars, closed, shutdown, remaining>>

-----------------------------------------------------------------------------
(* backend.open: open_session, then the OPEN call; on any error the        *)
(* session of that id is closed, whoever opened it.                        *)
OpenBegins(k, s) ==
  /\ At(k, "idle") /\ s \notin opening /\ binding[s] = NoLease /\ ~shutdown
  /\ opening' = opening \cup {s}
  /\ conn' = [conn EXCEPT ![k] = [Idle EXCEPT !.at = "taking", !.session = s]]
  /\ UNCHANGED <<poolVars, binding, lease, locked, shutdown, remaining>>

\* The id is taken: the error path closes the lease its owner uses.
OpenRefused(k, s) ==
  /\ At(k, "idle") /\ ~shutdown
  /\ Usable(s)
  /\ locked' = [locked EXCEPT ![binding[s]] = Append(@, k)]
  /\ lease' = [lease EXCEPT ![binding[s]].closing = TRUE]
  /\ conn' = [conn EXCEPT ![k] = [Idle EXCEPT !.at = "releasing", !.session = s,
                                              !.lease = binding[s], !.ok = TRUE]]
  /\ UNCHANGED <<poolVars, binding, opening, shutdown, remaining>>

(* _take_available_replica: one replica, evicting the dead ones on the way.*)
SessionTakes(k) ==
  LET r == Head(available)
  IN  /\ At(k, "taking") /\ ~shutdown /\ available # << >>
      /\ available' = Tail(available)
      /\ IF r \in alive
           THEN /\ conn' = [conn EXCEPT ![k].at = "taken", ![k].replica = r]
                /\ UNCHANGED replicaVars
           ELSE Evict(r) /\ UNCHANGED conn
      /\ UNCHANGED <<callerVars, closed, leaseVars, shutdown, remaining>>

\* Mutant: only the loss of the replicas ends the wait.
M_OpenAbortsLate(k) ==
  /\ At(k, "taking") /\ liveCount = 0
  /\ opening' = opening \ {conn[k].session}
  /\ CloseSession(k, locked, binding, Idle)
  /\ UNCHANGED <<poolVars, shutdown, remaining>>

\* Shutdown or the loss of every replica ends the wait.
OpenAborts(k) ==
  /\ At(k, "taking")
  /\ shutdown \/ liveCount = 0
  /\ opening' = opening \ {conn[k].session}
  /\ CloseSession(k, locked, binding, Idle)
  /\ UNCHANGED <<poolVars, shutdown, remaining>>

\* A lease object nobody refers to stands for a new one.
Unused == {l \in Leases : /\ locked[l] = << >>
                          /\ \A s \in Sessions : binding[s] # l
                          /\ \A k \in Conns : conn[k].lease # l
                          /\ l \notin remaining}
FirstFree == {l \in Unused : \A m \in Unused : l <= m}

\* The lease is registered, unless the pool began to shut down meanwhile;
\* the OPEN call follows without a pause.
Registers(k) ==
  LET c == conn[k]
  IN  \E l \in FirstFree :
      /\ At(k, "taken") /\ ~shutdown
      /\ lease' = [lease EXCEPT ![l] = NewLease(c.replica)]
      /\ binding' = [binding EXCEPT ![c.session] = l]
      /\ opening' = opening \ {c.session}
      /\ status' = [status EXCEPT ![c.replica] = "session_reserved"]
      /\ locked' = [locked EXCEPT ![l] = <<k>>]
      /\ conn' = [conn EXCEPT ![k].at = "locking", ![k].lease = l, ![k].replica = NoReplica]
      /\ UNCHANGED <<alive, liveCount, available, callerVars, closed, shutdown, remaining>>

RegisterRefused(k) ==
  /\ At(k, "taken") /\ shutdown
  /\ opening' = opening \ {conn[k].session}
  /\ GiveBack(conn[k].replica)
  /\ CloseSession(k, locked, binding, Idle)
  /\ UNCHANGED <<callerVars, closed, shutdown, remaining>>

-----------------------------------------------------------------------------
(* acquire_session: PREDICT and RESET (USE) or CLOSE of an open session.   *)
(* On a session whose lease is gone the call raises KeyError and changes   *)
(* nothing; a connection can then only leave.                              *)
CallBegins(k, op) ==
  LET s == conn[k].session
  IN  /\ At(k, "open") /\ Usable(s)
      /\ locked' = [locked EXCEPT ![binding[s]] = Append(@, k)]
      /\ conn' = [conn EXCEPT ![k].at = "locking", ![k].op = op, ![k].lease = binding[s]]
      /\ UNCHANGED <<poolVars, binding, opening, lease, shutdown, remaining>>

Leaves(k) ==
  /\ At(k, "open") /\ ~Usable(conn[k].session)
  /\ conn' = [conn EXCEPT ![k] = Idle]
  /\ UNCHANGED <<poolVars, leaseVars, shutdown, remaining>>

\* What follows a call: an OPEN that failed and every CLOSE close the session.
AfterCall(k, ok, locks, bound) ==
  LET c == conn[k]
  IN  IF c.op = "USE" \/ (c.op = "OPEN" /\ ok)
        THEN /\ conn' = [conn EXCEPT ![k] = Open(c.session)]
             /\ locked' = locks /\ binding' = bound
             /\ lease' = Forgotten(bound)
        ELSE CloseSession(k, locks, bound,
                          IF c.op = "CLOSE" /\ ~ok THEN Open(c.session) ELSE Idle)

\* The lock is the connection's: the lease is checked again, then the process.
CallTurn(k) ==
  LET c == conn[k]
      valid == binding[c.session] = c.lease /\ ~lease[c.lease].closing
      r == lease[c.lease].replica
  IN  /\ At(k, "locking") /\ HasLock(k, c.lease)
      /\ \/ /\ ~valid
            /\ AfterCall(k, FALSE, Unlocked(c.lease), binding)
            /\ UNCHANGED replicaVars
         \/ /\ valid /\ r \notin alive
            /\ Evict(r)
            /\ AfterCall(k, FALSE, Unlocked(c.lease), Pop(c.session))
         \/ /\ valid /\ r \in alive
            /\ status' = [status EXCEPT ![r] = "session_busy"]
            /\ conn' = [conn EXCEPT ![k].at = "calling"]
            /\ UNCHANGED <<alive, liveCount, lease, locked, binding>>
      /\ UNCHANGED <<available, callerVars, closed, opening, shutdown, remaining>>

\* The replica answers, refuses the operation, or is found dead.
CallAnswered(k, ok) ==
  LET r == lease[conn[k].lease].replica
  IN  /\ At(k, "calling")
      /\ status' = IF ok /\ status[r] # "dead"
                     THEN [status EXCEPT ![r] = "session_reserved"] ELSE status
      /\ AfterCall(k, ok, Unlocked(conn[k].lease), binding)
      /\ UNCHANGED <<alive, liveCount, available, callerVars, closed, opening,
                     shutdown, remaining>>

\* Mutant: the error path keeps the lease's lock.
M_CallFindsDeadLocked(k) ==
  /\ At(k, "calling")
  /\ Evict(lease[conn[k].lease].replica)
  /\ AfterCall(k, FALSE, locked, Pop(conn[k].session))
  /\ UNCHANGED <<available, callerVars, closed, opening, shutdown, remaining>>

CallFindsDead(k) ==
  /\ At(k, "calling")
  /\ Evict(lease[conn[k].lease].replica)
  /\ AfterCall(k, FALSE, Unlocked(conn[k].lease), Pop(conn[k].session))
  /\ UNCHANGED <<available, callerVars, closed, opening, shutdown, remaining>>

-----------------------------------------------------------------------------
(* aclose: flag the leases, wait for the lock of each, clear and stop.     *)
BoundLeases == {binding[s] : s \in Sessions} \ {NoLease}

\* Mutant: aclose() does not wait for the leases' locks.
M_ShutdownBegins ==
  /\ ~shutdown /\ ~closed
  /\ shutdown' = TRUE
  /\ lease' = [l \in Leases |-> IF l \in BoundLeases THEN [lease[l] EXCEPT !.closing = TRUE]
                                                     ELSE lease[l]]
  /\ UNCHANGED <<poolVars, binding, opening, locked, conn, remaining>>

ShutdownBegins ==
  /\ ~shutdown
  /\ shutdown' = TRUE
  /\ lease' = [l \in Leases |-> IF l \in BoundLeases THEN [lease[l] EXCEPT !.closing = TRUE]
                                                     ELSE lease[l]]
  /\ remaining' = BoundLeases
  /\ UNCHANGED <<poolVars, binding, opening, locked, conn>>

\* `async with lease.lock: pass' for one lease after the other.
ShutdownQueues(l) ==
  /\ l \in remaining /\ \A m \in remaining : l <= m
  /\ \A m \in Leases : \A i \in DOMAIN locked[m] : locked[m][i] # Closer
  /\ locked' = [locked EXCEPT ![l] = Append(@, Closer)]
  /\ UNCHANGED <<poolVars, binding, opening, lease, conn, shutdown, remaining>>

ShutdownPasses(l) ==
  /\ HasLock(Closer, l)
  /\ locked' = Unlocked(l)
  /\ remaining' = remaining \ {l}
  /\ UNCHANGED <<poolVars, binding, opening, lease, conn, shutdown>>

ShutdownEnds ==
  /\ shutdown /\ ~closed /\ remaining = {}
  /\ binding' = [s \in Sessions |-> NoLease]
  /\ opening' = {}
  /\ alive' = {}
  /\ closed' = TRUE
  /\ UNCHANGED <<status, liveCount, available, callerVars, lease, locked, conn,
                 shutdown, remaining>>

-----------------------------------------------------------------------------
SessionsUnchanged == UNCHANGED <<leaseVars, conn, shutdown, remaining>>

Caller(c) == /\ AcquireTakes(c) \/ AcquireFails(c) \/ CallEnds(c)
             /\ SessionsUnchanged

Connection(k) ==
  \/ SessionTakes(k) \/ OpenAborts(k) \/ Registers(k) \/ RegisterRefused(k)
  \/ CallTurn(k) \/ (\E ok \in BOOLEAN : CallAnswered(k, ok)) \/ CallFindsDead(k)
  \/ CloseEnds(k)

Client(k) ==
  \/ \E s \in Sessions : OpenBegins(k, s) \/ OpenRefused(k, s)
  \/ \E op \in Ops \ {"OPEN"} : CallBegins(k, op)
  \/ Leaves(k)

Shutdown == (\E l \in Leases : ShutdownQueues(l) \/ ShutdownPasses(l)) \/ ShutdownEnds

Next ==
  \/ \E c \in Callers : Caller(c) \/ (AcquireBegins(c) /\ SessionsUnchanged)
  \/ \E k \in Conns : Connection(k) \/ Client(k)
  \/ \E r \in Replicas : Dies(r) /\ SessionsUnchanged
  \/ ShutdownBegins
  \/ Shutdown

Spec == Init /\ [][Next]_vars

(* Tasks of the event loop run on and every replica call ends (a reply, a  *)
(* dead process or the IPC timeout); clients, deaths and the shutdown come *)
(* or do not come.                                                         *)
FairSpec ==
  /\ Spec
  /\ \A c \in Callers : WF_vars(Caller(c))
  /\ \A k \in Conns : WF_vars(Connection(k))
  /\ WF_vars(Shutdown)

-----------------------------------------------------------------------------
(* Every variable keeps its type.                                          *)
TypeOK ==
  /\ PoolTypeOK
  /\ binding \in [Sessions -> Leases \cup {NoLease}]
  /\ opening \in SUBSET Sessions
  /\ lease \in [Leases -> [replica : Replicas \cup {NoReplica}, closing : BOOLEAN]]
  /\ locked \in [Leases -> Seq(Conns \cup {Closer})]
  /\ conn \in [Conns -> [at : Places, session : Sessions \cup {NoSession}, lease : Leases \cup {NoLease},
                         replica : Replicas \cup {NoReplica}, op : Ops, ok : BOOLEAN]]
  /\ shutdown \in BOOLEAN
  /\ remaining \in SUBSET Leases

LeasedBy(r) == {s \in Sessions : binding[s] # NoLease /\ lease[binding[s]].replica = r}
TakenBy(r) == {k \in Conns : At(k, "taken") /\ conn[k].replica = r}

\* In how many places a replica is.
Copies(r) == Cardinality(Queued(r)) + Cardinality(HeldBy(r)) + Cardinality(LeasedBy(r))
             + Cardinality(TakenBy(r))

(* A replica is never shared and never lost: until the pool is closed,     *)
(* each one that is not evicted is in exactly one place - the queue, a     *)
(* caller, a session being opened, or a lease - unless an exception        *)
(* abandoned it, and an evicted one is nowhere.  Eviction, close, refused  *)
(* registration and shutdown may come in any order.                        *)
ReplicaIsInOnePlace ==
  \A r \in Replicas :
    ~closed => Copies(r) = IF status[r] = "dead" \/ Abandoned(r) THEN 0 ELSE 1

(* The count that decides whether the service has capacity equals the      *)
(* number of replicas not evicted, so it neither goes below nor is stuck   *)
(* above what is there (_evict_replica counts a replica once).             *)
LiveCountIsRight == liveCount = Cardinality(LiveReplicas)

(* A session call in progress is made through the lease bound to its       *)
(* session, and its replica was stopped by nobody else: not by an eviction *)
(* on another path and not by aclose, which waits for active session calls.*)
CallsKeepTheirLease ==
  \A k \in Conns : At(k, "calling") =>
    /\ binding[conn[k].session] = conn[k].lease
    /\ HasLock(k, conn[k].lease)
    /\ ~closed /\ status[lease[conn[k].lease].replica] = "session_busy"

(* aclose finishes: waiting for each lease's lock never deadlocks with the *)
(* calls, closes and evictions queued on it.                               *)
ShutdownFinishes == shutdown ~> closed

(* A connection that is waiting for capacity, for a lease's lock or for    *)
(* its close is not left there: shutdown or the loss of all replicas wakes *)
(* the first, the lock's queue moves for the others.                       *)
ConnectionsProgress ==
  \A k \in Conns :
    /\ (At(k, "taking") /\ (shutdown \/ liveCount = 0)) ~> ~At(k, "taking")
    /\ At(k, "locking") ~> ~At(k, "locking")
    /\ At(k, "releasing") ~> ~At(k, "releasing")
=============================================================================
