------------------------------- MODULE PoolProofs -------------------------------
(***************************************************************************)
(* Proofs about PoolSessions, for any number of replicas, callers,         *)
(* connections, sessions and leases: a replica is never shared and never   *)
(* lost, the count of live replicas is right, and a session call keeps its *)
(* lease and its replica until it is over.                                 *)
(***************************************************************************)
EXTENDS PoolSessions, TLAPS, FiniteSetTheorems

USE DEF Replicas, Conns, Leases, NoReplica, NoLease

--------------------------------------------------------------------------------
(* Sequences without repetition.                                           *)

Members(q) == {q[i] : i \in 1 .. Len(q)}
Distinct(q) == \A i, j \in 1 .. Len(q) : q[i] = q[j] => i = j

LEMMA MembersFacts ==
    ASSUME NEW S, NEW q \in Seq(S)
    PROVE  Members(q) \in SUBSET S
<1>1. \A i \in 1 .. Len(q) : q[i] \in S
  OBVIOUS
<1> QED
  BY <1>1 DEF Members

LEMMA TailFacts ==
    ASSUME NEW S, NEW q \in Seq(S), q # << >>, Distinct(q)
    PROVE  /\ Tail(q) \in Seq(S) /\ Distinct(Tail(q)) /\ Head(q) \in Members(q) /\ Head(q) \in S
           /\ Members(Tail(q)) = Members(q) \ {Head(q)}
<1>1. /\ Tail(q) \in Seq(S) /\ Len(q) \in Nat \ {0} /\ Len(Tail(q)) = Len(q) - 1
      /\ \A i \in 1 .. Len(q) - 1 : Tail(q)[i] = q[i + 1]
      /\ Head(q) = q[1] /\ q[1] \in S
  OBVIOUS
<1>2. Distinct(Tail(q))
  BY <1>1 DEF Distinct
<1>3. Head(q) \in Members(q)
  BY <1>1 DEF Members
<1>4. ASSUME NEW x \in Members(Tail(q)) PROVE x \in Members(q) \ {Head(q)}
  <2>1. PICK i \in 1 .. Len(q) - 1 : x = q[i + 1]
    BY <1>1, <1>4 DEF Members
  <2>2. i + 1 \in 1 .. Len(q) /\ 1 \in 1 .. Len(q) /\ i + 1 # 1
    BY <1>1
  <2> QED
    BY <1>1, <2>1, <2>2 DEF Members, Distinct
<1>5. ASSUME NEW x \in Members(q) \ {Head(q)} PROVE x \in Members(Tail(q))
  <2>1. PICK i \in 1 .. Len(q) : x = q[i]
    BY <1>5 DEF Members
  <2>2. i # 1
    BY <1>1, <2>1
  <2>3. i - 1 \in 1 .. Len(q) - 1 /\ Tail(q)[i - 1] = q[i]
    BY <1>1, <2>2
  <2> QED
    BY <1>1, <2>1, <2>3 DEF Members
<1> QED
  BY <1>1, <1>2, <1>3, <1>4, <1>5

LEMMA AppendFacts ==
    ASSUME NEW S, NEW q \in Seq(S), Distinct(q), NEW x \in S, x \notin Members(q)
    PROVE  /\ Append(q, x) \in Seq(S) /\ Distinct(Append(q, x))
           /\ Members(Append(q, x)) = Members(q) \cup {x}
<1>1. /\ Append(q, x) \in Seq(S) /\ Len(q) \in Nat /\ Len(Append(q, x)) = Len(q) + 1
      /\ \A i \in 1 .. Len(q) : Append(q, x)[i] = q[i]
      /\ Append(q, x)[Len(q) + 1] = x
  OBVIOUS
<1>2. \A i \in 1 .. Len(q) + 1 : i \in 1 .. Len(q) \/ i = Len(q) + 1
  BY <1>1
<1>3. \A i \in 1 .. Len(q) : q[i] # x /\ i \in 1 .. Len(q) + 1
  BY <1>1 DEF Members
<1>4. Distinct(Append(q, x))
  BY <1>1, <1>2, <1>3 DEF Distinct
<1>5. Members(Append(q, x)) = Members(q) \cup {x}
  <2>1. Len(q) + 1 \in 1 .. Len(q) + 1
    BY <1>1
  <2> QED
    BY <1>1, <1>2, <1>3, <2>1 DEF Members
<1> QED
  BY <1>1, <1>4, <1>5

--------------------------------------------------------------------------------
(* Where replicas are: in the queue Q, with a caller (H), with a lease (L) *)
(* or taken for a session that opens (T).  The status tells which.         *)

Reserved == {"session_reserved", "session_busy"}
Maps(D) == [D -> Replicas \cup {NoReplica}]
Alone(D, M) == \A x, y \in D : M[x] = M[y] /\ M[x] # NoReplica => x = y

Homes(st, Q, H, L, T) ==
  /\ \A r \in Q : st[r] = "idle"
  /\ \A k \in Conns : T[k] # NoReplica => st[T[k]] = "idle" /\ T[k] \notin Q
  /\ \A c \in Callers : H[c] # NoReplica => st[H[c]] = "busy"
  /\ \A s \in Sessions : L[s] # NoReplica => st[L[s]] \in Reserved
  /\ Alone(Conns, T) /\ Alone(Callers, H) /\ Alone(Sessions, L)
  /\ \A r \in Replicas : /\ st[r] = "idle" => r \in Q \/ \E k \in Conns : T[k] = r
                         /\ st[r] \in Reserved => \E s \in Sessions : L[s] = r

Mapped(st, Q, H, L, T) ==
  /\ st \in [Replicas -> ReplicaStatus] /\ Q \in SUBSET Replicas
  /\ H \in Maps(Callers) /\ L \in Maps(Sessions) /\ T \in Maps(Conns)

LEMMA Zero == NoReplica \notin Replicas
BY PoolAssumption

LEMMA QueueToCaller ==
    ASSUME NEW st, NEW Q, NEW H, NEW L, NEW T, Mapped(st, Q, H, L, T), Homes(st, Q, H, L, T),
           NEW r \in Q, NEW c \in Callers, H[c] = NoReplica
    PROVE  Homes([st EXCEPT ![r] = "busy"], Q \ {r}, [H EXCEPT ![c] = r], L, T)
BY Zero DEF Homes, Mapped, Maps, Alone, Reserved

LEMMA QueueToNowhere ==
    ASSUME NEW st, NEW Q, NEW H, NEW L, NEW T, Mapped(st, Q, H, L, T), Homes(st, Q, H, L, T),
           NEW r \in Q
    PROVE  Homes([st EXCEPT ![r] = "dead"], Q \ {r}, H, L, T)
BY Zero DEF Homes, Mapped, Maps, Alone, Reserved

LEMMA CallerToQueue ==
    ASSUME NEW st, NEW Q, NEW H, NEW L, NEW T, Mapped(st, Q, H, L, T), Homes(st, Q, H, L, T),
           NEW c \in Callers, H[c] # NoReplica
    PROVE  /\ H[c] \notin Q
           /\ Homes([st EXCEPT ![H[c]] = "idle"], Q \cup {H[c]}, [H EXCEPT ![c] = NoReplica], L, T)
BY Zero DEF Homes, Mapped, Maps, Alone, Reserved

LEMMA CallerToNowhere ==
    ASSUME NEW st, NEW Q, NEW H, NEW L, NEW T, Mapped(st, Q, H, L, T), Homes(st, Q, H, L, T),
           NEW c \in Callers, H[c] # NoReplica
    PROVE  /\ Homes([st EXCEPT ![H[c]] = "dead"], Q, [H EXCEPT ![c] = NoReplica], L, T)
           /\ Homes(st, Q, [H EXCEPT ![c] = NoReplica], L, T)
BY Zero DEF Homes, Mapped, Maps, Alone, Reserved

LEMMA QueueToConn ==
    ASSUME NEW st, NEW Q, NEW H, NEW L, NEW T, Mapped(st, Q, H, L, T), Homes(st, Q, H, L, T),
           NEW r \in Q, NEW k \in Conns, T[k] = NoReplica
    PROVE  Homes(st, Q \ {r}, H, L, [T EXCEPT ![k] = r])
BY Zero DEF Homes, Mapped, Maps, Alone, Reserved

LEMMA ConnToLease ==
    ASSUME NEW st, NEW Q, NEW H, NEW L, NEW T, Mapped(st, Q, H, L, T), Homes(st, Q, H, L, T),
           NEW k \in Conns, T[k] # NoReplica, NEW s \in Sessions, L[s] = NoReplica
    PROVE  Homes([st EXCEPT ![T[k]] = "session_reserved"], Q, H, [L EXCEPT ![s] = T[k]],
                 [T EXCEPT ![k] = NoReplica])
BY Zero DEF Homes, Mapped, Maps, Alone, Reserved

LEMMA ConnToQueue ==
    ASSUME NEW st, NEW Q, NEW H, NEW L, NEW T, Mapped(st, Q, H, L, T), Homes(st, Q, H, L, T),
           NEW k \in Conns, T[k] # NoReplica
    PROVE  /\ Homes([st EXCEPT ![T[k]] = "idle"], Q \cup {T[k]}, H, L, [T EXCEPT ![k] = NoReplica])
           /\ Homes([st EXCEPT ![T[k]] = "dead"], Q, H, L, [T EXCEPT ![k] = NoReplica])
BY Zero DEF Homes, Mapped, Maps, Alone, Reserved

LEMMA LeaseToQueue ==
    ASSUME NEW st, NEW Q, NEW H, NEW L, NEW T, Mapped(st, Q, H, L, T), Homes(st, Q, H, L, T),
           NEW s \in Sessions, L[s] # NoReplica
    PROVE  /\ L[s] \notin Q
           /\ Homes([st EXCEPT ![L[s]] = "idle"], Q \cup {L[s]}, H, [L EXCEPT ![s] = NoReplica], T)
           /\ Homes([st EXCEPT ![L[s]] = "dead"], Q, H, [L EXCEPT ![s] = NoReplica], T)
BY Zero DEF Homes, Mapped, Maps, Alone, Reserved

LEMMA LeaseStays ==
    ASSUME NEW st, NEW Q, NEW H, NEW L, NEW T, Mapped(st, Q, H, L, T), Homes(st, Q, H, L, T),
           NEW s \in Sessions, L[s] # NoReplica, NEW x \in Reserved
    PROVE  Homes([st EXCEPT ![L[s]] = x], Q, H, L, T)
BY Zero DEF Homes, Mapped, Maps, Alone, Reserved

--------------------------------------------------------------------------------
(* The inductive invariant.                                                *)

Taken == [k \in Conns |-> IF At(k, "taken") THEN conn[k].replica ELSE NoReplica]
Leased == [s \in Sessions |-> IF binding[s] = NoLease THEN NoReplica ELSE lease[binding[s]].replica]

LeaseRecs == [replica : Replicas \cup {NoReplica}, closing : BOOLEAN]
ConnRecs == [at : Places, session : Sessions \cup {NoSession}, lease : Leases \cup {NoLease},
             replica : Replicas \cup {NoReplica}, op : Ops, ok : BOOLEAN]

LeaseTypes ==
  /\ binding \in [Sessions -> Leases \cup {NoLease}]
  /\ opening \in SUBSET Sessions
  /\ lease \in [Leases -> LeaseRecs]
  /\ locked \in [Leases -> Seq(Conns \cup {Closer})]
  /\ conn \in [Conns -> ConnRecs]
  /\ shutdown \in BOOLEAN
  /\ remaining \in SUBSET Leases

HoldInv == \A c \in Callers : phase[c] = "holding" <=> holds[c] # NoReplica

PlaceInv ==
  /\ Distinct(available)
  /\ ~closed => Homes(status, Members(available), holds, Leased, Taken)

\* An opening session has no lease yet and one connection.
Opening(k) == conn[k].at \in {"taking", "taken"}
ConnInv ==
  \A k \in Conns :
    /\ conn[k].at \in {"locking", "calling", "releasing"} => conn[k].lease \in Leases
    /\ conn[k].at # "idle" => conn[k].session \in Sessions
    /\ At(k, "taken") => conn[k].replica \in Replicas
    /\ ~closed /\ Opening(k) =>
         /\ conn[k].session \in opening /\ binding[conn[k].session] = NoLease
         /\ \A m \in Conns : Opening(m) /\ conn[m].session = conn[k].session => m = k

\* Leases are bound to one session each; shutdown has flagged them all.
TableInv ==
  /\ closed => shutdown /\ \A s \in Sessions : binding[s] = NoLease
  /\ \A s \in Sessions : binding[s] # NoLease =>
       /\ lease[binding[s]].replica \in Replicas
       /\ shutdown => lease[binding[s]].closing
       /\ \A t \in Sessions : binding[t] = binding[s] => t = s

\* aclose() still waits for every call in progress.
CallInv ==
  /\ CallsKeepTheirLease
  /\ \A k \in Conns : At(k, "calling") /\ shutdown => conn[k].lease \in remaining

PoolInv ==
  /\ PoolTypeOK /\ LeaseTypes
  /\ HoldInv /\ LiveCountIsRight /\ PlaceInv
  /\ ConnInv /\ TableInv /\ CallInv

--------------------------------------------------------------------------------
(* The count of live replicas.                                             *)

LEMMA LiveIsFinite == IsFiniteSet(LiveReplicas) /\ Cardinality(LiveReplicas) \in 0 .. NumReplicas
<1>1. IsFiniteSet(Replicas) /\ Cardinality(Replicas) = NumReplicas
  BY PoolAssumption, FS_Interval
<1>2. LiveReplicas \in SUBSET Replicas
  BY DEF LiveReplicas
<1>3. IsFiniteSet(LiveReplicas) /\ Cardinality(LiveReplicas) <= NumReplicas
  BY <1>1, <1>2, FS_Subset
<1> QED
  BY <1>3, FS_CardinalityType, PoolAssumption

LEMMA EvictFacts ==
    ASSUME PoolTypeOK, LiveCountIsRight, NEW r \in Replicas, Evict(r)
    PROVE  /\ status' = [status EXCEPT ![r] = "dead"] /\ alive' \in SUBSET Replicas
           /\ status' \in [Replicas -> ReplicaStatus]
           /\ liveCount' \in 0 .. NumReplicas /\ LiveCountIsRight'
<1>1. status' = [status EXCEPT ![r] = "dead"] /\ alive' \in SUBSET Replicas
  BY DEF Evict, replicaVars, PoolTypeOK
<1>2. status' \in [Replicas -> ReplicaStatus]
  BY <1>1 DEF PoolTypeOK, ReplicaStatus
<1>3. LiveReplicas' = LiveReplicas \ {r}
  BY <1>1 DEF LiveReplicas, PoolTypeOK
<1>4. LiveCountIsRight'
  <2>1. CASE status[r] = "dead"
    BY <1>3, <2>1 DEF Evict, replicaVars, LiveCountIsRight, LiveReplicas
  <2>2. CASE status[r] # "dead"
    <3>1. liveCount' = liveCount - 1 /\ r \in LiveReplicas
      BY <2>2 DEF Evict, LiveReplicas
    <3>2. Cardinality(LiveReplicas \ {r}) = Cardinality(LiveReplicas) - 1
      BY <3>1, LiveIsFinite, FS_RemoveElement
    <3> QED
      BY <1>3, <3>1, <3>2 DEF LiveCountIsRight
  <2> QED
    BY <2>1, <2>2
<1>5. Cardinality(LiveReplicas') \in 0 .. NumReplicas
  <2>1. IsFiniteSet(LiveReplicas \ {r}) /\ LiveReplicas \ {r} \in SUBSET LiveReplicas
    BY LiveIsFinite, FS_RemoveElement
  <2>2. Cardinality(LiveReplicas \ {r}) \in Nat
        /\ Cardinality(LiveReplicas \ {r}) <= Cardinality(LiveReplicas)
    BY <2>1, LiveIsFinite, FS_CardinalityType, FS_Subset
  <2> QED
    BY <1>3, <2>2, LiveIsFinite, PoolAssumption
<1> QED
  BY <1>1, <1>2, <1>4, <1>5 DEF LiveCountIsRight

\* A change among the statuses of live replicas.
LEMMA LiveStays ==
    ASSUME PoolTypeOK, LiveCountIsRight, NEW r \in Replicas, NEW x \in ReplicaStatus \ {"dead"},
           status[r] # "dead", status' = [status EXCEPT ![r] = x], liveCount' = liveCount
    PROVE  status' \in [Replicas -> ReplicaStatus] /\ LiveCountIsRight'
<1>1. status' \in [Replicas -> ReplicaStatus] /\ LiveReplicas' = LiveReplicas
  BY DEF PoolTypeOK, LiveReplicas
<1> QED
  BY <1>1 DEF LiveCountIsRight

--------------------------------------------------------------------------------
(* What every step starts from.                                            *)

LEMMA PoolFacts ==
    ASSUME PoolInv
    PROVE  /\ available \in Seq(Replicas) /\ Distinct(available)
           /\ Mapped(status, Members(available), holds, Leased, Taken)
           /\ ~closed => Homes(status, Members(available), holds, Leased, Taken)
           /\ \A s \in Sessions : binding[s] # NoLease => binding[s] \in Leases
<1>1. available \in Seq(Replicas) /\ status \in [Replicas -> ReplicaStatus] /\ holds \in Maps(Callers)
  BY DEF PoolInv, PoolTypeOK, Maps
<1>2. Members(available) \in SUBSET Replicas
  BY <1>1, MembersFacts
<1>3. Leased \in Maps(Sessions)
  BY DEF PoolInv, LeaseTypes, LeaseRecs, TableInv, Leased, Maps
<1>4. Taken \in Maps(Conns)
  BY DEF PoolInv, LeaseTypes, ConnRecs, Taken, Maps
<1> QED
  BY <1>1, <1>2, <1>3, <1>4 DEF PoolInv, PlaceInv, LeaseTypes, Mapped

\* The pool's part of the invariant, of the variables a step may change.
PoolPart == PoolTypeOK /\ HoldInv /\ LiveCountIsRight
SessionPart == LeaseTypes /\ ConnInv /\ TableInv /\ CallInv

\* A session's part of the invariant depends on the statuses of its calls only.
LEMMA SessionPartStays ==
    ASSUME PoolInv, UNCHANGED <<leaseVars, conn, shutdown, remaining, closed>>,
           \A k \in Conns : At(k, "calling") =>
             status'[lease[conn[k].lease].replica] = status[lease[conn[k].lease].replica]
    PROVE  SessionPart' /\ Leased' = Leased /\ Taken' = Taken
<1> USE DEF leaseVars
<1>1. LeaseTypes' /\ ConnInv' /\ TableInv'
  BY DEF PoolInv, LeaseTypes, ConnInv, TableInv, Opening, At
<1>2. CallInv'
  BY DEF PoolInv, CallInv, CallsKeepTheirLease, At, HasLock
<1>3. Leased' = Leased /\ Taken' = Taken
  BY DEF Leased, Taken, At
<1> QED
  BY <1>1, <1>2, <1>3 DEF SessionPart

--------------------------------------------------------------------------------
(* The callers of acquire().                                               *)

\* The calls in progress hold replicas that are neither queued, nor taken, nor
\* a caller's.
LEMMA CallsAreApart ==
    ASSUME PoolInv, NEW k \in Conns, At(k, "calling"), NEW r \in Replicas,
           status[r] # "session_busy"
    PROVE  lease[conn[k].lease].replica # r
BY DEF PoolInv, CallInv, CallsKeepTheirLease

LEMMA CallerKeepsInv ==
    ASSUME PoolInv, NEW c \in Callers, Caller(c) \/ (AcquireBegins(c) /\ SessionsUnchanged)
    PROVE  PoolInv'
<1> DEFINE Q == Members(available)
           kept == UNCHANGED <<leaseVars, conn, shutdown, remaining, closed>>
<1>1. UNCHANGED <<leaseVars, conn, shutdown, remaining>>
  BY DEF Caller, SessionsUnchanged
<1>2. /\ available \in Seq(Replicas) /\ Distinct(available)
      /\ Mapped(status, Q, holds, Leased, Taken)
      /\ ~closed => Homes(status, Q, holds, Leased, Taken)
  BY PoolFacts
<1>3. /\ PoolTypeOK /\ HoldInv /\ LiveCountIsRight /\ PoolPart
      /\ phase[c] \in {"out", "waiting", "holding"} /\ holds[c] \in Replicas \cup {NoReplica}
  BY DEF PoolInv, PoolPart, PoolTypeOK
<1> HIDE DEF Q
<1>4. CASE AcquireBegins(c) \/ AcquireFails(c) \/ (closed /\ CallEnds(c))
            \/ (closed /\ AcquireTakes(c))
  <2>1. /\ UNCHANGED <<replicaVars, closed>>
        /\ available' = available \/ (available # << >> /\ available' = Tail(available))
        /\ closed \/ (UNCHANGED <<available>> /\ holds' = [holds EXCEPT ![c] = NoReplica]
                      /\ holds[c] = NoReplica)
        /\ UNCHANGED <<phase, holds>> \/ \E p \in {"out", "waiting"} :
             phase' = [phase EXCEPT ![c] = p] /\ holds' = [holds EXCEPT ![c] = NoReplica]
    BY <1>3, <1>4
    DEF AcquireBegins, AcquireFails, AcquireTakes, CallEnds, CallReturns, CallDies, CallRaises,
        Enter, replicaVars, callerVars, HoldInv
  <2>0. /\ available # << >> => Tail(available) \in Seq(Replicas) /\ Distinct(Tail(available))
        /\ available' \in Seq(Replicas) /\ Distinct(available')
    <3>1. ASSUME available # << >>
          PROVE  Tail(available) \in Seq(Replicas) /\ Distinct(Tail(available))
      BY <1>2, <3>1, TailFacts
    <3> QED
      BY <1>2, <2>1, <3>1
  <2>2. PoolTypeOK' /\ HoldInv' /\ LiveCountIsRight'
    BY <1>3, <2>0, <2>1
    DEF PoolTypeOK, HoldInv, LiveCountIsRight, LiveReplicas, replicaVars
  <2>3. SessionPart' /\ Leased' = Leased /\ Taken' = Taken
    BY <1>1, <2>1, SessionPartStays DEF replicaVars
  <2>4. PlaceInv'
    <3>1. Distinct(available')
      BY <2>0
    <3>2. ~closed => holds' = holds
      BY <1>3, <2>1 DEF PoolTypeOK
    <3> QED
      BY <1>2, <2>1, <2>3, <3>1, <3>2 DEF PlaceInv, Q, replicaVars
  <2> QED
    BY <2>2, <2>3, <2>4 DEF PoolInv, SessionPart
<1>5. CASE ~closed /\ AcquireTakes(c)
  <2> DEFINE r == Head(available)
  <2>1. /\ available # << >> /\ available' = Tail(available) /\ UNCHANGED closed
        /\ phase[c] = "waiting"
    BY <1>5 DEF AcquireTakes
  <2>2. /\ Tail(available) \in Seq(Replicas) /\ Distinct(Tail(available)) /\ r \in Q /\ r \in Replicas
        /\ Members(available') = Q \ {r}
    BY <1>2, <2>1, TailFacts DEF Q
  <2>3. holds[c] = NoReplica /\ status[r] = "idle"
    BY <1>2, <1>3, <1>5, <2>1, <2>2 DEF HoldInv, Homes
  <2>4. /\ \A k \in Conns : At(k, "calling") => lease[conn[k].lease].replica \in Replicas
        /\ \A k \in Conns : At(k, "calling") => lease[conn[k].lease].replica # r
    <3>1. \A k \in Conns : At(k, "calling") => lease[conn[k].lease].replica # r
      BY <2>2, <2>3, CallsAreApart
    <3>2. \A k \in Conns : At(k, "calling") => conn[k].session \in Sessions /\ conn[k].lease \in Leases
      BY DEF PoolInv, ConnInv, At
    <3>3. \A k \in Conns : At(k, "calling") => binding[conn[k].session] = conn[k].lease
      BY DEF PoolInv, CallInv, CallsKeepTheirLease
    <3> QED
      BY <3>1, <3>2, <3>3, Zero DEF PoolInv, TableInv
  <2> HIDE DEF r
  <2>5. CASE /\ status' = [status EXCEPT ![r] = "busy"] /\ Enter(c, "holding", r)
             /\ UNCHANGED <<alive, liveCount>>
    <3>1. status' \in [Replicas -> ReplicaStatus] /\ LiveCountIsRight'
      BY <1>3, <2>2, <2>3, <2>5, LiveStays DEF ReplicaStatus
    <3>2. phase' = [phase EXCEPT ![c] = "holding"] /\ holds' = [holds EXCEPT ![c] = r]
      BY <2>5 DEF Enter
    <3>3. PoolTypeOK' /\ HoldInv'
      BY <1>3, <2>1, <2>2, <2>5, <3>1, <3>2, Zero DEF PoolTypeOK, HoldInv
    <3>4. SessionPart' /\ Leased' = Leased /\ Taken' = Taken
      <4>1. \A k \in Conns : At(k, "calling") =>
              status'[lease[conn[k].lease].replica] = status[lease[conn[k].lease].replica]
        BY <1>3, <2>4, <2>5 DEF PoolTypeOK
      <4> QED
        BY <1>1, <2>1, <4>1, SessionPartStays
    <3>5. Homes(status', Q \ {r}, holds', Leased, Taken)
      BY <1>2, <1>5, <2>2, <2>3, <2>5, <3>2, QueueToCaller
    <3> QED
      BY <2>1, <2>2, <3>1, <3>3, <3>4, <3>5 DEF PoolInv, SessionPart, PlaceInv
  <2>6. CASE Evict(r) /\ UNCHANGED callerVars
    <3>1. /\ status' = [status EXCEPT ![r] = "dead"] /\ alive' \in SUBSET Replicas
          /\ status' \in [Replicas -> ReplicaStatus]
          /\ liveCount' \in 0 .. NumReplicas /\ LiveCountIsRight'
      BY <1>3, <2>2, <2>6, EvictFacts
    <3>2. PoolTypeOK' /\ HoldInv'
      BY <1>3, <2>1, <2>2, <2>6, <3>1 DEF PoolTypeOK, HoldInv, callerVars
    <3>3. SessionPart' /\ Leased' = Leased /\ Taken' = Taken
      <4>1. \A k \in Conns : At(k, "calling") =>
              status'[lease[conn[k].lease].replica] = status[lease[conn[k].lease].replica]
        BY <1>3, <2>4, <3>1 DEF PoolTypeOK
      <4> QED
        BY <1>1, <2>1, <4>1, SessionPartStays
    <3>4. Homes(status', Q \ {r}, holds, Leased, Taken)
      BY <1>2, <1>5, <2>2, <3>1, QueueToNowhere
    <3> QED
      BY <2>1, <2>2, <2>6, <3>1, <3>2, <3>3, <3>4 DEF PoolInv, SessionPart, PlaceInv, callerVars
  <2> QED
    BY <1>5, <2>5, <2>6 DEF AcquireTakes, r
<1>6. CASE ~closed /\ CallEnds(c)
  <2> DEFINE r == holds[c]
  <2>1. phase[c] = "holding" /\ phase' = [phase EXCEPT ![c] = "out"]
        /\ holds' = [holds EXCEPT ![c] = NoReplica] /\ UNCHANGED closed
    BY <1>6 DEF CallEnds, CallReturns, CallDies, CallRaises, Enter
  <2>2. r \in Replicas /\ r # NoReplica /\ status[r] = "busy"
    BY <1>2, <1>3, <1>6, <2>1 DEF HoldInv, Homes
  <2>3. HoldInv' /\ phase' \in [Callers -> {"out", "waiting", "holding"}]
        /\ holds' \in [Callers -> Replicas \cup {NoReplica}]
    BY <1>3, <2>1 DEF HoldInv, PoolTypeOK
  <2>4. \A k \in Conns : At(k, "calling") => lease[conn[k].lease].replica # r
    BY <2>2, CallsAreApart
  <2>5. CASE CallReturns(c)
    <3>1. status' = [status EXCEPT ![r] = "idle"] /\ available' = Append(available, r)
          /\ UNCHANGED <<alive, liveCount>>
      BY <1>6, <2>5 DEF CallReturns
    <3>2. r \notin Q /\ Homes(status', Q \cup {r}, holds', Leased, Taken)
      BY <1>2, <1>6, <2>1, <2>2, <3>1, CallerToQueue
    <3>3. available' \in Seq(Replicas) /\ Distinct(available') /\ Members(available') = Q \cup {r}
      <4>1. r \notin Members(available)
        BY <3>2 DEF Q
      <4>2. /\ Append(available, r) \in Seq(Replicas) /\ Distinct(Append(available, r))
            /\ Members(Append(available, r)) = Members(available) \cup {r}
        <5>1. available \in Seq(Replicas) /\ Distinct(available) /\ r \in Replicas
          BY <1>2, <2>2
        <5> HIDE DEF r
        <5> QED
          BY ONLY <4>1, <5>1, AppendFacts
      <4> QED
        BY <3>1, <4>2 DEF Q
    <3>4. status' \in [Replicas -> ReplicaStatus] /\ LiveCountIsRight'
      BY <1>3, <2>2, <3>1, LiveStays DEF ReplicaStatus
    <3>5. PoolTypeOK'
      BY <1>3, <2>1, <2>3, <3>1, <3>3, <3>4 DEF PoolTypeOK
    <3>6. SessionPart' /\ Leased' = Leased /\ Taken' = Taken
      <4>1. \A k \in Conns : At(k, "calling") =>
              status'[lease[conn[k].lease].replica] = status[lease[conn[k].lease].replica]
        BY <1>3, <2>4, <3>1 DEF PoolTypeOK
      <4> QED
        BY <1>1, <2>1, <4>1, SessionPartStays
    <3> QED
      BY <2>1, <2>3, <3>2, <3>3, <3>4, <3>5, <3>6 DEF PoolInv, SessionPart, PlaceInv
  <2>6. CASE CallDies(c)
    <3>1. Evict(r) /\ UNCHANGED available
      BY <1>6, <2>6 DEF CallDies
    <3>2. /\ status' = [status EXCEPT ![r] = "dead"] /\ alive' \in SUBSET Replicas
          /\ status' \in [Replicas -> ReplicaStatus]
          /\ liveCount' \in 0 .. NumReplicas /\ LiveCountIsRight'
      BY <1>3, <2>2, <3>1, EvictFacts
    <3>3. Homes(status', Q, holds', Leased, Taken)
      BY <1>2, <1>6, <2>1, <2>2, <3>2, CallerToNowhere
    <3>4. PoolTypeOK'
      BY <1>3, <2>1, <2>3, <3>1, <3>2 DEF PoolTypeOK
    <3>5. SessionPart' /\ Leased' = Leased /\ Taken' = Taken
      <4>1. \A k \in Conns : At(k, "calling") =>
              status'[lease[conn[k].lease].replica] = status[lease[conn[k].lease].replica]
        BY <1>3, <2>4, <3>2 DEF PoolTypeOK
      <4> QED
        BY <1>1, <2>1, <4>1, SessionPartStays
    <3> QED
      BY <1>2, <2>1, <2>3, <3>1, <3>2, <3>3, <3>4, <3>5 DEF PoolInv, SessionPart, PlaceInv, Q
  <2>7. CASE CallRaises(c)
    <3>1. UNCHANGED <<status, alive, liveCount, available>>
      BY <2>7 DEF CallRaises, replicaVars
    <3>2. Homes(status', Q, holds', Leased, Taken)
      BY <1>2, <1>6, <2>1, <2>2, <3>1, CallerToNowhere
    <3>3. PoolTypeOK' /\ LiveCountIsRight'
      BY <1>3, <2>1, <2>3, <3>1 DEF PoolTypeOK, LiveCountIsRight, LiveReplicas
    <3>4. SessionPart' /\ Leased' = Leased /\ Taken' = Taken
      BY <1>1, <2>1, <3>1, SessionPartStays
    <3> QED
      BY <1>2, <2>1, <2>3, <3>1, <3>2, <3>3, <3>4 DEF PoolInv, SessionPart, PlaceInv, Q
  <2> QED
    BY <1>6, <2>5, <2>6, <2>7 DEF CallEnds
<1> QED
  BY <1>4, <1>5, <1>6 DEF Caller

LEMMA DiesKeepsInv ==
    ASSUME PoolInv, NEW r \in Replicas, Dies(r), SessionsUnchanged
    PROVE  PoolInv'
<1>1. alive' = alive \ {r} /\ UNCHANGED <<status, liveCount, available, phase, holds, closed>>
      /\ UNCHANGED <<leaseVars, conn, shutdown, remaining>>
  BY DEF Dies, callerVars, SessionsUnchanged
<1>2. PoolTypeOK' /\ HoldInv' /\ LiveCountIsRight'
  BY <1>1 DEF PoolInv, PoolTypeOK, HoldInv, LiveCountIsRight, LiveReplicas
<1>3. SessionPart' /\ Leased' = Leased /\ Taken' = Taken
  BY <1>1, SessionPartStays
<1>4. PlaceInv'
  BY <1>1, <1>3 DEF PoolInv, PlaceInv
<1> QED
  BY <1>2, <1>3, <1>4 DEF PoolInv, SessionPart

--------------------------------------------------------------------------------
(* The steps of the connections.                                           *)

\* How connection k leaves the lease table after a step given `locks' and the
\* table `bound'.
Shape(k, locks, bound) ==
  /\ binding' = bound
  /\ conn' \in [Conns -> ConnRecs] /\ \A m \in Conns : m # k => conn'[m] = conn[m]
  /\ conn'[k].at \in {"idle", "open", "locking", "releasing"}
  /\ conn'[k].at # "idle" => conn'[k].session \in Sessions
  /\ conn'[k].at \in {"locking", "releasing"} => conn'[k].lease \in Leases
  /\ lease' \in [Leases -> LeaseRecs]
  /\ \A s \in Sessions : bound[s] # NoLease =>
       /\ lease'[bound[s]].replica = lease[bound[s]].replica
       /\ lease[bound[s]].closing => lease'[bound[s]].closing
  /\ locked' \in [Leases -> Seq(Conns \cup {Closer})]
  /\ \A l \in Leases : locked'[l] = locks[l] \/ locked'[l] = Append(locks[l], k)

\* The connection gives up at most the lock it has and the lease it has the lock of.
LockStep(k, locks) ==
  locks = locked \/ \E l \in Leases : HasLock(k, l) /\ locks = Unlocked(l)
BoundStep(k, bound) ==
  \/ bound = binding
  \/ \E s \in Sessions : binding[s] # NoLease /\ HasLock(k, binding[s]) /\ bound = Pop(s)

CallsKeepStatus(k) ==
  \A m \in Conns : At(m, "calling") /\ m # k =>
    status'[lease[conn[m].lease].replica] = status[lease[conn[m].lease].replica]

LEMMA LocksStay ==
    ASSUME PoolInv, NEW k \in Conns, NEW locks, LockStep(k, locks), NEW l \in Leases,
           locked'[l] = locks[l] \/ locked'[l] = Append(locks[l], k),
           NEW m \in Conns, m # k, HasLock(m, l)
    PROVE  HasLock(m, l)'
<1>1. locked[l] # << >> /\ Head(locked[l]) = m /\ locked[l] \in Seq(Conns \cup {Closer})
  BY DEF HasLock, PoolInv, LeaseTypes
<1>2. locks[l] = locked[l]
  <2>1. ASSUME NEW n \in Leases, HasLock(k, n), locks = Unlocked(n) PROVE locks[l] = locked[l]
    <3>1. n # l
      BY <1>1, <2>1 DEF HasLock
    <3> QED
      BY <2>1, <3>1 DEF Unlocked, PoolInv, LeaseTypes
  <2> QED
    BY <2>1 DEF LockStep
<1>3. /\ Append(locked[l], k) # << >> /\ Head(Append(locked[l], k)) = Head(locked[l])
  BY <1>1
<1> QED
  BY <1>1, <1>2, <1>3 DEF HasLock

LEMMA ShapeKeeps ==
    ASSUME PoolInv, NEW k \in Conns, NEW locks, NEW bound,
           Shape(k, locks, bound), LockStep(k, locks), BoundStep(k, bound),
           opening' = opening \/ (Opening(k) /\ opening' = opening \ {conn[k].session}),
           UNCHANGED <<closed, shutdown, remaining>>, CallsKeepStatus(k)
    PROVE  /\ SessionPart' /\ Taken' = [Taken EXCEPT ![k] = NoReplica]
           /\ bound = binding => Leased' = Leased
           /\ \A s \in Sessions : bound = Pop(s) => Leased' = [Leased EXCEPT ![s] = NoReplica]
<1> USE DEF Shape
<1>1. /\ binding \in [Sessions -> Leases \cup {NoLease}] /\ bound \in [Sessions -> Leases \cup {NoLease}]
      /\ \A s \in Sessions : bound[s] = binding[s] \/ bound[s] = NoLease
  BY DEF BoundStep, Pop, PoolInv, LeaseTypes
<1>2. LeaseTypes'
  BY <1>1 DEF PoolInv, LeaseTypes
<1>3. TableInv'
  BY <1>1 DEF PoolInv, TableInv
<1>4. ConnInv'
  <2> SUFFICES ASSUME NEW m \in Conns
               PROVE  /\ conn'[m].at \in {"locking", "calling", "releasing"} => conn'[m].lease \in Leases
                      /\ conn'[m].at # "idle" => conn'[m].session \in Sessions
                      /\ conn'[m].at = "taken" => conn'[m].replica \in Replicas
                      /\ ~closed /\ Opening(m)' =>
                           /\ conn'[m].session \in opening' /\ bound[conn'[m].session] = NoLease
                           /\ \A n \in Conns : Opening(n)' /\ conn'[n].session = conn'[m].session => n = m
    BY DEF ConnInv, At
  <2>1. CASE m = k
    BY <2>1 DEF Opening
  <2>2. CASE m # k
    <3>1. conn'[m] = conn[m]
      BY <2>2
    <3>2. ASSUME ~closed, Opening(m)
          PROVE  /\ conn[m].session \in opening /\ bound[conn[m].session] = NoLease
                 /\ conn[m].session \in Sessions
                 /\ \A n \in Conns : Opening(n) /\ conn[n].session = conn[m].session => n = m
      BY <1>1, <3>2 DEF PoolInv, ConnInv, Opening
    <3>3. \A n \in Conns : Opening(n)' => Opening(n) /\ conn'[n] = conn[n]
      BY DEF Opening
    <3>4. ~closed /\ Opening(m) => conn[m].session \in opening'
      BY <2>2, <3>2
    <3>5. ~closed /\ Opening(m)' =>
            \A n \in Conns : Opening(n)' /\ conn'[n].session = conn'[m].session => n = m
      BY <3>1, <3>2, <3>3
    <3>6. /\ conn[m].at \in {"locking", "calling", "releasing"} => conn[m].lease \in Leases
          /\ conn[m].at # "idle" => conn[m].session \in Sessions
          /\ conn[m].at = "taken" => conn[m].replica \in Replicas
      BY DEF PoolInv, ConnInv, At
    <3> QED
      BY <3>1, <3>2, <3>3, <3>4, <3>5, <3>6
  <2> QED
    BY <2>1, <2>2
<1>5. CallInv'
  <2> SUFFICES ASSUME NEW m \in Conns, At(m, "calling")'
               PROVE  /\ binding'[conn'[m].session] = conn'[m].lease
                      /\ HasLock(m, conn[m].lease)' /\ conn'[m].lease = conn[m].lease
                      /\ ~closed /\ status'[lease'[conn'[m].lease].replica] = "session_busy"
                      /\ shutdown => conn'[m].lease \in remaining
    BY DEF CallInv, CallsKeepTheirLease, HasLock
  <2>1. m # k /\ conn'[m] = conn[m] /\ At(m, "calling")
    BY DEF At
  <2>2. /\ binding[conn[m].session] = conn[m].lease /\ HasLock(m, conn[m].lease) /\ ~closed
        /\ status[lease[conn[m].lease].replica] = "session_busy"
        /\ shutdown => conn[m].lease \in remaining
    BY <2>1 DEF PoolInv, CallInv, CallsKeepTheirLease
  <2>3. conn[m].lease \in Leases /\ conn[m].session \in Sessions
    BY <2>1 DEF PoolInv, ConnInv, At
  <2>4. bound[conn[m].session] = conn[m].lease
    <3>1. ASSUME NEW s \in Sessions, HasLock(k, binding[s]), bound = Pop(s)
          PROVE  bound[conn[m].session] = conn[m].lease
      <4>1. s # conn[m].session
        BY <2>1, <2>2, <3>1 DEF HasLock
      <4> QED
        BY <1>1, <2>2, <2>3, <3>1, <4>1 DEF Pop
    <3> QED
      BY <2>2, <3>1 DEF BoundStep
  <2>5. conn[m].lease # NoLease
    BY <2>3
  <2>6. lease'[conn[m].lease].replica = lease[conn[m].lease].replica
    BY <2>3, <2>4, <2>5
  <2>7. HasLock(m, conn[m].lease)'
    <3>1. locked'[conn[m].lease] = locks[conn[m].lease]
            \/ locked'[conn[m].lease] = Append(locks[conn[m].lease], k)
      BY <2>3
    <3> DEFINE l == conn[m].lease
    <3>2. HasLock(m, l) /\ l \in Leases
      BY <2>2, <2>3
    <3>3. (locked'[l] # << >> /\ Head(locked'[l]) = m)
      <4> HIDE DEF l
      <4>1. locked'[l] = locks[l] \/ locked'[l] = Append(locks[l], k)
        BY <3>1 DEF l
      <4> QED
        BY <2>1, <3>2, <4>1, LocksStay DEF HasLock
    <3> QED
      BY <2>1, <3>3 DEF HasLock
  <2> QED
    BY <2>1, <2>2, <2>4, <2>6, <2>7 DEF CallsKeepStatus
<1>6. Taken' = [Taken EXCEPT ![k] = NoReplica]
  BY DEF Taken, At
<1>7. /\ bound = binding => Leased' = Leased
      /\ \A s \in Sessions : bound = Pop(s) => Leased' = [Leased EXCEPT ![s] = NoReplica]
  <2>1. \A s \in Sessions : Leased'[s] =
          IF bound[s] = NoLease THEN NoReplica ELSE lease[bound[s]].replica
    BY DEF Leased
  <2>2. Leased' = [s \in Sessions |-> Leased'[s]] /\ Leased = [s \in Sessions |-> Leased[s]]
    BY DEF Leased
  <2>3. \A s \in Sessions : Leased[s] =
          IF binding[s] = NoLease THEN NoReplica ELSE lease[binding[s]].replica
    BY DEF Leased
  <2>4. ASSUME bound = binding PROVE Leased' = Leased
    <3>1. \A s \in Sessions : Leased'[s] = Leased[s]
      BY <2>1, <2>3, <2>4
    <3> QED
      BY ONLY <2>2, <3>1
  <2>5. ASSUME NEW t \in Sessions, bound = Pop(t)
        PROVE  Leased' = [Leased EXCEPT ![t] = NoReplica]
    <3>1. \A s \in Sessions : bound[s] = IF s = t THEN NoLease ELSE binding[s]
      BY <1>1, <2>5 DEF Pop
    <3>2. \A s \in Sessions : Leased'[s] = IF s = t THEN NoReplica ELSE Leased[s]
      BY ONLY <2>1, <2>3, <3>1
    <3> HIDE DEF Leased
    <3>3. Leased' = [s \in Sessions |-> IF s = t THEN NoReplica ELSE Leased[s]]
      BY ONLY <2>2, <3>2
    <3>4. [Leased EXCEPT ![t] = NoReplica] = [s \in Sessions |-> IF s = t THEN NoReplica ELSE Leased[s]]
      BY ONLY <2>2
    <3> QED
      BY <3>3, <3>4
  <2> QED
    BY <2>4, <2>5
<1> QED
  BY <1>2, <1>3, <1>4, <1>5, <1>6, <1>7 DEF SessionPart

\* CloseSession and AfterCall leave a Shape.
LEMMA CloseHasShape ==
    ASSUME LeaseTypes, NEW k \in Conns, conn[k].session \in Sessions,
           NEW locks \in [Leases -> Seq(Conns \cup {Closer})],
           NEW bound \in [Sessions -> Leases \cup {NoLease}],
           NEW done \in {Idle, Open(conn[k].session)}, CloseSession(k, locks, bound, done)
    PROVE  Shape(k, locks, bound)
<1> DEFINE s == conn[k].session
           l == bound[s]
           to == [done EXCEPT !.at = "releasing", !.session = s, !.lease = l, !.ok = done.at = "idle"]
<1>1. done \in ConnRecs /\ done.at \in {"idle", "open"} /\ (done.at # "idle" => done.session = s)
  <2>1. Idle \in ConnRecs /\ Idle.at = "idle"
    BY DEF Idle, ConnRecs, Places, Ops
  <2>2. Open(s) \in ConnRecs /\ Open(s).at = "open" /\ Open(s).session = s
    BY DEF Idle, Open, ConnRecs, Places, Ops
  <2> QED
    BY <2>1, <2>2
<1>2. /\ conn \in [Conns -> ConnRecs] /\ lease \in [Leases -> LeaseRecs]
      /\ l \in Leases \cup {NoLease} /\ s \in Sessions
  BY DEF LeaseTypes
<1>3. CASE /\ locked' = locks /\ lease' = Forgotten(bound) /\ conn' = [conn EXCEPT ![k] = done]
           /\ binding' = bound
  <2>1. NewLease(NoReplica) \in LeaseRecs
    BY DEF NewLease, LeaseRecs
  <2>2. Forgotten(bound) \in [Leases -> LeaseRecs]
    BY <1>2, <2>1 DEF Forgotten
  <2>3. \A t \in Sessions : bound[t] # NoLease => Forgotten(bound)[bound[t]] = lease[bound[t]]
    BY DEF Forgotten
  <2>4. \A x \in Leases : locked'[x] = locks[x]
    BY <1>3
  <2>5. conn' \in [Conns -> ConnRecs] /\ conn'[k] = done /\ \A m \in Conns : m # k => conn'[m] = conn[m]
    BY ONLY <1>1, <1>2, <1>3
  <2> QED
    BY <1>1, <1>2, <1>3, <2>2, <2>3, <2>4, <2>5 DEF Shape
<1>4. CASE /\ l # NoLease /\ ~lease[l].closing /\ binding' = bound
           /\ locked' = [locks EXCEPT ![l] = Append(@, k)]
           /\ lease' = [lease EXCEPT ![l].closing = TRUE]
           /\ conn' = [conn EXCEPT ![k] = to]
  <2>1. l \in Leases /\ lease[l] \in LeaseRecs
    BY <1>2, <1>4
  <2>2. /\ lease' \in [Leases -> LeaseRecs]
        /\ \A x \in Leases : /\ lease'[x].replica = lease[x].replica
                             /\ lease[x].closing => lease'[x].closing
    BY <1>2, <1>4, <2>1 DEF LeaseRecs
  <2>3. \A t \in Sessions : bound[t] # NoLease => bound[t] \in Leases
    OBVIOUS
  <2>4. /\ to \in ConnRecs /\ to.at = "releasing" /\ to.session = s /\ to.lease = l
    BY <1>1, <1>2, <2>1 DEF ConnRecs, Places
  <2>5. conn' \in [Conns -> ConnRecs] /\ conn'[k] = to /\ \A m \in Conns : m # k => conn'[m] = conn[m]
    BY ONLY <1>2, <1>4, <2>4
  <2>6. /\ locked' \in [Leases -> Seq(Conns \cup {Closer})]
        /\ \A x \in Leases : locked'[x] = locks[x] \/ locked'[x] = Append(locks[x], k)
    <3>1. Append(locks[l], k) \in Seq(Conns \cup {Closer})
      <4>1. locks[l] \in Seq(Conns \cup {Closer}) /\ k \in Conns \cup {Closer}
        BY <2>1
      <4> QED
        BY ONLY <4>1
    <3> QED
      BY <1>4, <2>1, <3>1
  <2> HIDE DEF to, l
  <2> QED
    BY <1>2, <1>4, <2>1, <2>2, <2>3, <2>4, <2>5, <2>6 DEF Shape
<1> QED
  BY <1>3, <1>4 DEF CloseSession

LEMMA AfterCallHasShape ==
    ASSUME LeaseTypes, NEW k \in Conns, conn[k].session \in Sessions, NEW ok \in BOOLEAN,
           NEW locks \in [Leases -> Seq(Conns \cup {Closer})],
           NEW bound \in [Sessions -> Leases \cup {NoLease}],
           AfterCall(k, ok, locks, bound)
    PROVE  Shape(k, locks, bound)
<1> DEFINE s == conn[k].session
           done == IF conn[k].op = "CLOSE" /\ ~ok THEN Open(s) ELSE Idle
<1>1. CASE CloseSession(k, locks, bound, done)
  <2>1. done \in {Idle, Open(s)}
    OBVIOUS
  <2> HIDE DEF done
  <2> QED
    BY <1>1, <2>1, CloseHasShape
<1>2. CASE /\ conn' = [conn EXCEPT ![k] = Open(s)] /\ locked' = locks /\ binding' = bound
           /\ lease' = Forgotten(bound)
  <2>1. NewLease(NoReplica) \in LeaseRecs
    BY DEF NewLease, LeaseRecs
  <2>2. Forgotten(bound) \in [Leases -> LeaseRecs]
    BY <2>1 DEF Forgotten, LeaseTypes
  <2>3. \A t \in Sessions : bound[t] # NoLease => Forgotten(bound)[bound[t]] = lease[bound[t]]
    BY DEF Forgotten
  <2>4. Open(s) \in ConnRecs /\ Open(s).at = "open" /\ Open(s).session = s
    BY DEF Idle, Open, ConnRecs, Places, Ops
  <2>5. conn' \in [Conns -> ConnRecs] /\ conn'[k] = Open(s)
        /\ \A m \in Conns : m # k => conn'[m] = conn[m]
    BY <1>2, <2>4 DEF LeaseTypes
  <2> QED
    BY <1>2, <2>2, <2>3, <2>4, <2>5 DEF Shape
<1> QED
  BY <1>1, <1>2 DEF AfterCall

\* The lock queue a connection leaves.
LEMMA UnlockedFacts ==
    ASSUME LeaseTypes, NEW l \in Leases, locked[l] # << >>
    PROVE  Unlocked(l) \in [Leases -> Seq(Conns \cup {Closer})]
<1>1. Tail(locked[l]) \in Seq(Conns \cup {Closer})
  <2>1. locked[l] \in Seq(Conns \cup {Closer})
    BY DEF LeaseTypes
  <2> QED
    BY ONLY <2>1, locked[l] # << >>
<1> QED
  BY <1>1 DEF Unlocked, LeaseTypes

LEMMA PopFacts ==
    ASSUME LeaseTypes, NEW s \in Sessions
    PROVE  Pop(s) \in [Sessions -> Leases \cup {NoLease}]
BY DEF Pop, LeaseTypes

\* _return_available_replica.
LEMMA GiveBackFacts ==
    ASSUME PoolPart, NEW r, available \in Seq(Replicas), Distinct(available), GiveBack(r),
           ~closed => r \in Replicas /\ status[r] # "dead" /\ r \notin Members(available),
           UNCHANGED <<phase, holds, closed>>
    PROVE  /\ PoolPart' /\ Distinct(available')
           /\ \/ closed /\ UNCHANGED <<status, available>>
              \/ /\ ~closed /\ status' = [status EXCEPT ![r] = "idle"]
                 /\ Members(available') = Members(available) \cup {r}
              \/ ~closed /\ status' = [status EXCEPT ![r] = "dead"] /\ available' = available
<1> USE DEF PoolPart
<1>1. CASE closed
  BY <1>1 DEF GiveBack, replicaVars, PoolTypeOK, HoldInv, LiveCountIsRight, LiveReplicas
<1>2. CASE ~closed /\ r \in alive
  <2>1. status' = [status EXCEPT ![r] = "idle"] /\ available' = Append(available, r)
        /\ UNCHANGED <<alive, liveCount>>
    BY <1>2 DEF GiveBack
  <2>2. available' \in Seq(Replicas) /\ Distinct(available')
        /\ Members(available') = Members(available) \cup {r}
    <3>1. r \in Replicas /\ r \notin Members(available)
      BY <1>2
    <3>2. /\ Append(available, r) \in Seq(Replicas) /\ Distinct(Append(available, r))
          /\ Members(Append(available, r)) = Members(available) \cup {r}
      BY <3>1, AppendFacts
    <3> QED
      BY <2>1, <3>2
  <2>3. status' \in [Replicas -> ReplicaStatus] /\ LiveCountIsRight'
    BY <1>2, <2>1, LiveStays DEF ReplicaStatus
  <2> QED
    BY <1>2, <2>1, <2>2, <2>3 DEF PoolTypeOK, HoldInv
<1>3. CASE ~closed /\ r \notin alive
  <2>1. Evict(r) /\ available' = available
    BY <1>3 DEF GiveBack
  <2>2. /\ status' = [status EXCEPT ![r] = "dead"] /\ alive' \in SUBSET Replicas
        /\ status' \in [Replicas -> ReplicaStatus]
        /\ liveCount' \in 0 .. NumReplicas /\ LiveCountIsRight'
    BY <1>3, <2>1, EvictFacts
  <2> QED
    BY <1>3, <2>1, <2>2 DEF PoolTypeOK, HoldInv
<1> QED
  BY <1>1, <1>2, <1>3

\* A step on the lease table that leaves the pool alone.
LEMMA TableStepKeeps ==
    ASSUME PoolInv, NEW k \in Conns, NEW locks, Shape(k, locks, binding), LockStep(k, locks),
           opening' = opening \/ (Opening(k) /\ opening' = opening \ {conn[k].session}),
           UNCHANGED <<poolVars, shutdown, remaining>>, ~At(k, "taken")
    PROVE  PoolInv'
<1> USE DEF poolVars, replicaVars, callerVars
<1>1. PoolTypeOK' /\ HoldInv' /\ LiveCountIsRight'
  BY DEF PoolInv, PoolTypeOK, HoldInv, LiveCountIsRight, LiveReplicas
<1>2. BoundStep(k, binding) /\ CallsKeepStatus(k)
  BY DEF BoundStep, CallsKeepStatus
<1>3. SessionPart' /\ Taken' = [Taken EXCEPT ![k] = NoReplica] /\ Leased' = Leased
  BY <1>2, ShapeKeeps
<1>4. Taken' = Taken
  <2>1. Taken[k] = NoReplica
    BY DEF Taken
  <2>2. Taken = [m \in Conns |-> Taken[m]]
    BY DEF Taken
  <2> HIDE DEF Taken
  <2> QED
    BY ONLY <1>3, <2>1, <2>2
<1>5. PlaceInv'
  BY <1>3, <1>4 DEF PoolInv, PlaceInv
<1> QED
  BY <1>1, <1>3, <1>5 DEF PoolInv, SessionPart

\* What a connection that is not idle has.
LEMMA ConnFacts ==
    ASSUME PoolInv, NEW k \in Conns
    PROVE  /\ LeaseTypes /\ conn[k] \in ConnRecs /\ conn \in [Conns -> ConnRecs]
           /\ conn[k].at # "idle" => conn[k].session \in Sessions
           /\ conn[k].at \in {"locking", "calling", "releasing"} => conn[k].lease \in Leases
           /\ locked \in [Leases -> Seq(Conns \cup {Closer})]
           /\ binding \in [Sessions -> Leases \cup {NoLease}] /\ lease \in [Leases -> LeaseRecs]
BY DEF PoolInv, ConnInv, LeaseTypes

\* A connection joins the queue of a lease's lock.
LEMMA JoinsLock ==
    ASSUME PoolInv, NEW k \in Conns, NEW l \in Leases,
           locked' = [locked EXCEPT ![l] = Append(@, k)]
    PROVE  /\ locked' \in [Leases -> Seq(Conns \cup {Closer})]
           /\ \A x \in Leases : locked'[x] = locked[x] \/ locked'[x] = Append(locked[x], k)
<1>1. locked[l] \in Seq(Conns \cup {Closer}) /\ locked \in [Leases -> Seq(Conns \cup {Closer})]
  BY DEF PoolInv, LeaseTypes
<1>2. Append(locked[l], k) \in Seq(Conns \cup {Closer})
  <2>1. k \in Conns \cup {Closer}
    OBVIOUS
  <2> QED
    BY ONLY <1>1, <2>1
<1> QED
  BY <1>1, <1>2

LEMMA LeavesKeepsInv ==
    ASSUME PoolInv, NEW k \in Conns, Leaves(k)
    PROVE  PoolInv'
<1>1. /\ conn' = [conn EXCEPT ![k] = Idle] /\ conn[k].at = "open"
      /\ UNCHANGED <<poolVars, binding, opening, lease, locked, shutdown, remaining>>
  BY DEF Leaves, leaseVars, At
<1>2. Idle \in ConnRecs /\ Idle.at = "idle"
  BY DEF Idle, ConnRecs, Places, Ops
<1>3. Shape(k, locked, binding)
  BY <1>1, <1>2, ConnFacts DEF Shape
<1> QED
  BY <1>1, <1>3, TableStepKeeps DEF LockStep, At

LEMMA RefusedKeepsInv ==
    ASSUME PoolInv, NEW k \in Conns, NEW s \in Sessions, OpenRefused(k, s)
    PROVE  PoolInv'
<1> DEFINE to == [Idle EXCEPT !.at = "releasing", !.session = s, !.lease = binding[s], !.ok = TRUE]
<1>1. /\ conn' = [conn EXCEPT ![k] = to] /\ conn[k].at = "idle" /\ binding[s] # NoLease
      /\ locked' = [locked EXCEPT ![binding[s]] = Append(@, k)]
      /\ lease' = [lease EXCEPT ![binding[s]].closing = TRUE]
      /\ UNCHANGED <<poolVars, binding, opening, shutdown, remaining>>
  BY DEF OpenRefused, Usable, At
<1>2. binding[s] \in Leases /\ lease[binding[s]] \in LeaseRecs
  BY <1>1, ConnFacts
<1>3. to \in ConnRecs /\ to.at = "releasing" /\ to.session = s /\ to.lease = binding[s]
  BY <1>2 DEF Idle, ConnRecs, Places, Ops
<1>4. /\ locked' \in [Leases -> Seq(Conns \cup {Closer})]
      /\ \A x \in Leases : locked'[x] = locked[x] \/ locked'[x] = Append(locked[x], k)
  BY <1>1, <1>2, JoinsLock
<1>5. /\ lease' \in [Leases -> LeaseRecs]
      /\ \A x \in Leases : /\ lease'[x].replica = lease[x].replica
                           /\ lease[x].closing => lease'[x].closing
  BY <1>1, <1>2, ConnFacts DEF LeaseRecs
<1>6. \A t \in Sessions : binding[t] # NoLease => binding[t] \in Leases
  BY ConnFacts
<1> HIDE DEF to
<1>7. conn' \in [Conns -> ConnRecs] /\ conn'[k] = to /\ \A m \in Conns : m # k => conn'[m] = conn[m]
  BY <1>1, <1>3, ConnFacts
<1>8. Shape(k, locked, binding)
  BY <1>1, <1>2, <1>3, <1>4, <1>5, <1>6, <1>7 DEF Shape
<1> QED
  BY <1>1, <1>8, TableStepKeeps DEF LockStep, At

LEMMA CallBeginsKeepsInv ==
    ASSUME PoolInv, NEW k \in Conns, NEW op \in Ops, CallBegins(k, op)
    PROVE  PoolInv'
<1> DEFINE l == binding[conn[k].session]
           to == [conn[k] EXCEPT !.at = "locking", !.op = op, !.lease = l]
<1>1. /\ conn[k].at = "open" /\ l # NoLease
      /\ conn' = [conn EXCEPT ![k].at = "locking", ![k].op = op, ![k].lease = l]
      /\ locked' = [locked EXCEPT ![l] = Append(@, k)]
      /\ UNCHANGED <<poolVars, binding, opening, lease, shutdown, remaining>>
  BY DEF CallBegins, Usable, At
<1>2. conn[k].session \in Sessions /\ l \in Leases /\ conn[k] \in ConnRecs
  BY <1>1, ConnFacts
<1>3. to \in ConnRecs /\ to.at = "locking" /\ to.session = conn[k].session /\ to.lease = l
  BY <1>2 DEF ConnRecs, Places
<1>4. conn' = [conn EXCEPT ![k] = to]
  BY <1>1, <1>2, ConnFacts DEF ConnRecs
<1>5. /\ locked' \in [Leases -> Seq(Conns \cup {Closer})]
      /\ \A x \in Leases : locked'[x] = locked[x] \/ locked'[x] = Append(locked[x], k)
  <2> HIDE DEF l
  <2> QED
    BY <1>1, <1>2, JoinsLock
<1> HIDE DEF to
<1>6. conn' \in [Conns -> ConnRecs] /\ conn'[k] = to /\ \A m \in Conns : m # k => conn'[m] = conn[m]
  BY <1>3, <1>4, ConnFacts
<1>7. Shape(k, locked, binding)
  BY <1>1, <1>2, <1>3, <1>5, <1>6, ConnFacts DEF Shape
<1> QED
  BY <1>1, <1>7, TableStepKeeps DEF LockStep, At

LEMMA AbortsKeepsInv ==
    ASSUME PoolInv, NEW k \in Conns, OpenAborts(k)
    PROVE  PoolInv'
<1>1. /\ conn[k].at = "taking" /\ opening' = opening \ {conn[k].session}
      /\ CloseSession(k, locked, binding, Idle) /\ UNCHANGED <<poolVars, shutdown, remaining>>
  BY DEF OpenAborts, At
<1>2. Shape(k, locked, binding)
  BY <1>1, ConnFacts, CloseHasShape
<1> QED
  BY <1>1, <1>2, TableStepKeeps DEF LockStep, At, Opening

LEMMA OpenBeginsKeepsInv ==
    ASSUME PoolInv, NEW k \in Conns, NEW s \in Sessions, OpenBegins(k, s)
    PROVE  PoolInv'
<1> DEFINE to == [Idle EXCEPT !.at = "taking", !.session = s]
<1>1. /\ conn[k].at = "idle" /\ s \notin opening /\ binding[s] = NoLease /\ ~shutdown
      /\ opening' = opening \cup {s} /\ conn' = [conn EXCEPT ![k] = to]
      /\ UNCHANGED <<poolVars, binding, lease, locked, shutdown, remaining>>
  BY DEF OpenBegins, At
<1> USE DEF poolVars, replicaVars, callerVars
<1>2. PoolTypeOK' /\ HoldInv' /\ LiveCountIsRight'
  BY <1>1 DEF PoolInv, PoolTypeOK, HoldInv, LiveCountIsRight, LiveReplicas
<1>3. to \in ConnRecs /\ to.at = "taking" /\ to.session = s
  BY DEF Idle, ConnRecs, Places, Ops
<1> HIDE DEF to
<1>4. conn' \in [Conns -> ConnRecs] /\ conn'[k] = to /\ \A m \in Conns : m # k => conn'[m] = conn[m]
  BY <1>1, <1>3, ConnFacts
<1>5. LeaseTypes' /\ TableInv'
  BY <1>1, <1>4 DEF PoolInv, LeaseTypes, TableInv
<1>6. ConnInv'
  <2>1. \A m \in Conns : Opening(m) => conn[m].session \in opening \/ closed
    BY DEF PoolInv, ConnInv
  <2>2. ~closed
    BY <1>1 DEF PoolInv, TableInv
  <2> QED
    BY <1>1, <1>3, <1>4, <2>1, <2>2 DEF PoolInv, ConnInv, Opening, At
<1>7. CallInv'
  BY <1>1, <1>3, <1>4 DEF PoolInv, CallInv, CallsKeepTheirLease, HasLock, At
<1>8. Leased' = Leased /\ Taken' = Taken
  <2>1. Leased' = Leased
    BY <1>1 DEF Leased
  <2>2. \A m \in Conns : (IF At(m, "taken") THEN conn[m].replica ELSE NoReplica)'
                          = IF At(m, "taken") THEN conn[m].replica ELSE NoReplica
    BY <1>1, <1>3, <1>4 DEF At
  <2> QED
    BY <2>1, <2>2 DEF Taken
<1>9. PlaceInv'
  BY <1>1, <1>8 DEF PoolInv, PlaceInv
<1> QED
  BY <1>2, <1>5, <1>6, <1>7, <1>9 DEF PoolInv

\* A call in progress has a replica, leased to its session.
LEMMA CallReplicas ==
    ASSUME PoolInv
    PROVE  \A m \in Conns : At(m, "calling") =>
             /\ lease[conn[m].lease].replica \in Replicas /\ conn[m].session \in Sessions
             /\ conn[m].lease \in Leases /\ binding[conn[m].session] = conn[m].lease
             /\ Leased[conn[m].session] = lease[conn[m].lease].replica
<1> SUFFICES ASSUME NEW m \in Conns, At(m, "calling")
             PROVE  /\ lease[conn[m].lease].replica \in Replicas /\ conn[m].session \in Sessions
                    /\ conn[m].lease \in Leases /\ binding[conn[m].session] = conn[m].lease
                    /\ Leased[conn[m].session] = lease[conn[m].lease].replica
  OBVIOUS
<1>1. conn[m].session \in Sessions /\ conn[m].lease \in Leases
  BY DEF PoolInv, ConnInv, At
<1>2. binding[conn[m].session] = conn[m].lease
  BY DEF PoolInv, CallInv, CallsKeepTheirLease
<1>3. lease[conn[m].lease].replica \in Replicas
  BY <1>1, <1>2 DEF PoolInv, TableInv
<1>4. conn[m].lease # NoLease
  BY <1>1
<1> QED
  BY <1>1, <1>2, <1>3, <1>4 DEF Leased

LEMMA TakesKeepsInv ==
    ASSUME PoolInv, NEW k \in Conns, SessionTakes(k)
    PROVE  PoolInv'
<1> DEFINE r == Head(available)
           Q == Members(available)
           to == [conn[k] EXCEPT !.at = "taken", !.replica = r]
<1>1. /\ conn[k].at = "taking" /\ ~shutdown /\ available # << >> /\ available' = Tail(available)
      /\ UNCHANGED <<phase, holds, closed, binding, opening, lease, locked, shutdown, remaining>>
  BY DEF SessionTakes, At, callerVars, leaseVars
<1>2. ~closed /\ PoolTypeOK /\ HoldInv /\ LiveCountIsRight
  BY <1>1 DEF PoolInv, TableInv
<1>3. /\ available \in Seq(Replicas) /\ Distinct(available)
      /\ Mapped(status, Q, holds, Leased, Taken) /\ Homes(status, Q, holds, Leased, Taken)
  BY <1>2, PoolFacts
<1>4. /\ Tail(available) \in Seq(Replicas) /\ Distinct(Tail(available)) /\ r \in Q /\ r \in Replicas
      /\ Members(available') = Q \ {r}
  BY <1>1, <1>3, TailFacts
<1> HIDE DEF Q, r
<1>5. status[r] = "idle"
  BY <1>3, <1>4 DEF Homes
<1>6. CASE /\ conn' = [conn EXCEPT ![k].at = "taken", ![k].replica = r]
           /\ UNCHANGED <<alive, status, liveCount>>
  <2>1. to \in ConnRecs /\ to.at = "taken" /\ to.session = conn[k].session /\ to.replica = r
    BY <1>4, ConnFacts DEF ConnRecs, Places
  <2>2. conn' = [conn EXCEPT ![k] = to]
    BY <1>6, ConnFacts DEF ConnRecs
  <2> HIDE DEF to
  <2>3. conn' \in [Conns -> ConnRecs] /\ conn'[k] = to /\ \A m \in Conns : m # k => conn'[m] = conn[m]
    BY <2>1, <2>2, ConnFacts
  <2>4. PoolTypeOK' /\ HoldInv' /\ LiveCountIsRight'
    BY <1>1, <1>2, <1>4, <1>6 DEF PoolTypeOK, HoldInv, LiveCountIsRight, LiveReplicas
  <2>5. LeaseTypes' /\ TableInv'
    BY <1>1, <2>3 DEF PoolInv, LeaseTypes, TableInv
  <2>6. ConnInv'
    <3>1. \A m \in Conns : (Opening(m)' <=> Opening(m)) /\ conn'[m].session = conn[m].session
      BY <1>1, <2>1, <2>3 DEF Opening
    <3>2. \A m \in Conns : ~closed' /\ Opening(m)' =>
            /\ conn'[m].session \in opening' /\ binding'[conn'[m].session] = NoLease
            /\ \A n \in Conns : Opening(n)' /\ conn'[n].session = conn'[m].session => n = m
      <4>1. \A m \in Conns : ~closed /\ Opening(m) =>
              /\ conn[m].session \in opening /\ binding[conn[m].session] = NoLease
              /\ \A n \in Conns : Opening(n) /\ conn[n].session = conn[m].session => n = m
        BY DEF PoolInv, ConnInv
      <4> QED
        BY <1>1, <3>1, <4>1
    <3>3. \A m \in Conns :
            /\ conn'[m].at \in {"locking", "calling", "releasing"} => conn'[m].lease \in Leases
            /\ conn'[m].at # "idle" => conn'[m].session \in Sessions
            /\ conn'[m].at = "taken" => conn'[m].replica \in Replicas
      BY <1>1, <1>4, <2>1, <2>3 DEF PoolInv, ConnInv, At
    <3> QED
      BY <3>2, <3>3 DEF ConnInv, At
  <2>7. CallInv'
    BY <1>1, <1>6, <2>1, <2>3 DEF PoolInv, CallInv, CallsKeepTheirLease, HasLock, At
  <2>8. Leased' = Leased
    BY <1>1 DEF Leased
  <2>9. Taken[k] = NoReplica /\ Taken' = [Taken EXCEPT ![k] = r]
    BY <1>1, <2>1, <2>3 DEF Taken, At
  <2>10. Homes(status, Q \ {r}, holds, Leased, [Taken EXCEPT ![k] = r])
    BY <1>3, <1>4, <2>9, QueueToConn
  <2>11. PlaceInv'
    BY <1>1, <1>4, <1>6, <2>8, <2>9, <2>10 DEF PlaceInv
  <2> QED
    BY <2>4, <2>5, <2>6, <2>7, <2>11 DEF PoolInv
<1>7. CASE Evict(r) /\ UNCHANGED conn
  <2>1. /\ status' = [status EXCEPT ![r] = "dead"] /\ alive' \in SUBSET Replicas
        /\ status' \in [Replicas -> ReplicaStatus]
        /\ liveCount' \in 0 .. NumReplicas /\ LiveCountIsRight'
    BY <1>2, <1>4, <1>7, EvictFacts
  <2>2. PoolTypeOK' /\ HoldInv'
    BY <1>1, <1>2, <1>4, <2>1 DEF PoolTypeOK, HoldInv
  <2>3. SessionPart' /\ Leased' = Leased /\ Taken' = Taken
    <3>1. \A m \in Conns : At(m, "calling") => lease[conn[m].lease].replica # r
      BY <1>4, <1>5, CallsAreApart
    <3>2. \A m \in Conns : At(m, "calling") =>
            status'[lease[conn[m].lease].replica] = status[lease[conn[m].lease].replica]
      BY <2>1, <3>1, CallReplicas DEF PoolInv, PoolTypeOK
    <3> QED
      BY <1>1, <1>7, <3>2, SessionPartStays DEF leaseVars
  <2>4. Homes(status', Q \ {r}, holds, Leased, Taken)
    BY <1>3, <1>4, <2>1, QueueToNowhere
  <2>5. PlaceInv'
    BY <1>1, <1>4, <2>3, <2>4 DEF PlaceInv
  <2> QED
    BY <2>1, <2>2, <2>3, <2>5 DEF PoolInv, SessionPart
<1> QED
  BY <1>6, <1>7 DEF SessionTakes, r, replicaVars

LEMMA RegistersKeepsInv ==
    ASSUME PoolInv, NEW k \in Conns, Registers(k)
    PROVE  PoolInv'
<1> DEFINE r == conn[k].replica
           s == conn[k].session
<1>1. PICK l \in Unused :
        /\ conn[k].at = "taken" /\ ~shutdown
        /\ lease' = [lease EXCEPT ![l] = NewLease(r)]
        /\ binding' = [binding EXCEPT ![s] = l]
        /\ opening' = opening \ {s}
        /\ status' = [status EXCEPT ![r] = "session_reserved"]
        /\ locked' = [locked EXCEPT ![l] = <<k>>]
        /\ conn' = [conn EXCEPT ![k].at = "locking", ![k].lease = l, ![k].replica = NoReplica]
        /\ UNCHANGED <<alive, liveCount, available, phase, holds, closed, shutdown, remaining>>
  BY DEF Registers, FirstFree, At, callerVars
<1> DEFINE to == [conn[k] EXCEPT !.at = "locking", !.lease = l, !.replica = NoReplica]
<1>2. /\ ~closed /\ PoolTypeOK /\ HoldInv /\ LiveCountIsRight /\ LeaseTypes
      /\ r \in Replicas /\ s \in Sessions /\ binding[s] = NoLease
  BY <1>1 DEF PoolInv, TableInv, ConnInv, Opening, At
<1>3. /\ l \in Leases /\ locked[l] = << >> /\ \A t \in Sessions : binding[t] # l
      /\ \A m \in Conns : conn[m].lease # l
  BY <1>1 DEF Unused
<1>4. /\ Mapped(status, Members(available), holds, Leased, Taken)
      /\ Homes(status, Members(available), holds, Leased, Taken)
  BY <1>2, PoolFacts
<1>5. Leased[s] = NoReplica /\ Taken[k] = r /\ r # NoReplica
  BY <1>1, <1>2, Zero DEF Leased, Taken, At
<1>6. status[r] = "idle"
  BY <1>4, <1>5 DEF Homes
<1>7. status' \in [Replicas -> ReplicaStatus] /\ LiveCountIsRight'
  BY <1>1, <1>2, <1>6, LiveStays DEF ReplicaStatus
<1>8. PoolTypeOK' /\ HoldInv'
  BY <1>1, <1>2, <1>7 DEF PoolTypeOK, HoldInv
<1>9. /\ to \in ConnRecs /\ to.at = "locking" /\ to.session = s /\ to.lease = l
      /\ conn' = [conn EXCEPT ![k] = to]
  BY <1>1, <1>3, ConnFacts DEF ConnRecs, Places
<1> HIDE DEF to
<1>10. conn' \in [Conns -> ConnRecs] /\ conn'[k] = to /\ \A m \in Conns : m # k => conn'[m] = conn[m]
  BY <1>9, ConnFacts
<1>11. NewLease(r) \in LeaseRecs /\ NewLease(r).replica = r /\ lease' \in [Leases -> LeaseRecs]
       /\ lease'[l] = NewLease(r) /\ \A x \in Leases : x # l => lease'[x] = lease[x]
  BY <1>1, <1>2, <1>3 DEF NewLease, LeaseRecs, LeaseTypes
<1>12. /\ binding' \in [Sessions -> Leases \cup {NoLease}]
       /\ binding'[s] = l /\ \A t \in Sessions : t # s => binding'[t] = binding[t]
  BY <1>1, <1>2, <1>3 DEF LeaseTypes
<1>13. LeaseTypes'
  <2>1. <<k>> \in Seq(Conns \cup {Closer})
    OBVIOUS
  <2>2. locked' \in [Leases -> Seq(Conns \cup {Closer})]
    BY <1>1, <1>2, <2>1 DEF LeaseTypes
  <2> QED
    BY <1>1, <1>2, <1>10, <1>11, <1>12, <2>2 DEF LeaseTypes
<1>14. TableInv'
  <2>1. \A t \in Sessions : binding[t] # NoLease =>
          /\ binding[t] \in Leases /\ lease[binding[t]].replica \in Replicas
          /\ \A u \in Sessions : binding[u] = binding[t] => u = t
    BY <1>2 DEF PoolInv, TableInv, LeaseTypes
  <2>2. \A t \in Sessions : binding'[t] # NoLease =>
          /\ lease'[binding'[t]].replica \in Replicas
          /\ \A u \in Sessions : binding'[u] = binding'[t] => u = t
    BY <1>2, <1>3, <1>11, <1>12, <2>1
  <2> QED
    BY <1>1, <1>2, <2>2 DEF TableInv
<1>15. ConnInv'
  <2>1. \A m \in Conns : Opening(m) =>
          /\ conn[m].session \in opening /\ binding[conn[m].session] = NoLease
          /\ conn[m].session \in Sessions
          /\ \A n \in Conns : Opening(n) /\ conn[n].session = conn[m].session => n = m
    BY <1>2 DEF PoolInv, ConnInv, Opening
  <2>2. \A m \in Conns : Opening(m)' => m # k /\ Opening(m) /\ conn'[m] = conn[m]
    BY <1>9, <1>10 DEF Opening
  <2>3. Opening(k)
    BY <1>1 DEF Opening
  <2>4. \A m \in Conns : Opening(m)' => conn[m].session # s
    BY <2>1, <2>2, <2>3
  <2>5. \A m \in Conns : Opening(m)' =>
          /\ conn'[m].session \in opening' /\ binding'[conn'[m].session] = NoLease
          /\ \A n \in Conns : Opening(n)' /\ conn'[n].session = conn'[m].session => n = m
    <3>1. ASSUME NEW m \in Conns, Opening(m)'
          PROVE  conn'[m].session \in opening' /\ binding'[conn'[m].session] = NoLease
      <4>1. conn'[m] = conn[m] /\ Opening(m) /\ conn[m].session # s
        BY <2>2, <2>4, <3>1
      <4>2. conn[m].session \in opening /\ binding[conn[m].session] = NoLease /\ conn[m].session \in Sessions
        BY <2>1, <4>1
      <4> QED
        BY <1>1, <1>12, <4>1, <4>2
    <3>2. ASSUME NEW m \in Conns, Opening(m)', NEW n \in Conns, Opening(n)',
                 conn'[n].session = conn'[m].session
          PROVE  n = m
      <4>1. conn'[m] = conn[m] /\ Opening(m) /\ conn'[n] = conn[n] /\ Opening(n)
        BY <2>2, <3>2
      <4> QED
        BY <2>1, <3>2, <4>1
    <3> QED
      BY <3>1, <3>2
  <2>6. \A m \in Conns :
          /\ conn'[m].at \in {"locking", "calling", "releasing"} => conn'[m].lease \in Leases
          /\ conn'[m].at # "idle" => conn'[m].session \in Sessions
          /\ conn'[m].at = "taken" => conn'[m].replica \in Replicas
    BY <1>2, <1>3, <1>9, <1>10 DEF PoolInv, ConnInv, At
  <2> QED
    BY <2>5, <2>6 DEF ConnInv, At
<1>16. CallInv'
  <2> SUFFICES ASSUME NEW m \in Conns, At(m, "calling")'
               PROVE  /\ binding'[conn'[m].session] = conn'[m].lease
                      /\ HasLock(m, conn[m].lease)' /\ conn'[m].lease = conn[m].lease
                      /\ ~closed' /\ status'[lease'[conn'[m].lease].replica] = "session_busy"
                      /\ ~shutdown'
    BY DEF CallInv, CallsKeepTheirLease, HasLock
  <2>1. m # k /\ conn'[m] = conn[m] /\ At(m, "calling")
    BY <1>9, <1>10 DEF At
  <2>2. /\ HasLock(m, conn[m].lease) /\ status[lease[conn[m].lease].replica] = "session_busy"
    BY <2>1 DEF PoolInv, CallInv, CallsKeepTheirLease
  <2>3. /\ lease[conn[m].lease].replica \in Replicas /\ conn[m].session \in Sessions
        /\ conn[m].lease \in Leases /\ binding[conn[m].session] = conn[m].lease
    BY <2>1, CallReplicas
  <2>4. conn[m].lease # l /\ conn[m].session # s
    BY <1>2, <1>3, <2>3
  <2>5. lease'[conn[m].lease] = lease[conn[m].lease] /\ locked'[conn[m].lease] = locked[conn[m].lease]
        /\ binding'[conn[m].session] = conn[m].lease
    BY <1>1, <1>2, <1>11, <1>12, <2>3, <2>4 DEF LeaseTypes
  <2>6. status'[lease[conn[m].lease].replica] = "session_busy"
    BY <1>1, <1>2, <1>6, <2>2, <2>3 DEF PoolTypeOK
  <2>7. HasLock(m, conn[m].lease)'
    <3>1. conn'[m].lease = conn[m].lease
      BY <2>1
    <3> QED
      BY <2>2, <2>5, <3>1 DEF HasLock
  <2> QED
    BY <1>1, <1>2, <2>1, <2>5, <2>6, <2>7
<1>17. Taken' = [Taken EXCEPT ![k] = NoReplica]
  BY <1>9, <1>10 DEF Taken, At
<1>18. Leased' = [Leased EXCEPT ![s] = r]
  <2>1. \A t \in Sessions : t # s /\ binding[t] # NoLease => binding[t] \in Leases /\ binding[t] # l
    BY <1>2, <1>3 DEF LeaseTypes
  <2>2. \A t \in Sessions : Leased'[t] = IF t = s THEN r ELSE Leased[t]
    <3>1. \A t \in Sessions : Leased'[t] = IF binding'[t] = NoLease THEN NoReplica
                                                                    ELSE lease'[binding'[t]].replica
      BY DEF Leased
    <3>2. l # NoLease
      BY <1>3
    <3> QED
      BY <1>11, <1>12, <2>1, <3>1, <3>2 DEF Leased
  <2>3. Leased' = [t \in Sessions |-> Leased'[t]] /\ Leased = [t \in Sessions |-> Leased[t]]
    BY DEF Leased
  <2> HIDE DEF Leased, r, s
  <2>4. [Leased EXCEPT ![s] = r] = [t \in Sessions |-> IF t = s THEN r ELSE Leased[t]]
    BY ONLY <2>3
  <2> QED
    BY ONLY <2>2, <2>3, <2>4
<1>19. PlaceInv'
  <2>1. Homes([status EXCEPT ![Taken[k]] = "session_reserved"], Members(available), holds,
              [Leased EXCEPT ![s] = Taken[k]], [Taken EXCEPT ![k] = NoReplica])
    BY <1>2, <1>4, <1>5, ConnToLease
  <2>2. Distinct(available)
    BY DEF PoolInv, PlaceInv
  <2> QED
    BY <1>1, <1>5, <1>17, <1>18, <2>1, <2>2 DEF PlaceInv
<1> QED
  BY <1>7, <1>8, <1>13, <1>14, <1>15, <1>16, <1>19 DEF PoolInv

LEMMA RefusedRegistrationKeepsInv ==
    ASSUME PoolInv, NEW k \in Conns, RegisterRefused(k)
    PROVE  PoolInv'
<1> DEFINE r == conn[k].replica
           Q == Members(available)
<1>1. /\ conn[k].at = "taken" /\ opening' = opening \ {conn[k].session}
      /\ GiveBack(r) /\ CloseSession(k, locked, binding, Idle)
      /\ UNCHANGED <<phase, holds, closed, shutdown, remaining>>
  BY DEF RegisterRefused, At, callerVars
<1>2. /\ r \in Replicas /\ PoolPart /\ available \in Seq(Replicas) /\ Distinct(available)
      /\ Mapped(status, Q, holds, Leased, Taken) /\ Taken[k] = r /\ r # NoReplica
      /\ ~closed => Homes(status, Q, holds, Leased, Taken)
  BY <1>1, PoolFacts, Zero DEF PoolInv, ConnInv, At, PoolPart, Taken
<1>3. ~closed => status[r] = "idle" /\ r \notin Q
  BY <1>2 DEF Homes
<1> HIDE DEF r, Q
<1>4. /\ PoolPart' /\ Distinct(available')
      /\ \/ closed /\ UNCHANGED <<status, available>>
         \/ /\ ~closed /\ status' = [status EXCEPT ![r] = "idle"]
            /\ Members(available') = Q \cup {r}
         \/ ~closed /\ status' = [status EXCEPT ![r] = "dead"] /\ available' = available
  BY <1>1, <1>2, <1>3, GiveBackFacts DEF Q
<1>5. Shape(k, locked, binding)
  BY <1>1, ConnFacts, CloseHasShape
<1>6. CallsKeepStatus(k)
  <2>1. closed \/ \A m \in Conns : At(m, "calling") => lease[conn[m].lease].replica # r
    BY <1>2, <1>3, CallsAreApart
  <2>2. status \in [Replicas -> ReplicaStatus]
    BY DEF PoolInv, PoolTypeOK
  <2> QED
    BY <1>4, <2>1, <2>2, CallReplicas DEF CallsKeepStatus
<1>7. SessionPart' /\ Taken' = [Taken EXCEPT ![k] = NoReplica] /\ Leased' = Leased
  BY <1>1, <1>5, <1>6, ShapeKeeps DEF LockStep, BoundStep, Opening
<1>8. PlaceInv'
  <2>1. ~closed => /\ Homes([status EXCEPT ![r] = "idle"], Q \cup {r}, holds, Leased, Taken')
                   /\ Homes([status EXCEPT ![r] = "dead"], Q, holds, Leased, Taken')
    BY <1>2, <1>7, ConnToQueue
  <2> QED
    BY <1>1, <1>4, <1>7, <2>1 DEF PlaceInv, Q
<1> QED
  BY <1>4, <1>7, <1>8 DEF PoolInv, SessionPart, PoolPart

\* Nothing is lost in saying that a connection without a taken replica has none.
LEMMA NotTaken ==
    ASSUME NEW k \in Conns, ~At(k, "taken")
    PROVE  [Taken EXCEPT ![k] = NoReplica] = Taken
<1>1. Taken[k] = NoReplica
  BY DEF Taken
<1>2. Taken = [m \in Conns |-> Taken[m]]
  BY DEF Taken
<1> HIDE DEF Taken
<1> QED
  BY ONLY <1>1, <1>2

\* No other call uses the replica of the lease whose lock the connection has.
LEMMA OtherCalls ==
    ASSUME PoolInv, NEW k \in Conns, NEW s \in Sessions, binding[s] # NoLease, HasLock(k, binding[s])
    PROVE  /\ ~closed /\ binding[s] \in Leases /\ Leased[s] = lease[binding[s]].replica
           /\ Leased[s] \in Replicas /\ Leased[s] # NoReplica /\ status[Leased[s]] \in Reserved
           /\ \A m \in Conns : At(m, "calling") /\ m # k => lease[conn[m].lease].replica # Leased[s]
<1>1. ~closed /\ binding[s] \in Leases /\ lease[binding[s]].replica \in Replicas
  BY DEF PoolInv, TableInv, LeaseTypes
<1>2. Leased[s] = lease[binding[s]].replica /\ Leased[s] # NoReplica
  BY <1>1, Zero DEF Leased
<1>3. Alone(Sessions, Leased) /\ status[Leased[s]] \in Reserved
  BY <1>1, <1>2, PoolFacts DEF Homes
<1>4. ASSUME NEW m \in Conns, At(m, "calling"), m # k, lease[conn[m].lease].replica = Leased[s]
      PROVE  FALSE
  <2>1. conn[m].session \in Sessions /\ binding[conn[m].session] = conn[m].lease
        /\ Leased[conn[m].session] = Leased[s]
    BY <1>4, CallReplicas
  <2>2. conn[m].session = s
    BY <1>2, <1>3, <2>1 DEF Alone
  <2>3. HasLock(m, binding[s])
    BY <1>4, <2>1, <2>2 DEF PoolInv, CallInv, CallsKeepTheirLease
  <2> QED
    BY <1>4, <2>3 DEF HasLock
<1> QED
  BY <1>1, <1>2, <1>3, <1>4

\* A call that finds its replica dead, before or after it is made.
LEMMA DeadCallKeepsInv ==
    ASSUME PoolInv, NEW k \in Conns, conn[k].at \in {"locking", "calling"},
           HasLock(k, conn[k].lease), binding[conn[k].session] = conn[k].lease,
           Evict(lease[conn[k].lease].replica),
           AfterCall(k, FALSE, Unlocked(conn[k].lease), Pop(conn[k].session)),
           UNCHANGED <<available, phase, holds, closed, opening, shutdown, remaining>>
    PROVE  PoolInv'
<1> DEFINE s == conn[k].session
           l == conn[k].lease
           r == lease[l].replica
           Q == Members(available)
<1>1. s \in Sessions /\ l \in Leases /\ LeaseTypes /\ binding[s] # NoLease /\ HasLock(k, binding[s])
  BY ConnFacts
<1>2. ~closed /\ Leased[s] = r /\ r \in Replicas /\ Leased[s] # NoReplica
      /\ \A m \in Conns : At(m, "calling") /\ m # k => lease[conn[m].lease].replica # r
  BY <1>1, OtherCalls
<1>3. /\ Mapped(status, Q, holds, Leased, Taken) /\ Homes(status, Q, holds, Leased, Taken)
      /\ Distinct(available)
  BY <1>2, PoolFacts
<1>4. PoolTypeOK /\ HoldInv /\ LiveCountIsRight
  BY DEF PoolInv
<1>5. Unlocked(l) \in [Leases -> Seq(Conns \cup {Closer})] /\ Pop(s) \in [Sessions -> Leases \cup {NoLease}]
  <2>1. locked[l] # << >>
    BY DEF HasLock
  <2> QED
    BY <1>1, <2>1, UnlockedFacts, PopFacts
<1>6. Shape(k, Unlocked(l), Pop(s))
  BY <1>1, <1>5, AfterCallHasShape
<1>7. LockStep(k, Unlocked(l)) /\ BoundStep(k, Pop(s))
  BY <1>1 DEF LockStep, BoundStep
<1> HIDE DEF r, Q
<1>8. Evict(r)
  BY DEF r
<1>9. /\ status' = [status EXCEPT ![r] = "dead"] /\ alive' \in SUBSET Replicas
      /\ status' \in [Replicas -> ReplicaStatus]
      /\ liveCount' \in 0 .. NumReplicas /\ LiveCountIsRight'
  BY <1>2, <1>4, <1>8, EvictFacts
<1>10. PoolTypeOK' /\ HoldInv'
  BY <1>4, <1>9 DEF PoolTypeOK, HoldInv
<1>11. CallsKeepStatus(k)
  BY <1>2, <1>4, <1>9, CallReplicas DEF CallsKeepStatus, PoolTypeOK
<1>12. SessionPart' /\ Taken' = [Taken EXCEPT ![k] = NoReplica] /\ Leased' = [Leased EXCEPT ![s] = NoReplica]
  BY <1>1, <1>6, <1>7, <1>11, ShapeKeeps
<1>13. Taken' = Taken
  BY <1>12, NotTaken DEF At
<1>14. Homes([status EXCEPT ![Leased[s]] = "dead"], Q, holds, [Leased EXCEPT ![s] = NoReplica], Taken)
  BY <1>1, <1>2, <1>3, LeaseToQueue
<1>15. PlaceInv'
  BY <1>2, <1>3, <1>9, <1>12, <1>13, <1>14 DEF PlaceInv, Q
<1> QED
  BY <1>9, <1>10, <1>12, <1>15 DEF PoolInv, SessionPart

LEMMA TurnKeepsInv ==
    ASSUME PoolInv, NEW k \in Conns, CallTurn(k)
    PROVE  PoolInv'
<1> DEFINE s == conn[k].session
           l == conn[k].lease
           r == lease[l].replica
<1>1. /\ conn[k].at = "locking" /\ HasLock(k, l) /\ s \in Sessions /\ l \in Leases /\ LeaseTypes
      /\ UNCHANGED <<available, phase, holds, closed, opening, shutdown, remaining>>
  BY ConnFacts DEF CallTurn, At, callerVars
<1>2. CASE AfterCall(k, FALSE, Unlocked(l), binding) /\ UNCHANGED replicaVars
  <2>1. Unlocked(l) \in [Leases -> Seq(Conns \cup {Closer})]
        /\ binding \in [Sessions -> Leases \cup {NoLease}]
    <3>1. locked[l] # << >>
      BY <1>1 DEF HasLock
    <3> QED
      BY <1>1, <3>1, UnlockedFacts DEF LeaseTypes
  <2>2. Shape(k, Unlocked(l), binding)
    BY <1>1, <1>2, <2>1, AfterCallHasShape
  <2>3. LockStep(k, Unlocked(l))
    BY <1>1 DEF LockStep
  <2> QED
    BY <1>1, <1>2, <2>2, <2>3, TableStepKeeps DEF poolVars, callerVars, At
<1>3. CASE /\ binding[s] = l /\ Evict(r)
           /\ AfterCall(k, FALSE, Unlocked(l), Pop(s))
  BY <1>1, <1>3, DeadCallKeepsInv
<1>4. CASE /\ binding[s] = l /\ ~lease[l].closing
           /\ status' = [status EXCEPT ![r] = "session_busy"]
           /\ conn' = [conn EXCEPT ![k].at = "calling"]
           /\ UNCHANGED <<alive, liveCount, lease, locked, binding>>
  <2> DEFINE to == [conn[k] EXCEPT !.at = "calling"]
             Q == Members(available)
  <2>1. binding[s] # NoLease /\ HasLock(k, binding[s])
    BY <1>1, <1>4
  <2>2. /\ ~closed /\ Leased[s] = r /\ r \in Replicas /\ r # NoReplica /\ status[r] \in Reserved
        /\ \A m \in Conns : At(m, "calling") /\ m # k => lease[conn[m].lease].replica # r
    BY <1>1, <1>4, <2>1, OtherCalls
  <2>3. PoolTypeOK /\ HoldInv /\ LiveCountIsRight /\ ~shutdown
    BY <1>1, <1>4, <2>1 DEF PoolInv, TableInv
  <2>4. /\ Mapped(status, Q, holds, Leased, Taken) /\ Homes(status, Q, holds, Leased, Taken)
        /\ Distinct(available)
    BY <2>2, PoolFacts
  <2> HIDE DEF r
  <2>5. status' \in [Replicas -> ReplicaStatus] /\ LiveCountIsRight'
    BY <1>4, <2>2, <2>3, LiveStays DEF ReplicaStatus, Reserved
  <2>6. PoolTypeOK' /\ HoldInv'
    BY <1>1, <1>4, <2>3, <2>5 DEF PoolTypeOK, HoldInv
  <2>7. /\ to \in ConnRecs /\ to.at = "calling" /\ to.session = s /\ to.lease = l
        /\ conn' = [conn EXCEPT ![k] = to]
    BY <1>4, ConnFacts DEF ConnRecs, Places
  <2> HIDE DEF to
  <2>8. conn' \in [Conns -> ConnRecs] /\ conn'[k] = to /\ \A m \in Conns : m # k => conn'[m] = conn[m]
    BY <2>7, ConnFacts
  <2>9. LeaseTypes' /\ TableInv'
    BY <1>1, <1>4, <2>8 DEF PoolInv, LeaseTypes, TableInv
  <2>10. ConnInv'
    <3>1. \A m \in Conns : Opening(m)' => m # k /\ Opening(m) /\ conn'[m] = conn[m]
      BY <2>7, <2>8 DEF Opening
    <3>2. \A m \in Conns : Opening(m) =>
            /\ conn[m].session \in opening /\ binding[conn[m].session] = NoLease
            /\ \A n \in Conns : Opening(n) /\ conn[n].session = conn[m].session => n = m
      BY <2>2 DEF PoolInv, ConnInv
    <3>3. \A m \in Conns : ~closed' /\ Opening(m)' =>
            /\ conn'[m].session \in opening' /\ binding'[conn'[m].session] = NoLease
            /\ \A n \in Conns : Opening(n)' /\ conn'[n].session = conn'[m].session => n = m
      BY <1>1, <1>4, <3>1, <3>2
    <3>4. \A m \in Conns :
            /\ conn'[m].at \in {"locking", "calling", "releasing"} => conn'[m].lease \in Leases
            /\ conn'[m].at # "idle" => conn'[m].session \in Sessions
            /\ conn'[m].at = "taken" => conn'[m].replica \in Replicas
      BY <1>1, <2>7, <2>8 DEF PoolInv, ConnInv, At
    <3> QED
      BY <3>3, <3>4 DEF ConnInv, At
  <2>11. CallInv'
    <3>1. ASSUME NEW m \in Conns, At(m, "calling")'
          PROVE  /\ binding[conn'[m].session] = conn'[m].lease
                 /\ locked[conn'[m].lease] # << >> /\ Head(locked[conn'[m].lease]) = m
                 /\ status'[lease[conn'[m].lease].replica] = "session_busy"
      <4>1. CASE m = k
        BY <1>1, <1>4, <2>2, <2>3, <2>7, <2>8, <4>1 DEF HasLock, PoolTypeOK, r
      <4>2. CASE m # k
        <5>1. conn'[m] = conn[m] /\ At(m, "calling")
          BY <2>8, <3>1, <4>2 DEF At
        <5>2. /\ lease[conn[m].lease].replica # r /\ lease[conn[m].lease].replica \in Replicas
              /\ binding[conn[m].session] = conn[m].lease
          BY <2>2, <4>2, <5>1, CallReplicas
        <5>3. HasLock(m, conn[m].lease) /\ status[lease[conn[m].lease].replica] = "session_busy"
          BY <5>1 DEF PoolInv, CallInv, CallsKeepTheirLease
        <5> QED
          BY <1>4, <2>3, <5>1, <5>2, <5>3 DEF HasLock, PoolTypeOK
      <4> QED
        BY <4>1, <4>2
    <3> QED
      BY <1>1, <1>4, <2>2, <2>3, <3>1 DEF CallInv, CallsKeepTheirLease, HasLock
  <2>12. Leased' = Leased
    BY <1>4 DEF Leased
  <2>13. Taken' = Taken
    <3>1. Taken' = [Taken EXCEPT ![k] = NoReplica]
      BY <2>7, <2>8 DEF Taken, At
    <3> QED
      BY <1>1, <3>1, NotTaken DEF At
  <2>14. PlaceInv'
    <3>1. "session_busy" \in Reserved
      BY DEF Reserved
    <3>2. Homes([status EXCEPT ![Leased[s]] = "session_busy"], Q, holds, Leased, Taken)
      BY <1>1, <2>2, <2>4, <3>1, LeaseStays
    <3> QED
      BY <1>1, <1>4, <2>2, <2>4, <2>12, <2>13, <3>2 DEF PlaceInv
  <2> QED
    BY <2>5, <2>6, <2>9, <2>10, <2>11, <2>14 DEF PoolInv
<1> QED
  BY <1>2, <1>3, <1>4 DEF CallTurn

LEMMA AnswerKeepsInv ==
    ASSUME PoolInv, NEW k \in Conns, NEW ok \in BOOLEAN, CallAnswered(k, ok)
    PROVE  PoolInv'
<1> DEFINE s == conn[k].session
           l == conn[k].lease
           r == lease[l].replica
           Q == Members(available)
<1>1. /\ At(k, "calling") /\ conn[k].at = "calling"
      /\ AfterCall(k, ok, Unlocked(l), binding)
      /\ status' = status \/ status' = [status EXCEPT ![r] = "session_reserved"]
      /\ UNCHANGED <<alive, liveCount, available, phase, holds, closed, opening, shutdown, remaining>>
  BY DEF CallAnswered, At, callerVars
<1>2. /\ s \in Sessions /\ l \in Leases /\ LeaseTypes /\ HasLock(k, l) /\ binding[s] = l
  BY <1>1, ConnFacts DEF PoolInv, CallInv, CallsKeepTheirLease
<1>3. binding[s] # NoLease /\ HasLock(k, binding[s])
  BY <1>2
<1>4. /\ ~closed /\ Leased[s] = r /\ r \in Replicas /\ r # NoReplica /\ status[r] \in Reserved
      /\ \A m \in Conns : At(m, "calling") /\ m # k => lease[conn[m].lease].replica # r
  BY <1>2, <1>3, OtherCalls
<1>5. PoolTypeOK /\ HoldInv /\ LiveCountIsRight
  BY DEF PoolInv
<1>6. /\ Mapped(status, Q, holds, Leased, Taken) /\ Homes(status, Q, holds, Leased, Taken)
      /\ Distinct(available)
  BY <1>4, PoolFacts
<1>7. Shape(k, Unlocked(l), binding)
  <2>1. locked[l] # << >>
    BY <1>2 DEF HasLock
  <2>2. Unlocked(l) \in [Leases -> Seq(Conns \cup {Closer})]
        /\ binding \in [Sessions -> Leases \cup {NoLease}]
    BY <1>2, <2>1, UnlockedFacts DEF LeaseTypes
  <2> QED
    BY <1>1, <1>2, <2>2, AfterCallHasShape
<1>8. LockStep(k, Unlocked(l)) /\ BoundStep(k, binding)
  BY <1>2 DEF LockStep, BoundStep
<1> HIDE DEF r, Q
<1>9. status' \in [Replicas -> ReplicaStatus] /\ LiveCountIsRight'
  <2>1. CASE status' = status
    BY <1>1, <1>5, <2>1 DEF PoolTypeOK, LiveCountIsRight, LiveReplicas
  <2>2. CASE status' = [status EXCEPT ![r] = "session_reserved"]
    BY <1>1, <1>4, <1>5, <2>2, LiveStays DEF ReplicaStatus, Reserved
  <2> QED
    BY <1>1, <2>1, <2>2
<1>10. PoolTypeOK' /\ HoldInv'
  BY <1>1, <1>5, <1>9 DEF PoolTypeOK, HoldInv
<1>11. CallsKeepStatus(k)
  <2>1. \A m \in Conns : At(m, "calling") /\ m # k =>
          lease[conn[m].lease].replica # r /\ lease[conn[m].lease].replica \in Replicas
    BY <1>4, CallReplicas
  <2> QED
    BY <1>1, <1>5, <2>1 DEF CallsKeepStatus, PoolTypeOK
<1>12. SessionPart' /\ Taken' = [Taken EXCEPT ![k] = NoReplica] /\ Leased' = Leased
  BY <1>1, <1>7, <1>8, <1>11, ShapeKeeps
<1>13. Taken' = Taken
  BY <1>1, <1>12, NotTaken DEF At
<1>14. Homes(status', Q, holds, Leased, Taken)
  <2>1. "session_reserved" \in Reserved
    BY DEF Reserved
  <2>2. Homes([status EXCEPT ![Leased[s]] = "session_reserved"], Q, holds, Leased, Taken)
    BY <1>2, <1>4, <1>6, <2>1, LeaseStays
  <2> QED
    BY <1>1, <1>4, <1>6, <2>2
<1>15. PlaceInv'
  BY <1>1, <1>6, <1>12, <1>13, <1>14 DEF PlaceInv, Q
<1> QED
  BY <1>9, <1>10, <1>12, <1>15 DEF PoolInv, SessionPart

LEMMA FindsDeadKeepsInv ==
    ASSUME PoolInv, NEW k \in Conns, CallFindsDead(k)
    PROVE  PoolInv'
<1>1. /\ At(k, "calling") /\ conn[k].at = "calling" /\ Evict(lease[conn[k].lease].replica)
      /\ AfterCall(k, FALSE, Unlocked(conn[k].lease), Pop(conn[k].session))
      /\ UNCHANGED <<available, phase, holds, closed, opening, shutdown, remaining>>
  BY DEF CallFindsDead, At, callerVars
<1>2. HasLock(k, conn[k].lease) /\ binding[conn[k].session] = conn[k].lease
  BY <1>1 DEF PoolInv, CallInv, CallsKeepTheirLease
<1> QED
  BY <1>1, <1>2, DeadCallKeepsInv

LEMMA CloseEndsKeepsInv ==
    ASSUME PoolInv, NEW k \in Conns, CloseEnds(k)
    PROVE  PoolInv'
<1> DEFINE s == conn[k].session
           l == conn[k].lease
           r == lease[l].replica
           Q == Members(available)
           to == Closed(conn[k])
<1>1. /\ conn[k].at = "releasing" /\ HasLock(k, l) /\ locked' = Unlocked(l)
      /\ conn' = [conn EXCEPT ![k] = to]
      /\ \/ /\ binding[s] = l /\ binding' = Pop(s) /\ lease' = Forgotten(Pop(s)) /\ GiveBack(r)
         \/ UNCHANGED <<binding, lease, replicaVars, available>>
      /\ UNCHANGED <<opening, phase, holds, closed, shutdown, remaining>>
  BY DEF CloseEnds, At, callerVars
<1>2. s \in Sessions /\ l \in Leases /\ LeaseTypes
  BY <1>1, ConnFacts
<1>3. Unlocked(l) \in [Leases -> Seq(Conns \cup {Closer})]
  <2>1. locked[l] # << >>
    BY <1>1 DEF HasLock
  <2> QED
    BY <1>2, <2>1, UnlockedFacts
<1>4. /\ to \in ConnRecs /\ to.at \in {"idle", "open"} /\ (to.at # "idle" => to.session = s)
  <2>1. Idle \in ConnRecs /\ Idle.at = "idle"
    BY DEF Idle, ConnRecs, Places, Ops
  <2>2. Open(s) \in ConnRecs /\ Open(s).at = "open" /\ Open(s).session = s
    BY <1>2 DEF Idle, Open, ConnRecs, Places, Ops
  <2> QED
    BY <2>1, <2>2 DEF Closed
<1> HIDE DEF to
<1>5. conn' \in [Conns -> ConnRecs] /\ conn'[k] = to /\ \A m \in Conns : m # k => conn'[m] = conn[m]
  BY <1>1, <1>4, ConnFacts
<1>6. LockStep(k, Unlocked(l))
  BY <1>1, <1>2 DEF LockStep
<1>7. CASE UNCHANGED <<binding, lease, replicaVars, available>>
  <2>1. Shape(k, Unlocked(l), binding)
    BY <1>1, <1>2, <1>3, <1>4, <1>5, <1>7 DEF Shape, LeaseTypes
  <2> QED
    BY <1>1, <1>6, <1>7, <2>1, TableStepKeeps DEF poolVars, callerVars, At
<1>8. CASE /\ binding[s] = l /\ binding' = Pop(s) /\ lease' = Forgotten(Pop(s)) /\ GiveBack(r)
  <2>1. binding[s] # NoLease /\ HasLock(k, binding[s])
    BY <1>1, <1>2, <1>8
  <2>2. /\ ~closed /\ Leased[s] = r /\ r \in Replicas /\ r # NoReplica /\ status[r] \in Reserved
        /\ \A m \in Conns : At(m, "calling") /\ m # k => lease[conn[m].lease].replica # r
    BY <1>2, <1>8, <2>1, OtherCalls
  <2>3. /\ available \in Seq(Replicas) /\ Distinct(available) /\ PoolPart
        /\ Mapped(status, Q, holds, Leased, Taken) /\ Homes(status, Q, holds, Leased, Taken)
    BY <2>2, PoolFacts DEF PoolInv, PoolPart
  <2>4. /\ r \notin Q
        /\ Homes([status EXCEPT ![r] = "idle"], Q \cup {r}, holds, [Leased EXCEPT ![s] = NoReplica], Taken)
        /\ Homes([status EXCEPT ![r] = "dead"], Q, holds, [Leased EXCEPT ![s] = NoReplica], Taken)
    <3>1. Leased[s] # NoReplica
      BY <2>2
    <3>2. /\ Leased[s] \notin Q
          /\ Homes([status EXCEPT ![Leased[s]] = "idle"], Q \cup {Leased[s]}, holds,
                   [Leased EXCEPT ![s] = NoReplica], Taken)
          /\ Homes([status EXCEPT ![Leased[s]] = "dead"], Q, holds, [Leased EXCEPT ![s] = NoReplica], Taken)
      BY <1>2, <2>3, <3>1, LeaseToQueue
    <3>3. Leased[s] = r
      BY <2>2
    <3> HIDE DEF r, Q
    <3> QED
      BY ONLY <3>2, <3>3
  <2>5. status[r] # "dead"
    BY <2>2 DEF Reserved
  <2> HIDE DEF r, Q
  <2>6. /\ PoolPart' /\ Distinct(available')
        /\ \/ /\ status' = [status EXCEPT ![r] = "idle"] /\ Members(available') = Q \cup {r}
           \/ status' = [status EXCEPT ![r] = "dead"] /\ available' = available
    BY <1>1, <1>8, <2>2, <2>3, <2>4, <2>5, GiveBackFacts DEF Q
  <2>7. Shape(k, Unlocked(l), Pop(s))
    <3>1. NewLease(NoReplica) \in LeaseRecs
      BY DEF NewLease, LeaseRecs
    <3>2. Forgotten(Pop(s)) \in [Leases -> LeaseRecs]
      BY <1>2, <3>1 DEF Forgotten, LeaseTypes
    <3>3. Pop(s) \in [Sessions -> Leases \cup {NoLease}]
      BY <1>2, PopFacts
    <3>4. \A t \in Sessions : Pop(s)[t] # NoLease => Forgotten(Pop(s))[Pop(s)[t]] = lease[Pop(s)[t]]
      BY <3>3 DEF Forgotten
    <3> QED
      BY <1>1, <1>2, <1>3, <1>4, <1>5, <1>8, <3>2, <3>4 DEF Shape
  <2>8. BoundStep(k, Pop(s))
    BY <1>2, <2>1 DEF BoundStep
  <2>9. CallsKeepStatus(k)
    <3>1. \A m \in Conns : At(m, "calling") /\ m # k =>
            lease[conn[m].lease].replica # r /\ lease[conn[m].lease].replica \in Replicas
      BY <2>2, CallReplicas
    <3>2. status \in [Replicas -> ReplicaStatus]
      BY DEF PoolInv, PoolTypeOK
    <3> QED
      BY <2>6, <3>1, <3>2 DEF CallsKeepStatus
  <2>10. SessionPart' /\ Taken' = [Taken EXCEPT ![k] = NoReplica]
         /\ Leased' = [Leased EXCEPT ![s] = NoReplica]
    BY <1>1, <1>2, <1>6, <2>7, <2>8, <2>9, ShapeKeeps
  <2>11. Taken' = Taken
    BY <1>1, <2>10, NotTaken DEF At
  <2>12. PlaceInv'
    BY <1>1, <2>4, <2>6, <2>10, <2>11 DEF PlaceInv, Q
  <2> QED
    BY <2>6, <2>10, <2>12 DEF PoolInv, SessionPart, PoolPart
<1> QED
  BY <1>1, <1>7, <1>8

--------------------------------------------------------------------------------
(* aclose().                                                               *)

LEMMA ShutdownBeginsKeepsInv ==
    ASSUME PoolInv, ShutdownBegins
    PROVE  PoolInv'
<1>1. /\ ~shutdown /\ shutdown' = TRUE /\ remaining' = BoundLeases
      /\ lease' = [l \in Leases |-> IF l \in BoundLeases THEN [lease[l] EXCEPT !.closing = TRUE]
                                                         ELSE lease[l]]
      /\ UNCHANGED <<alive, status, liveCount, available, phase, holds, closed>>
      /\ UNCHANGED <<binding, opening, locked, conn>>
  BY DEF ShutdownBegins, poolVars, replicaVars, callerVars
<1>2. PoolTypeOK' /\ HoldInv' /\ LiveCountIsRight'
  BY <1>1 DEF PoolInv, PoolTypeOK, HoldInv, LiveCountIsRight, LiveReplicas
<1>3. /\ LeaseTypes /\ ~closed
      /\ \A s \in Sessions : binding[s] # NoLease => binding[s] \in Leases /\ binding[s] \in BoundLeases
      /\ BoundLeases \in SUBSET Leases
  BY <1>1 DEF PoolInv, TableInv, LeaseTypes, BoundLeases
<1>4. /\ lease' \in [Leases -> LeaseRecs]
      /\ \A l \in Leases : lease'[l].replica = lease[l].replica
      /\ \A l \in BoundLeases : lease'[l].closing
  BY <1>1, <1>3 DEF LeaseTypes, LeaseRecs
<1>5. LeaseTypes' /\ TableInv'
  BY <1>1, <1>3, <1>4 DEF PoolInv, LeaseTypes, TableInv
<1>6. ConnInv'
  BY <1>1 DEF PoolInv, ConnInv, Opening, At
<1>7. CallInv'
  <2>1. \A m \in Conns : At(m, "calling") => conn[m].lease \in BoundLeases /\ conn[m].lease \in Leases
    <3>1. \A m \in Conns : At(m, "calling") =>
            conn[m].session \in Sessions /\ conn[m].lease \in Leases /\ binding[conn[m].session] = conn[m].lease
      BY CallReplicas
    <3>2. \A m \in Conns : At(m, "calling") => conn[m].lease # NoLease
      BY <3>1
    <3> QED
      BY <1>3, <3>1, <3>2
  <2> QED
    BY <1>1, <1>4, <2>1 DEF PoolInv, CallInv, CallsKeepTheirLease, At, HasLock
<1>8. Leased' = Leased /\ Taken' = Taken
  BY <1>1, <1>3, <1>4 DEF Leased, Taken, At
<1>9. PlaceInv'
  BY <1>1, <1>8 DEF PoolInv, PlaceInv
<1> QED
  BY <1>2, <1>5, <1>6, <1>7, <1>9 DEF PoolInv

LEMMA ShutdownWaitsKeepsInv ==
    ASSUME PoolInv, NEW l \in Leases, ShutdownQueues(l) \/ ShutdownPasses(l)
    PROVE  PoolInv'
<1>1. /\ UNCHANGED <<alive, status, liveCount, available, phase, holds, closed>>
      /\ UNCHANGED <<binding, opening, lease, conn, shutdown>>
  BY DEF ShutdownQueues, ShutdownPasses, poolVars, replicaVars, callerVars
<1>2. PoolTypeOK' /\ HoldInv' /\ LiveCountIsRight'
  BY <1>1 DEF PoolInv, PoolTypeOK, HoldInv, LiveCountIsRight, LiveReplicas
<1>3. locked[l] \in Seq(Conns \cup {Closer}) /\ locked \in [Leases -> Seq(Conns \cup {Closer})]
  BY DEF PoolInv, LeaseTypes
<1>4. /\ locked' \in [Leases -> Seq(Conns \cup {Closer})] /\ remaining' \in SUBSET Leases
      /\ \A m \in Conns, x \in Leases : HasLock(m, x) => locked'[x] # << >> /\ Head(locked'[x]) = m
      /\ \A m \in Conns, x \in Leases : HasLock(m, x) /\ x \in remaining => x \in remaining'
  <2>1. CASE ShutdownQueues(l)
    <3>1. Append(locked[l], Closer) \in Seq(Conns \cup {Closer})
      <4>1. Closer \in Conns \cup {Closer}
        OBVIOUS
      <4> QED
        BY ONLY <1>3, <4>1
    <3>2. locked[l] # << >> => Append(locked[l], Closer) # << >>
            /\ Head(Append(locked[l], Closer)) = Head(locked[l])
      BY ONLY <1>3
    <3>3. locked' = [locked EXCEPT ![l] = Append(locked[l], Closer)] /\ remaining' = remaining
      BY <2>1 DEF ShutdownQueues
    <3> QED
      BY <1>3, <3>1, <3>2, <3>3 DEF HasLock, PoolInv, LeaseTypes
  <2>2. CASE ShutdownPasses(l)
    <3>1. /\ locked[l] # << >> /\ Head(locked[l]) = Closer
          /\ locked' = [locked EXCEPT ![l] = Tail(locked[l])] /\ remaining' = remaining \ {l}
      BY <2>2 DEF ShutdownPasses, HasLock, Unlocked
    <3>2. Tail(locked[l]) \in Seq(Conns \cup {Closer})
      BY ONLY <1>3, <3>1
    <3>3. Closer \notin Conns
      BY SessionAssumption DEF Closer
    <3>4. \A m \in Conns, x \in Leases : HasLock(m, x) => x # l
      BY <3>1, <3>3 DEF HasLock
    <3> QED
      BY <1>3, <3>1, <3>2, <3>4 DEF HasLock, PoolInv, LeaseTypes
  <2> QED
    BY <2>1, <2>2
<1>5. LeaseTypes' /\ TableInv' /\ ConnInv'
  BY <1>1, <1>4 DEF PoolInv, LeaseTypes, TableInv, ConnInv, Opening, At
<1>6. CallInv'
  <2>1. \A m \in Conns : At(m, "calling") => conn[m].lease \in Leases
    BY CallReplicas
  <2> QED
    BY <1>1, <1>4, <2>1 DEF PoolInv, CallInv, CallsKeepTheirLease, At, HasLock
<1>7. Leased' = Leased /\ Taken' = Taken
  BY <1>1 DEF Leased, Taken, At
<1>8. PlaceInv'
  BY <1>1, <1>7 DEF PoolInv, PlaceInv
<1> QED
  BY <1>2, <1>5, <1>6, <1>8 DEF PoolInv

LEMMA ShutdownEndsKeepsInv ==
    ASSUME PoolInv, ShutdownEnds
    PROVE  PoolInv'
<1>1. /\ shutdown /\ ~closed /\ remaining = {} /\ closed' = TRUE /\ alive' = {} /\ opening' = {}
      /\ binding' = [s \in Sessions |-> NoLease]
      /\ UNCHANGED <<status, liveCount, available, phase, holds, lease, locked, conn, shutdown, remaining>>
  BY DEF ShutdownEnds, callerVars
<1>2. PoolTypeOK' /\ HoldInv' /\ LiveCountIsRight'
  BY <1>1 DEF PoolInv, PoolTypeOK, HoldInv, LiveCountIsRight, LiveReplicas
<1>3. \A m \in Conns : ~At(m, "calling")
  BY <1>1 DEF PoolInv, CallInv
<1>4. CallInv'
  BY <1>1, <1>3 DEF CallInv, CallsKeepTheirLease, At
<1>5. LeaseTypes' /\ TableInv'
  BY <1>1 DEF PoolInv, LeaseTypes, TableInv
<1>6. ConnInv' /\ PlaceInv'
  BY <1>1 DEF PoolInv, ConnInv, PlaceInv, At
<1> QED
  BY <1>2, <1>4, <1>5, <1>6 DEF PoolInv

--------------------------------------------------------------------------------
(* The theorems.                                                           *)

LEMMA InitHasInv ==
    ASSUME Init
    PROVE  PoolInv
<1> USE DEF Init, PoolInit
<1>1. PoolTypeOK
  <2>1. available \in Seq(Replicas)
    <3>1. available = [i \in 1 .. NumReplicas |-> i] /\ NumReplicas \in Nat
      BY PoolAssumption
    <3> QED
      BY ONLY <3>1 DEF Replicas
  <2>2. NumReplicas \in 0 .. NumReplicas
    BY PoolAssumption
  <2> QED
    BY <2>1, <2>2 DEF PoolTypeOK, ReplicaStatus
<1>2. LeaseTypes
  <2>1. NewLease(NoReplica) \in LeaseRecs /\ Idle \in ConnRecs
    BY DEF NewLease, LeaseRecs, Idle, ConnRecs, Places, Ops
  <2>2. << >> \in Seq(Conns \cup {Closer})
    OBVIOUS
  <2> QED
    BY <2>1, <2>2 DEF LeaseTypes
<1>3. LiveCountIsRight
  <2>1. LiveReplicas = 1 .. NumReplicas
    BY DEF LiveReplicas
  <2>2. Cardinality(1 .. NumReplicas) = NumReplicas
    BY PoolAssumption, FS_Interval
  <2> QED
    BY <2>1, <2>2 DEF LiveCountIsRight
<1>4. PlaceInv
  <2>1. Len(available) = NumReplicas /\ \A i \in 1 .. NumReplicas : available[i] = i
    BY PoolAssumption
  <2>2. Distinct(available) /\ Members(available) = Replicas
    BY <2>1 DEF Distinct, Members
  <2>3. Taken = [k \in Conns |-> NoReplica] /\ Leased = [s \in Sessions |-> NoReplica]
    BY DEF Taken, Leased, At, Idle
  <2> QED
    BY <2>2, <2>3 DEF PlaceInv, Homes, Alone, Reserved
<1>5. HoldInv /\ ConnInv /\ TableInv /\ CallInv
  BY DEF HoldInv, ConnInv, TableInv, CallInv, CallsKeepTheirLease, Opening, At, Idle
<1> QED
  BY <1>1, <1>2, <1>3, <1>4, <1>5 DEF PoolInv

LEMMA StutterKeepsInv ==
    ASSUME PoolInv, UNCHANGED vars
    PROVE  PoolInv'
<1> USE DEF vars, poolVars, replicaVars, callerVars, leaseVars
<1>1. PoolTypeOK' /\ HoldInv' /\ LiveCountIsRight'
  BY DEF PoolInv, PoolTypeOK, HoldInv, LiveCountIsRight, LiveReplicas
<1>2. SessionPart' /\ Leased' = Leased /\ Taken' = Taken
  BY SessionPartStays
<1>3. PlaceInv'
  BY <1>2 DEF PoolInv, PlaceInv
<1> QED
  BY <1>1, <1>2, <1>3 DEF PoolInv, SessionPart

LEMMA NextKeepsInv ==
    ASSUME PoolInv, Next
    PROVE  PoolInv'
<1>1. ASSUME NEW c \in Callers, Caller(c) \/ (AcquireBegins(c) /\ SessionsUnchanged)
      PROVE  PoolInv'
  BY <1>1, CallerKeepsInv
<1>2. ASSUME NEW k \in Conns, Connection(k)
      PROVE  PoolInv'
  BY <1>2, TakesKeepsInv, AbortsKeepsInv, RegistersKeepsInv, RefusedRegistrationKeepsInv,
     TurnKeepsInv, AnswerKeepsInv, FindsDeadKeepsInv, CloseEndsKeepsInv
  DEF Connection
<1>3. ASSUME NEW k \in Conns, Client(k)
      PROVE  PoolInv'
  BY <1>3, OpenBeginsKeepsInv, RefusedKeepsInv, CallBeginsKeepsInv, LeavesKeepsInv DEF Client
<1>4. ASSUME NEW r \in Replicas, Dies(r), SessionsUnchanged
      PROVE  PoolInv'
  BY <1>4, DiesKeepsInv
<1>5. CASE ShutdownBegins \/ Shutdown
  BY <1>5, ShutdownBeginsKeepsInv, ShutdownWaitsKeepsInv, ShutdownEndsKeepsInv DEF Shutdown
<1> QED
  BY <1>1, <1>2, <1>3, <1>4, <1>5 DEF Next

(* Every step of the pool, its sessions and its shutdown keeps the         *)
(* inductive invariant, whatever the number of replicas and users.         *)
THEOREM PoolIsInvariant == Spec => []PoolInv
<1>1. Init => PoolInv
  BY InitHasInv
<1>2. PoolInv /\ [Next]_vars => PoolInv'
  BY NextKeepsInv, StutterKeepsInv
<1> QED
  BY <1>1, <1>2, PTL DEF Spec

(* Every variable of the pool and its sessions keeps its type.             *)
THEOREM TypesStayRight == Spec => []TypeOK
<1>1. PoolInv => TypeOK
  BY DEF PoolInv, LeaseTypes, LeaseRecs, ConnRecs, TypeOK
<1> QED
  BY <1>1, PoolIsInvariant, PTL

(* _live_count is the number of replicas not evicted, however evictions by *)
(* callers, sessions and refused registrations overlap.                    *)
THEOREM LiveCountStaysRight == Spec => []LiveCountIsRight
<1>1. PoolInv => LiveCountIsRight
  BY DEF PoolInv
<1> QED
  BY <1>1, PoolIsInvariant, PTL

(* A session call in progress has its lease, the lease's lock and a        *)
(* replica that neither an eviction nor aclose() has stopped.              *)
THEOREM CallsStayWithTheirLease == Spec => []CallsKeepTheirLease
<1>1. PoolInv => CallsKeepTheirLease
  BY DEF PoolInv, CallInv
<1> QED
  BY <1>1, PoolIsInvariant, PTL

\* A set without two different elements.
LEMMA AtMostOne ==
    ASSUME NEW S, \A x, y \in S : x = y
    PROVE  Cardinality(S) = IF S = {} THEN 0 ELSE 1
<1>1. CASE S = {}
  BY <1>1, FS_EmptySet
<1>2. CASE S # {}
  <2>1. PICK x \in S : TRUE
    BY <1>2
  <2>2. S = {x}
    BY <2>1
  <2> QED
    BY <1>2, <2>2, FS_Singleton
<1> QED
  BY <1>1, <1>2

LEMMA CopiesFacts ==
    ASSUME PoolInv, ~closed, NEW r \in Replicas
    PROVE  Copies(r) = IF status[r] = "dead" \/ Abandoned(r) THEN 0 ELSE 1
<1> DEFINE Q == Members(available)
<1>1. /\ Distinct(available) /\ Mapped(status, Q, holds, Leased, Taken)
      /\ Homes(status, Q, holds, Leased, Taken) /\ r # NoReplica
  BY PoolFacts, Zero
<1>2. /\ r \in Q <=> Queued(r) # {}
      /\ \A i, j \in Queued(r) : i = j
  BY <1>1 DEF Queued, Members, Distinct
<1>3. \A k \in Conns : Taken[k] = r <=> k \in TakenBy(r)
  BY <1>1 DEF Taken, TakenBy
<1>4. \A s \in Sessions : Leased[s] = r <=> s \in LeasedBy(r)
  BY <1>1 DEF Leased, LeasedBy
<1>5. \A c \in Callers : holds[c] = r <=> c \in HeldBy(r)
  BY DEF HeldBy
<1>6. TakenBy(r) \in SUBSET Conns /\ LeasedBy(r) \in SUBSET Sessions /\ HeldBy(r) \in SUBSET Callers
  BY DEF TakenBy, LeasedBy, HeldBy
<1> HIDE DEF Q
<1>7. /\ \A x, y \in TakenBy(r) : x = y
      /\ \A x, y \in LeasedBy(r) : x = y
      /\ \A x, y \in HeldBy(r) : x = y
  BY <1>1, <1>3, <1>4, <1>5, <1>6 DEF Homes, Alone
<1>8. /\ Cardinality(Queued(r)) = IF Queued(r) = {} THEN 0 ELSE 1
      /\ Cardinality(TakenBy(r)) = IF TakenBy(r) = {} THEN 0 ELSE 1
      /\ Cardinality(LeasedBy(r)) = IF LeasedBy(r) = {} THEN 0 ELSE 1
      /\ Cardinality(HeldBy(r)) = IF HeldBy(r) = {} THEN 0 ELSE 1
  BY <1>2, <1>7, AtMostOne
<1>9. /\ Queued(r) # {} => status[r] = "idle" /\ TakenBy(r) = {}
      /\ TakenBy(r) # {} => status[r] = "idle"
      /\ HeldBy(r) # {} => status[r] = "busy"
      /\ LeasedBy(r) # {} => status[r] \in Reserved
      /\ status[r] = "idle" => Queued(r) # {} \/ TakenBy(r) # {}
      /\ status[r] \in Reserved => LeasedBy(r) # {}
  BY <1>1, <1>2, <1>3, <1>4, <1>5, <1>6 DEF Homes
<1>10. status[r] \in {"idle", "busy", "dead"} \cup Reserved
  BY DEF PoolInv, PoolTypeOK, ReplicaStatus, Reserved
<1>11. CASE status[r] = "idle"
  <2>1. HeldBy(r) = {} /\ LeasedBy(r) = {} /\ (Queued(r) = {} <=> TakenBy(r) # {})
    BY <1>9, <1>11 DEF Reserved
  <2> QED
    BY <1>8, <1>11, <2>1 DEF Copies, Abandoned
<1>12. CASE status[r] = "busy"
  <2>1. Queued(r) = {} /\ LeasedBy(r) = {} /\ TakenBy(r) = {}
    BY <1>9, <1>12 DEF Reserved
  <2> QED
    BY <1>8, <1>12, <2>1 DEF Copies, Abandoned
<1>13. CASE status[r] = "dead"
  <2>1. Queued(r) = {} /\ LeasedBy(r) = {} /\ TakenBy(r) = {} /\ HeldBy(r) = {}
    BY <1>9, <1>13 DEF Reserved
  <2> QED
    BY <1>8, <1>13, <2>1 DEF Copies
<1>14. CASE status[r] \in Reserved
  <2>1. Queued(r) = {} /\ LeasedBy(r) # {} /\ TakenBy(r) = {} /\ HeldBy(r) = {}
    BY <1>9, <1>14 DEF Reserved
  <2>2. status[r] # "dead" /\ status[r] # "busy"
    BY <1>14 DEF Reserved
  <2> QED
    BY <1>8, <2>1, <2>2 DEF Copies, Abandoned
<1> QED
  BY <1>10, <1>11, <1>12, <1>13, <1>14

(* A replica is never shared and never lost: while the pool is open, one   *)
(* that is not evicted is in exactly one place - the queue, a caller of    *)
(* acquire(), a session being opened, or a lease - unless an exception of  *)
(* its caller abandoned it.                                                *)
THEOREM ReplicaStaysInOnePlace == Spec => []ReplicaIsInOnePlace
<1>1. PoolInv => ReplicaIsInOnePlace
  BY CopiesFacts DEF ReplicaIsInOnePlace
<1> QED
  BY <1>1, PoolIsInvariant, PTL
================================================================================
