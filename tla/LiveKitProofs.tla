---------------------------- MODULE LiveKitProofs ----------------------------
(***************************************************************************)
(* Proofs about the sessions of the LiveKit server, for any number of      *)
(* workers, sessions and DELETE handlers, any capacity and any queue: a    *)
(* session has one place, and the scheduler, the registry, the router and  *)
(* the model state agree about it.                                         *)
(*                                                                         *)
(* The first part is about the scheduler alone: each of its methods keeps  *)
(* its tables sound, and says which sessions it moves.  The second part    *)
(* ties the tables to the registry, the runners and the model state.       *)
(***************************************************************************)
EXTENDS LiveKitServing, FiniteSetTheorems, SequenceTheorems, TLAPS

(* Least elements, finite sets of sessions, queues.                        *)

LEMMA LeastNumber ==
  ASSUME NEW I \in SUBSET Nat, I # {}
  PROVE  \E i \in I : \A j \in I : i <= j
<1>1. \E x \in I : \A y \in I : ~ (<<y, x>> \in OpToRel(<, Nat))
  BY NatLessThanWellFounded, WFMin
<1>2. \A x, y \in I : <<y, x>> \in OpToRel(<, Nat) <=> y < x
  BY DEF OpToRel
<1>3. PICK x \in I : \A y \in I : ~ (<<y, x>> \in OpToRel(<, Nat))
  BY <1>1
<1>4. \A y \in I : ~ (y < x)
  BY <1>2, <1>3
<1>5. \A y \in I : x <= y
  BY <1>4
<1> QED
  BY <1>5

LEMMA SessionSets ==
  /\ Sessions \in SUBSET Nat /\ IsFiniteSet(Sessions)
  /\ NoSession \notin Sessions
  /\ \A S \in SUBSET Sessions : IsFiniteSet(S) /\ Cardinality(S) \in Nat
<1>1. Sessions \in SUBSET Nat /\ NoSession \notin Sessions
  BY AdmissionAssumption DEF Sessions, NoSession
<1>2. IsFiniteSet(Sessions)
  BY AdmissionAssumption, FS_Interval DEF Sessions
<1>3. ASSUME NEW S \in SUBSET Sessions
      PROVE  IsFiniteSet(S) /\ Cardinality(S) \in Nat
  <2>1. IsFiniteSet(S)
    BY <1>2, FS_Subset
  <2> QED
    BY <2>1, FS_CardinalityType
<1> QED
  BY <1>1, <1>2, <1>3

LEMMA WorkerSets == Workers \in SUBSET Nat /\ NoWorker \notin Workers
BY AdmissionAssumption DEF Workers, NoWorker

\* What is in a queue that s was taken from.
InQueue(q, s) == \E i \in 1 .. Len(q) : q[i] = s
Distinct(q) == \A i, j \in 1 .. Len(q) : q[i] = q[j] => i = j

LEMMA RemoveFirstFacts ==
  ASSUME NEW q \in Seq(Sessions), Distinct(q), NEW s
  PROVE  /\ RemoveFirst(q, s) \in Seq(Sessions)
         /\ Distinct(RemoveFirst(q, s))
         /\ \A t : InQueue(RemoveFirst(q, s), t) <=> InQueue(q, t) /\ t # s
<1>1. CASE ~ InQueue(q, s)
  <2>1. RemoveFirst(q, s) = q
    BY <1>1 DEF RemoveFirst, InQueue
  <2> QED
    BY <1>1, <2>1
<1>2. CASE InQueue(q, s)
  <2> DEFINE I == {i \in 1 .. Len(q) : q[i] = s}
  <2>1. PICK m \in 1 .. Len(q) : q[m] = s
    BY <1>2 DEF InQueue
  <2>2. I = {m}
    BY <2>1 DEF Distinct
  <2>3. SelectInSeq(q, LAMBDA v : v = s) = m
    <3>1. Min(I) = m
      BY <2>2 DEF Min
    <3>2. I # {}
      BY <2>2
    <3> QED
      BY <3>1, <3>2 DEF SelectInSeq
  <2> DEFINE a == SubSeq(q, 1, m - 1)
             b == SubSeq(q, m + 1, Len(q))
             r == a \o b
  <2>4. Len(q) \in Nat /\ m \in Nat
    OBVIOUS
  <2>5. /\ a \in Seq(Sessions) /\ Len(a) = m - 1
        /\ \A i \in 1 .. m - 1 : a[i] = q[i]
    <3>1. \A i \in 1 .. m - 1 : q[i] \in Sessions
      OBVIOUS
    <3>2. 1 \in Int /\ m - 1 \in Int
      BY <2>4
    <3>3. /\ a \in Seq(Sessions)
          /\ Len(a) = IF 1 <= m - 1 THEN m - 1 - 1 + 1 ELSE 0
          /\ \A i \in 1 .. m - 1 - 1 + 1 : a[i] = q[1 + i - 1]
      BY ONLY <3>1, <3>2, SubSeqProperties
    <3> HIDE DEF a
    <3> QED
      BY <3>3
  <2>6. /\ b \in Seq(Sessions) /\ Len(b) = Len(q) - m
        /\ \A i \in 1 .. Len(q) - m : b[i] = q[m + i]
    <3>1. \A i \in m + 1 .. Len(q) : q[i] \in Sessions
      OBVIOUS
    <3>2. m + 1 \in Int /\ Len(q) \in Int
      BY <2>4
    <3>3. /\ b \in Seq(Sessions)
          /\ Len(b) = IF m + 1 <= Len(q) THEN Len(q) - (m + 1) + 1 ELSE 0
          /\ \A i \in 1 .. Len(q) - (m + 1) + 1 : b[i] = q[m + 1 + i - 1]
      BY ONLY <3>1, <3>2, SubSeqProperties
    <3> HIDE DEF b
    <3> QED
      BY <3>3
  <2>7. RemoveFirst(q, s) = r
    BY <1>2, <2>3 DEF RemoveFirst, RemoveAt, InQueue
  <2> HIDE DEF a, b
  <2>8. /\ r \in Seq(Sessions) /\ Len(r) = Len(q) - 1
        /\ \A i \in 1 .. Len(q) - 1 : r[i] = IF i < m THEN q[i] ELSE q[i + 1]
    <3>1. /\ r \in Seq(Sessions)
          /\ Len(r) = Len(a) + Len(b)
          /\ \A i \in 1 .. Len(a) + Len(b) :
               r[i] = IF i <= Len(a) THEN a[i] ELSE b[i - Len(a)]
      BY <2>5, <2>6, ConcatProperties
    <3>2. Len(a) + Len(b) = Len(q) - 1
      BY <2>5, <2>6
    <3> HIDE DEF r
    <3>3. ASSUME NEW i \in 1 .. Len(q) - 1
          PROVE  r[i] = IF i < m THEN q[i] ELSE q[i + 1]
      <4>1. CASE i < m
        BY <2>5, <3>1, <3>2, <4>1
      <4>2. CASE ~ (i < m)
        <5> DEFINE k == i - (m - 1)
        <5>1. k \in 1 .. Len(q) - m /\ m + k = i + 1
          BY <4>2
        <5>2. r[i] = b[k]
          BY <2>5, <3>1, <3>2, <4>2
        <5> HIDE DEF k
        <5>3. b[k] = q[i + 1]
          BY <2>6, <5>1
        <5> QED
          BY <4>2, <5>2, <5>3
      <4> QED
        BY <4>1, <4>2
    <3> QED
      BY <3>1, <3>2, <3>3
  <2> HIDE DEF r
  <2>9. Distinct(r)
    BY <2>8 DEF Distinct
  <2>10. ASSUME NEW t
         PROVE  InQueue(r, t) <=> InQueue(q, t) /\ t # s
    <3>1. ASSUME NEW i \in 1 .. Len(r)
          PROVE  InQueue(q, r[i]) /\ r[i] # s
      BY <2>1, <2>8 DEF InQueue, Distinct
    <3>2. ASSUME NEW i \in 1 .. Len(q), q[i] # s
          PROVE  InQueue(r, q[i])
      <4>1. CASE i < m
        <5>1. i \in 1 .. Len(r) /\ r[i] = q[i]
          BY <2>8, <4>1
        <5> QED
          BY <5>1 DEF InQueue
      <4>2. CASE i > m
        <5>1. i - 1 \in 1 .. Len(r) /\ r[i - 1] = q[i]
          BY <2>8, <4>2
        <5> QED
          BY <5>1 DEF InQueue
      <4> QED
        BY <2>1, <3>2, <4>1, <4>2
    <3> QED
      BY <3>1, <3>2 DEF InQueue
  <2> QED
    BY <2>7, <2>8, <2>9, <2>10
<1> QED
  BY <1>1, <1>2

-----------------------------------------------------------------------------
(* The scheduler.                                                          *)

\* No worker has more sessions than its capacity; no session has two slots, two
\* places in the queue, or both.
Sound(L) ==
  /\ \A w \in Workers : Load(L, w) <= Capacity
  /\ \A s \in Sessions, w, v \in Workers : s \in L.slots[w] /\ s \in L.slots[v] => w = v
  /\ Distinct(L.queue)
  /\ \A s \in Sessions, w \in Workers : ~ (InQueue(L.queue, s) /\ s \in L.slots[w])

Slotted(L, s) == \E w \in Workers : s \in L.slots[w]
Placed(L, s) == Slotted(L, s) \/ InQueue(L.queue, s)

\* The step from L to N leaves s in its slot or in the queue, or gives it a slot.
Served(L, N, s) ==
  /\ \A w \in Workers : s \in L.slots[w] => s \in N.slots[w]
  /\ InQueue(N.queue, s) => InQueue(L.queue, s)
  /\ Placed(N, s) <=> Placed(L, s)

LEMMA LoadType ==
  ASSUME NEW L \in SchedStates, NEW w \in Workers
  PROVE  L.slots[w] \in SUBSET Sessions /\ IsFiniteSet(L.slots[w]) /\ Load(L, w) \in Nat
<1>1. L.slots[w] \in SUBSET Sessions
  BY DEF SchedStates
<1> QED
  BY <1>1, SessionSets DEF Load

\* Owner is the worker of the slot.
LEMMA OwnerFacts ==
  ASSUME NEW L \in SchedStates, Sound(L), NEW s \in Sessions
  PROVE  /\ Owner(L, s) \in Workers \cup {NoWorker}
         /\ Owner(L, s) = NoWorker <=> ~ Slotted(L, s)
         /\ \A w \in Workers : Owner(L, s) = w <=> s \in L.slots[w]
<1>1. CASE Slotted(L, s)
  <2>1. PICK w \in Workers : s \in L.slots[w]
    BY <1>1 DEF Slotted
  <2>2. Owner(L, s) = CHOOSE v \in Workers : s \in L.slots[v]
    BY <2>1 DEF Owner
  <2>3. Owner(L, s) \in Workers /\ s \in L.slots[Owner(L, s)]
    BY <2>1, <2>2
  <2> QED
    BY <1>1, <2>3, WorkerSets DEF Sound
<1>2. CASE ~ Slotted(L, s)
  <2>1. Owner(L, s) = NoWorker
    BY <1>2 DEF Owner, Slotted
  <2> QED
    BY <1>2, <2>1, WorkerSets DEF Slotted
<1> QED
  BY <1>1, <1>2

LEMMA OwnerKept ==
  ASSUME NEW L \in SchedStates, Sound(L), NEW N \in SchedStates, Sound(N),
         NEW s \in Sessions, Served(L, N, s), Slotted(N, s) => Slotted(L, s)
  PROVE  Owner(N, s) = Owner(L, s)
<1>1. CASE Slotted(L, s)
  <2>1. PICK w \in Workers : s \in L.slots[w]
    BY <1>1 DEF Slotted
  <2>2. s \in N.slots[w]
    BY <2>1 DEF Served
  <2> QED
    BY <2>1, <2>2, OwnerFacts
<1>2. CASE ~ Slotted(L, s)
  BY <1>2, OwnerFacts
<1> QED
  BY <1>1, <1>2

\* _least_loaded_worker finds one when there is one.
LEMMA LeastLoadedFacts ==
  ASSUME NEW L \in SchedStates, Candidates(L) # {}
  PROVE  LeastLoaded(L) \in Candidates(L)
<1> DEFINE C == Candidates(L)
           N == {n \in Nat : \E w \in C : Load(L, w) = n}
<1>1. C \in SUBSET Workers /\ \A w \in C : Load(L, w) \in Nat
  BY LoadType DEF Candidates
<1>2. PICK n \in N : \A m \in N : n <= m
  <2>1. N \in SUBSET Nat /\ N # {}
    BY <1>1
  <2> QED
    BY <2>1, LeastNumber
<1> DEFINE W == {w \in C : Load(L, w) = n}
<1>3. PICK w \in W : \A v \in W : w <= v
  <2>1. W \in SUBSET Nat /\ W # {}
    BY <1>1, <1>2, WorkerSets
  <2> QED
    BY <2>1, LeastNumber
<1>4. ASSUME NEW v \in C
      PROVE  Load(L, w) < Load(L, v) \/ (Load(L, w) = Load(L, v) /\ w <= v)
  BY <1>1, <1>2, <1>3
<1>5. \E x \in C : \A v \in C :
        Load(L, x) < Load(L, v) \/ (Load(L, x) = Load(L, v) /\ x <= v)
  BY <1>3, <1>4
<1> QED
  BY <1>5 DEF LeastLoaded

LEMMA HasRoomFacts ==
  ASSUME NEW L \in SchedStates, NEW w \in Candidates(L)
  PROVE  w \in Workers /\ w \in L.up /\ Load(L, w) < Capacity
BY DEF Candidates, HasRoom

\* A slot for a session that had no place.
LEMMA GiveFacts ==
  ASSUME NEW L \in SchedStates, Sound(L), NEW w \in Workers, Load(L, w) < Capacity,
         NEW s \in Sessions, ~ Placed(L, s)
  PROVE  /\ Give(L, w, s) \in SchedStates /\ Sound(Give(L, w, s))
         /\ s \in Give(L, w, s).slots[w]
         /\ \A t \in Sessions \ {s} : Served(L, Give(L, w, s), t)
<1> DEFINE N == Give(L, w, s)
<1>1. /\ N \in SchedStates
      /\ N.queue = L.queue
      /\ N.slots[w] = L.slots[w] \cup {s}
      /\ \A v \in Workers \ {w} : N.slots[v] = L.slots[v]
  BY DEF Give, SchedStates
<1> HIDE DEF N
<1>2. ASSUME NEW v \in Workers
      PROVE  Load(N, v) <= Capacity
  <2>1. CASE v = w
    <3>1. Load(N, v) = Load(L, w) + 1
      BY <1>1, <2>1, LoadType, FS_AddElement DEF Load, Placed, Slotted
    <3> QED
      BY <3>1, LoadType, AdmissionAssumption
  <2>2. CASE v # w
    BY <1>1, <2>2 DEF Load, Sound
  <2> QED
    BY <2>1, <2>2
<1>3. Sound(N)
  <2>1. \A t \in Sessions, v \in Workers :
          t \in N.slots[v] <=> (t \in L.slots[v] \/ (t = s /\ v = w))
    BY <1>1
  <2>2. \A t \in Sessions : InQueue(N.queue, t) <=> InQueue(L.queue, t)
    BY <1>1
  <2> QED
    BY <1>1, <1>2, <2>1, <2>2 DEF Sound, Placed, Slotted
<1>4. \A t \in Sessions \ {s} : Served(L, N, t)
  BY <1>1 DEF Served, Placed, Slotted
<1> QED
  BY <1>1, <1>3, <1>4 DEF N

\* assign.
LEMMA AssignFacts ==
  ASSUME NEW L \in SchedStates, Sound(L), NEW s \in Sessions, ~ Placed(L, s)
  PROVE  /\ Assign(L, s) \in SchedStates /\ Sound(Assign(L, s))
         /\ Placed(Assign(L, s), s)
         /\ \A t \in Sessions \ {s} : Served(L, Assign(L, s), t)
         /\ \A t \in Sessions \ {s} : Slotted(Assign(L, s), t) => Slotted(L, t)
<1> DEFINE N == Assign(L, s)
<1>1. CASE Candidates(L) # {}
  <2>1. N = Give(L, LeastLoaded(L), s)
    BY <1>1 DEF Assign
  <2>2. LeastLoaded(L) \in Workers /\ Load(L, LeastLoaded(L)) < Capacity
    BY <1>1, LeastLoadedFacts, HasRoomFacts
  <2>3. \A t \in Sessions \ {s} : Slotted(N, t) => Slotted(L, t)
    BY <2>1, <2>2 DEF Give, Slotted, SchedStates
  <2> QED
    BY <2>1, <2>2, <2>3, GiveFacts DEF Placed, Slotted
<1>2. CASE Candidates(L) = {}
  <2> DEFINE q == Append(L.queue, s)
  <2>1. /\ L.queue \in Seq(Sessions) /\ Len(L.queue) \in Nat
        /\ q \in Seq(Sessions) /\ Len(q) = Len(L.queue) + 1
        /\ q[Len(q)] = s /\ \A i \in 1 .. Len(L.queue) : q[i] = L.queue[i]
    BY DEF SchedStates
  <2>2. N.queue = q /\ N.slots = L.slots /\ N \in SchedStates
    BY <1>2, <2>1 DEF Assign, SchedStates
  <2> HIDE DEF N, q
  <2>3. \A t : InQueue(q, t) <=> InQueue(L.queue, t) \/ t = s
    BY <2>1 DEF InQueue
  <2>4. Distinct(q)
    BY <2>1 DEF Distinct, Sound, InQueue, Placed
  <2>5. Sound(N)
    BY <2>2, <2>3, <2>4 DEF Sound, Load, Placed, Slotted
  <2> QED
    BY <2>2, <2>3, <2>5 DEF Served, Placed, Slotted, N
<1> QED
  BY <1>1, <1>2

\* The head leaves the queue.
LEMMA TailFacts ==
  ASSUME NEW L \in SchedStates, Sound(L), L.queue # << >>
  PROVE  LET T == [L EXCEPT !.queue = Tail(@)]
             h == Head(L.queue)
         IN  /\ T \in SchedStates /\ Sound(T) /\ T.slots = L.slots
             /\ h \in Sessions /\ InQueue(L.queue, h) /\ ~ Placed(T, h)
             /\ \A t : InQueue(T.queue, t) <=> InQueue(L.queue, t) /\ t # h
<1> DEFINE T == [L EXCEPT !.queue = Tail(@)]
           q == L.queue
           r == Tail(q)
           h == Head(q)
<1>1. q \in Seq(Sessions) /\ T.queue = r /\ T.slots = L.slots
  BY DEF SchedStates
<1>2. /\ h = q[1] /\ h \in Sessions
      /\ r \in Seq(Sessions) /\ Len(r) = Len(q) - 1
      /\ \A i \in 1 .. Len(r) : r[i] = q[i + 1]
      /\ Len(q) \in Nat /\ Len(q) > 0
  BY <1>1, HeadTailProperties, EmptySeq
<1>3. T \in SchedStates
  BY <1>2 DEF SchedStates
<1> HIDE DEF T, r, h
<1>4. InQueue(q, h)
  BY <1>2 DEF InQueue
<1>5. \A t : InQueue(r, t) <=> InQueue(q, t) /\ t # h
  <2>1. ASSUME NEW i \in 1 .. Len(r)
        PROVE  InQueue(q, r[i]) /\ r[i] # h
    <3>1. i + 1 \in 1 .. Len(q) /\ i + 1 # 1 /\ 1 \in 1 .. Len(q)
      BY <1>2
    <3> QED
      BY <1>2, <3>1 DEF InQueue, Sound, Distinct
  <2>2. ASSUME NEW i \in 1 .. Len(q), q[i] # h
        PROVE  InQueue(r, q[i])
    <3>1. i - 1 \in 1 .. Len(r) /\ r[i - 1] = q[i]
      BY <1>2, <2>2
    <3> QED
      BY <3>1 DEF InQueue
  <2> QED
    BY <2>1, <2>2 DEF InQueue
<1>6. Distinct(r)
  <2>1. ASSUME NEW i \in 1 .. Len(r), NEW j \in 1 .. Len(r), r[i] = r[j]
        PROVE  i = j
    <3>1. i + 1 \in 1 .. Len(q) /\ j + 1 \in 1 .. Len(q)
      BY <1>2
    <3>2. q[i + 1] = q[j + 1]
      BY <1>2, <2>1
    <3> QED
      BY <3>1, <3>2 DEF Sound, Distinct
  <2> QED
    BY <2>1 DEF Distinct
<1>7. Sound(T)
  BY <1>1, <1>5, <1>6 DEF Sound, Load
<1>8. ~ Placed(T, h)
  BY <1>1, <1>2, <1>4, <1>5 DEF Placed, Slotted, Sound
<1> QED
  BY <1>1, <1>2, <1>3, <1>4, <1>5, <1>7, <1>8 DEF T, h

\* The head of the queue gets a slot.
LEMMA GiveFirstFacts ==
  ASSUME NEW L \in SchedStates, Sound(L), L.queue # << >>,
         NEW w \in Workers, Load(L, w) < Capacity
  PROVE  /\ GiveFirst(L, w) \in SchedStates /\ Sound(GiveFirst(L, w))
         /\ \A t \in Sessions : Served(L, GiveFirst(L, w), t)
<1> DEFINE T == [L EXCEPT !.queue = Tail(@)]
           h == Head(L.queue)
           N == Give(T, w, h)
<1>1. /\ T \in SchedStates /\ Sound(T) /\ T.slots = L.slots
      /\ h \in Sessions /\ InQueue(L.queue, h) /\ ~ Placed(T, h)
      /\ \A t : InQueue(T.queue, t) <=> InQueue(L.queue, t) /\ t # h
  BY TailFacts
<1>2. GiveFirst(L, w) = N
  BY DEF GiveFirst, Give, SchedStates
<1> HIDE DEF T, h
<1>3. Load(T, w) < Capacity
  BY <1>1 DEF Load
<1>4. /\ N \in SchedStates /\ Sound(N) /\ h \in N.slots[w]
      /\ \A t \in Sessions \ {h} : Served(T, N, t)
  BY <1>1, <1>3, GiveFacts
<1> HIDE DEF N
<1>5. \A t \in Sessions \ {h} : Served(L, N, t)
  BY <1>1, <1>4 DEF Served, Placed, Slotted
<1>6. Served(L, N, h)
  BY <1>1, <1>4 DEF Served, Placed, Slotted, Sound
<1> QED
  BY <1>2, <1>4, <1>5, <1>6

\* A slot is given up.
LEMMA FreedFacts ==
  ASSUME NEW L \in SchedStates, Sound(L), NEW s \in Sessions, NEW w \in Workers,
         s \in L.slots[w]
  PROVE  LET F == [L EXCEPT !.slots[w] = @ \ {s}]
         IN  /\ F \in SchedStates /\ Sound(F) /\ F.queue = L.queue /\ F.up = L.up
             /\ Load(F, w) < Capacity
             /\ \A v \in Workers \ {w} : F.slots[v] = L.slots[v]
             /\ ~ Placed(F, s)
             /\ \A t \in Sessions \ {s} : Served(L, F, t)
<1> DEFINE F == [L EXCEPT !.slots[w] = @ \ {s}]
<1>1. /\ F \in SchedStates
      /\ F.queue = L.queue /\ F.up = L.up
      /\ F.slots[w] = L.slots[w] \ {s}
      /\ \A v \in Workers \ {w} : F.slots[v] = L.slots[v]
  BY DEF SchedStates
<1> HIDE DEF F
<1>2. Load(F, w) = Load(L, w) - 1
  <2>1. IsFiniteSet(L.slots[w])
    BY LoadType
  <2>2. Cardinality(L.slots[w] \ {s}) = Cardinality(L.slots[w]) - 1
    BY <2>1, FS_RemoveElement
  <2> QED
    BY <1>1, <2>2 DEF Load
<1>3. Load(F, w) < Capacity
  BY <1>2, LoadType, AdmissionAssumption DEF Sound
<1>4. Sound(F)
  <2>1. \A v \in Workers : Load(F, v) <= Capacity
    <3>1. \A v \in Workers \ {w} : Load(F, v) = Load(L, v)
      BY <1>1 DEF Load
    <3>2. Load(F, w) <= Capacity
      BY <1>1, <1>3, LoadType, AdmissionAssumption
    <3> QED
      BY <3>1, <3>2 DEF Sound
  <2>2. \A t \in Sessions, v \in Workers : t \in F.slots[v] => t \in L.slots[v]
    BY <1>1
  <2> QED
    BY <1>1, <2>1, <2>2 DEF Sound
<1>5. ~ Placed(F, s)
  BY <1>1 DEF Placed, Slotted, Sound
<1>6. \A t \in Sessions \ {s} : Served(L, F, t)
  BY <1>1 DEF Served, Placed, Slotted
<1> QED
  BY <1>1, <1>3, <1>4, <1>5, <1>6 DEF F

\* release_session: s has no place any more, and the others have theirs.
LEMMA ReleaseFacts ==
  ASSUME NEW L \in SchedStates, Sound(L), NEW s \in Sessions
  PROVE  /\ Release(L, s) \in SchedStates /\ Sound(Release(L, s))
         /\ ~ Placed(Release(L, s), s)
         /\ \A t \in Sessions \ {s} : Served(L, Release(L, s), t)
<1> DEFINE w == Owner(L, s)
           F == [L EXCEPT !.slots[w] = @ \ {s}]
<1>1. CASE w = NoWorker
  <2> DEFINE N == Dequeued(L, s)
  <2>1. /\ N.queue = RemoveFirst(L.queue, s) /\ N.slots = L.slots
        /\ N \in SchedStates /\ Distinct(N.queue)
        /\ \A t : InQueue(N.queue, t) <=> InQueue(L.queue, t) /\ t # s
    BY RemoveFirstFacts DEF Dequeued, SchedStates, Sound
  <2> HIDE DEF N
  <2>2. Sound(N)
    BY <2>1 DEF Sound, Load
  <2>3. ~ Placed(N, s)
    BY <1>1, <2>1, OwnerFacts DEF Placed, Slotted
  <2>4. \A t \in Sessions \ {s} : Served(L, N, t)
    BY <2>1 DEF Served, Placed, Slotted
  <2>5. Release(L, s) = N
    BY <1>1 DEF Release, N
  <2> QED
    BY <2>1, <2>2, <2>3, <2>4, <2>5
<1>2. CASE w # NoWorker
  <2>1. w \in Workers /\ s \in L.slots[w]
    BY <1>2, OwnerFacts
  <2>2. /\ F \in SchedStates /\ Sound(F) /\ F.queue = L.queue
        /\ Load(F, w) < Capacity
        /\ ~ Placed(F, s)
        /\ \A t \in Sessions \ {s} : Served(L, F, t)
    BY <2>1, FreedFacts
  <2>3. CASE L.queue = << >> \/ w \notin L.up
    <3>1. Release(L, s) = F
      BY <1>2, <2>3 DEF Release
    <3> QED
      BY <2>2, <3>1
  <2>4. CASE ~ (L.queue = << >> \/ w \notin L.up)
    <3> DEFINE N == GiveFirst(F, w)
    <3>1. Release(L, s) = N
      BY <1>2, <2>4 DEF Release
    <3> HIDE DEF F, w
    <3>2. /\ N \in SchedStates /\ Sound(N)
          /\ \A t \in Sessions : Served(F, N, t)
      BY <2>1, <2>2, <2>4, GiveFirstFacts
    <3> HIDE DEF N
    <3>3. ~ Placed(N, s)
      BY <2>2, <3>2 DEF Served
    <3>4. \A t \in Sessions \ {s} : Served(L, N, t)
      BY <2>2, <3>2 DEF Served
    <3> QED
      BY <3>1, <3>2, <3>3, <3>4
  <2> QED
    BY <2>3, <2>4
<1> QED
  BY <1>1, <1>2

\* reassign_session: s has its one slot at the target.
LEMMA ReassignFacts ==
  ASSUME NEW L \in SchedStates, Sound(L), NEW s \in Sessions, NEW v \in Workers,
         CanReassign(L, s, v)
  PROVE  /\ Reassign(L, s, v) \in SchedStates /\ Sound(Reassign(L, s, v))
         /\ Slotted(L, s) /\ s \in Reassign(L, s, v).slots[v]
         /\ \A t \in Sessions \ {s} : Served(L, Reassign(L, s, v), t)
         /\ \A t \in Sessions \ {s} : Slotted(Reassign(L, s, v), t) => Slotted(L, t)
<1> DEFINE w == Owner(L, s)
           F == [L EXCEPT !.slots[w] = @ \ {s}]
           N == Give(F, v, s)
<1>1. w \in Workers /\ s \in L.slots[w] /\ (w = v \/ HasRoom(L, v))
  BY OwnerFacts DEF CanReassign
<1>2. /\ F \in SchedStates /\ Sound(F) /\ F.queue = L.queue
      /\ Load(F, w) < Capacity
      /\ \A x \in Workers \ {w} : F.slots[x] = L.slots[x]
      /\ ~ Placed(F, s)
      /\ \A t \in Sessions \ {s} : Served(L, F, t)
  BY <1>1, FreedFacts
<1>3. Reassign(L, s, v) = N
  BY DEF Reassign
<1> HIDE DEF F, w
<1>4. Load(F, v) < Capacity
  BY <1>1, <1>2 DEF HasRoom, Load
<1>5. /\ N \in SchedStates /\ Sound(N) /\ s \in N.slots[v]
      /\ \A t \in Sessions \ {s} : Served(F, N, t)
  BY <1>2, <1>4, GiveFacts
<1>6. N.queue = F.queue
  BY <1>2 DEF Give, SchedStates
<1> HIDE DEF N
<1>7. ASSUME NEW t \in Sessions \ {s}
      PROVE  Served(L, N, t) /\ (Slotted(N, t) => Slotted(L, t))
  <2>1. Served(L, N, t)
    BY <1>2, <1>5 DEF Served
  <2>2. Slotted(N, t) => ~ InQueue(N.queue, t)
    BY <1>5 DEF Slotted, Sound
  <2> QED
    BY <1>2, <1>6, <2>1, <2>2 DEF Served, Placed
<1> QED
  BY <1>1, <1>3, <1>5, <1>7 DEF Slotted

LEMMA GreatestNumber ==
  ASSUME NEW n \in Nat, NEW I \in SUBSET (1 .. n), I # {}
  PROVE  \E i \in I : \A j \in I : j <= i
<1> DEFINE D == {n - i : i \in I}
<1>1. D \in SUBSET Nat /\ D # {}
  <2>1. \A i \in I : n - i \in Nat
    OBVIOUS
  <2> QED
    BY <2>1
<1>2. PICK d \in D : \A e \in D : d <= e
  BY <1>1, LeastNumber
<1>3. PICK i \in I : d = n - i
  BY <1>2
<1>4. \A j \in I : n - i <= n - j
  BY <1>2, <1>3
<1> QED
  BY <1>4

\* drain_queue: who leaves the queue gets a slot.
LEMMA DrainsFacts ==
  ASSUME NEW L \in SchedStates, Sound(L), NEW n \in 0 .. Len(L.queue),
         NEW given \in [1 .. n -> Workers], Drains(L, given, n)
  PROVE  /\ GiveEach(L, given, n) \in SchedStates /\ Sound(GiveEach(L, given, n))
         /\ \A t \in Sessions : Served(L, GiveEach(L, given, n), t)
<1> DEFINE q == L.queue
           Taken(w, k) == {q[i] : i \in {j \in 1 .. k : given[j] = w}}
           N == GiveEach(L, given, n)
<1>1. q \in Seq(Sessions) /\ Len(q) \in Nat /\ n \in Nat /\ n <= Len(q)
  BY DEF SchedStates
<1>2. ASSUME NEW k \in 0 .. n
      PROVE  /\ GiveEach(L, given, k) \in SchedStates
             /\ \A w \in Workers : GiveEach(L, given, k).slots[w] = L.slots[w] \cup Taken(w, k)
             /\ GiveEach(L, given, k).queue = SubSeq(q, k + 1, Len(q))
  <2>1. SubSeq(q, k + 1, Len(q)) \in Seq(Sessions)
    <3>1. \A i \in k + 1 .. Len(q) : q[i] \in Sessions
      BY <1>1
    <3>2. k + 1 \in Int /\ Len(q) \in Int
      BY <1>1
    <3> QED
      BY ONLY <3>1, <3>2, SubSeqProperties
  <2>2. \A w \in Workers : Taken(w, k) \in SUBSET Sessions
    BY <1>1
  <2>3. /\ GiveEach(L, given, k).slots = [w \in Workers |-> L.slots[w] \cup Taken(w, k)]
        /\ GiveEach(L, given, k).queue = SubSeq(q, k + 1, Len(q))
        /\ GiveEach(L, given, k) =
             [L EXCEPT !.slots = [w \in Workers |-> L.slots[w] \cup Taken(w, k)],
                       !.queue = SubSeq(q, k + 1, Len(q))]
    BY DEF GiveEach, SchedStates
  <2> HIDE DEF Taken
  <2>4. [w \in Workers |-> L.slots[w] \cup Taken(w, k)] \in [Workers -> SUBSET Sessions]
    BY <2>2 DEF SchedStates
  <2> QED
    BY <2>1, <2>3, <2>4 DEF SchedStates
<1> DEFINE r == SubSeq(q, n + 1, Len(q))
<1>3. /\ r \in Seq(Sessions) /\ Len(r) = Len(q) - n
      /\ \A i \in 1 .. Len(q) - n : r[i] = q[n + i]
  <2>1. \A i \in n + 1 .. Len(q) : q[i] \in Sessions
    BY <1>1
  <2>2. n + 1 \in Int /\ Len(q) \in Int
    BY <1>1
  <2>3. /\ r \in Seq(Sessions)
        /\ Len(r) = IF n + 1 <= Len(q) THEN Len(q) - (n + 1) + 1 ELSE 0
        /\ \A i \in 1 .. Len(q) - (n + 1) + 1 : r[i] = q[n + 1 + i - 1]
    BY ONLY <2>1, <2>2, SubSeqProperties
  <2> HIDE DEF r
  <2> QED
    BY <1>1, <2>3
<1> HIDE DEF r
<1>4. /\ N \in SchedStates /\ N.queue = r
      /\ \A w \in Workers : N.slots[w] = L.slots[w] \cup Taken(w, n)
  <2>1. n \in 0 .. n
    BY <1>1
  <2> QED
    BY <1>2, <2>1 DEF r
<1> HIDE DEF N
\* The last one a worker is given finds it with room.
<1>5. ASSUME NEW w \in Workers
      PROVE  Load(N, w) <= Capacity
  <2> DEFINE J == {j \in 1 .. n : given[j] = w}
  <2>1. CASE J = {}
    <3>1. Taken(w, n) = {}
      BY <2>1
    <3>2. N.slots[w] = L.slots[w]
      BY <1>4, <3>1
    <3> QED
      BY <3>2 DEF Load, Sound
  <2>2. CASE J # {}
    <3>1. PICK m \in J : \A j \in J : j <= m
      BY <1>1, <2>2, GreatestNumber
    <3>2. m \in 1 .. n /\ m - 1 \in 0 .. n /\ given[m] = w
      BY <1>1, <3>1
    <3> DEFINE B == GiveEach(L, given, m - 1)
    <3>3. B \in SchedStates /\ B.slots[w] = L.slots[w] \cup Taken(w, m - 1)
      BY <1>2, <3>2
    <3>4. Candidates(B) # {} /\ w = LeastLoaded(B)
      BY <3>2 DEF Drains
    <3> HIDE DEF B
    <3>5. Load(B, w) < Capacity
      BY <3>3, <3>4, LeastLoadedFacts, HasRoomFacts
    <3>6. Taken(w, n) = Taken(w, m - 1) \cup {q[m]}
      <4>1. J = {j \in 1 .. m - 1 : given[j] = w} \cup {m}
        BY <1>1, <3>1, <3>2
      <4> QED
        BY <4>1
    <3> HIDE DEF Taken
    <3>7. N.slots[w] = B.slots[w] \cup {q[m]}
      BY <1>4, <3>3, <3>6
    <3>8. Load(N, w) <= Load(B, w) + 1
      <4>1. IsFiniteSet(B.slots[w]) /\ Cardinality(B.slots[w]) \in Nat
        BY <3>3, LoadType DEF Load
      <4>2. Cardinality(B.slots[w] \cup {q[m]})
              = IF q[m] \in B.slots[w] THEN Cardinality(B.slots[w])
                                       ELSE Cardinality(B.slots[w]) + 1
        BY <4>1, FS_AddElement
      <4> QED
        BY <3>7, <4>1, <4>2 DEF Load
    <3> QED
      BY <1>4, <3>3, <3>5, <3>8, LoadType, AdmissionAssumption
  <2> QED
    BY <2>1, <2>2
<1>6. \A t \in Sessions, w \in Workers :
        t \in N.slots[w] <=>
          t \in L.slots[w] \/ \E i \in 1 .. n : q[i] = t /\ given[i] = w
  BY <1>4
<1>7. \A t : InQueue(r, t) <=> \E i \in n + 1 .. Len(q) : q[i] = t
  <2>1. \A i \in 1 .. Len(r) : n + i \in n + 1 .. Len(q) /\ r[i] = q[n + i]
    BY <1>1, <1>3
  <2>2. \A i \in n + 1 .. Len(q) : i - n \in 1 .. Len(r) /\ r[i - n] = q[i]
    BY <1>1, <1>3
  <2> QED
    BY <2>1, <2>2 DEF InQueue
<1>8. Distinct(r)
  <2>1. ASSUME NEW i \in 1 .. Len(r), NEW j \in 1 .. Len(r), r[i] = r[j]
        PROVE  i = j
    <3>1. n + i \in 1 .. Len(q) /\ n + j \in 1 .. Len(q) /\ q[n + i] = q[n + j]
      BY <1>1, <1>3, <2>1
    <3> QED
      BY <1>1, <3>1 DEF Sound, Distinct
  <2> QED
    BY <2>1 DEF Distinct
<1>9. \A i \in 1 .. n : i \in 1 .. Len(q) /\ given[i] \in Workers
  BY <1>1
<1>10. \A i \in n + 1 .. Len(q) : i \in 1 .. Len(q) /\ i \notin 1 .. n
  BY <1>1
<1>11. \A i \in 1 .. Len(q) : i \in 1 .. n \/ i \in n + 1 .. Len(q)
  BY <1>1
<1>12. Sound(N)
  <2>1. ASSUME NEW s \in Sessions, NEW w \in Workers, NEW v \in Workers,
               s \in N.slots[w], s \in N.slots[v]
        PROVE  w = v
    BY <1>6, <1>9, <2>1 DEF Sound, Distinct, InQueue
  <2>2. ASSUME NEW s \in Sessions, NEW w \in Workers, InQueue(r, s), s \in N.slots[w]
        PROVE  FALSE
    <3>1. PICK i \in n + 1 .. Len(q) : q[i] = s
      BY <1>7, <2>2
    <3>2. i \in 1 .. Len(q) /\ i \notin 1 .. n
      BY <1>10
    <3>3. CASE s \in L.slots[w]
      BY <3>1, <3>2, <3>3 DEF Sound, InQueue
    <3>4. CASE \E j \in 1 .. n : q[j] = s
      BY <1>9, <3>1, <3>2, <3>4 DEF Sound, Distinct
    <3> QED
      BY <1>6, <2>2, <3>3, <3>4
  <2> QED
    BY <1>4, <1>5, <1>8, <2>1, <2>2 DEF Sound
<1>13. ASSUME NEW t \in Sessions
       PROVE  Served(L, N, t)
  <2>1. \A w \in Workers : t \in L.slots[w] => t \in N.slots[w]
    BY <1>6
  <2>2. InQueue(r, t) => InQueue(q, t)
    BY <1>7, <1>10 DEF InQueue
  <2>3. Placed(N, t) <=> Placed(L, t)
    BY <1>4, <1>6, <1>7, <1>9, <1>10, <1>11 DEF Placed, Slotted, InQueue
  <2> QED
    BY <1>4, <2>1, <2>2, <2>3 DEF Served
<1> QED
  BY <1>4, <1>12, <1>13 DEF N

-----------------------------------------------------------------------------
(* The inductive invariant.                                                *)

\* A session has a place from its admission until it is finished, and the
\* registry names the worker of its slot.
BooksInv ==
  \A s \in Sessions :
    /\ Placed(sched, s) <=> rec[s].status # "none" /\ s \notin finished
    /\ s \notin finished => Owner(sched, s) = rec[s].worker
    /\ rec[s].status = "none" => s \notin finished

\* Only a session with a slot gets a runner, and until it begins, its worker is
\* the one of the slot.
RunnersInv ==
  \A s \in Sessions :
    /\ InQueue(sched.queue, s) \/ rec[s].status = "none" => runner[s] = "none"
    /\ runner[s] = "created" => s \in sched.slots[transport[s]]
    /\ runner[s] # "none" => transport[s] \in Workers

\* A runner that does not stream yet.
Early == {"none", "created", "joining"}
CopiesOf(s) == {w \in Workers : <<s, w>> \in copies}

\* There is no model state before the runner streams; then it is where the route
\* says, and on the target of a migration that imported it.
ModelsInv ==
  \A s \in Sessions :
    /\ runner[s] \in Early => route[s] = NoWorker /\ CopiesOf(s) = {}
    /\ route[s] # NoWorker =>
         CopiesOf(s) = {route[s]} \cup (IF control.at = "imported" /\ control.session = s
                                          THEN {control.target} ELSE {})

\* A migration is of a session that streams, or did, from where its route is.
ControlInv ==
  control.at \in Moving =>
    /\ control.session \in Sessions /\ runner[control.session] \notin Early
    /\ control.source \in Workers /\ control.target \in Workers \ {control.source}
    /\ control.at # "committed" /\ route[control.session] # NoWorker =>
         route[control.session] = control.source

\* A stopper waits for a session that has, or had, a runner.
StoppersInv ==
  \A d \in Stoppers : stopper[d].at \in {"waiting", "cancelling"} =>
    stopper[d].session \in Sessions /\ runner[stopper[d].session] # "none"

ServingInv ==
  ServingTypes /\ Sound(sched) /\ BooksInv /\ RunnersInv /\ ModelsInv /\ ControlInv

IInv == ServingInv /\ StopperTypes /\ StoppersInv

LEMMA InitIInv == Init => IInv
<1> SUFFICES ASSUME Init PROVE IInv
  OBVIOUS
<1>1. /\ NewScheduler.slots = [w \in Workers |-> {}]
      /\ NewScheduler.queue = << >> /\ NewScheduler \in SchedStates
  BY DEF NewScheduler, SchedStates
<1>2. \A w \in Workers : Load(NewScheduler, w) = 0
  BY <1>1, FS_EmptySet DEF Load
<1>3. \A s : ~ InQueue(NewScheduler.queue, s) /\ ~ Slotted(NewScheduler, s)
  BY <1>1, EmptySeq DEF InQueue, Slotted
<1>4. Sound(sched)
  BY <1>1, <1>2, <1>3, AdmissionAssumption DEF Init, Sound, Distinct, Slotted
<1>5. ServingTypes /\ StopperTypes
  BY <1>1 DEF Init, ServingTypes, StopperTypes, Records, SessionStatus, RunnerStates, Quiet,
              NoStop, NoSession
<1>6. \A s \in Sessions : Owner(sched, s) = NoWorker
  BY <1>3 DEF Init, Owner, Slotted
<1>7. BooksInv /\ RunnersInv
  BY <1>3, <1>6 DEF Init, BooksInv, RunnersInv, Placed
<1>8. ModelsInv /\ ControlInv /\ StoppersInv
  BY DEF Init, ModelsInv, ControlInv, StoppersInv, CopiesOf, Quiet, NoStop, Moving
<1> QED
  BY <1>4, <1>5, <1>7, <1>8 DEF IInv, ServingInv

\* A status that is shown changes neither the worker nor whether there is a record.
LEMMA ShownFacts ==
  ASSUME rec \in [Sessions -> Records], NEW s \in Sessions, rec[s].status # "none",
         NEW status \in SessionStatus \ {"none"}
  PROVE  /\ Shown(s, status) \in [Sessions -> Records]
         /\ \A t \in Sessions : /\ Shown(s, status)[t].worker = rec[t].worker
                                /\ Shown(s, status)[t].status = "none" <=> rec[t].status = "none"
BY DEF Shown, Records, SessionStatus

\* The sessions of X (one that ends, or none) lose their place, and those that get
\* a slot get a runner.
Starts(X, next, records, runners) ==
  /\ X \in SUBSET Sessions /\ finished' = finished \cup X
  /\ next \in SchedStates /\ Sound(next)
  /\ records \in [Sessions -> Records] /\ runners \in [Sessions -> RunnerStates]
  /\ \A t \in Sessions \ X : Served(sched, next, t) /\ runners[t] = runner[t]
  /\ \A t \in X : /\ ~ Placed(next, t) /\ rec[t].status # "none"
                  /\ runners[t] # "created" /\ (runner[t] = "none" <=> runners[t] = "none")
  /\ \A t \in Sessions : /\ records[t].worker = rec[t].worker
                         /\ records[t].status = "none" <=> rec[t].status = "none"
  /\ StartAll(Admitted(next), next, records, runners)

LEMMA Started ==
  ASSUME ServingInv, NEW X, NEW next, NEW records, NEW runners,
         Starts(X, next, records, runners)
  PROVE  /\ sched' \in SchedStates /\ rec' \in [Sessions -> Records]
         /\ finished' \in SUBSET Sessions /\ runner' \in [Sessions -> RunnerStates]
         /\ transport' \in [Sessions -> Workers \cup {NoWorker}]
         /\ Sound(sched') /\ BooksInv' /\ RunnersInv'
         /\ \A t \in Sessions : runner'[t] = runners[t] \/ (runner[t] = "none" /\ runner'[t] = "created")
<1> DEFINE S == Admitted(next)
<1>0. /\ X \in SUBSET Sessions /\ finished' = finished \cup X
      /\ next \in SchedStates /\ Sound(next)
      /\ records \in [Sessions -> Records] /\ runners \in [Sessions -> RunnerStates]
      /\ \A t \in Sessions \ X : Served(sched, next, t) /\ runners[t] = runner[t]
      /\ \A t \in X : /\ ~ Placed(next, t) /\ rec[t].status # "none"
                      /\ runners[t] # "created" /\ (runner[t] = "none" <=> runners[t] = "none")
      /\ \A t \in Sessions : /\ records[t].worker = rec[t].worker
                             /\ records[t].status = "none" <=> rec[t].status = "none"
      /\ StartAll(Admitted(next), next, records, runners)
  BY DEF Starts
<1>1. /\ sched' = next
      /\ rec' = [t \in Sessions |-> IF t \in S THEN [status |-> "assigned", worker |-> Owner(next, t)]
                                               ELSE records[t]]
      /\ runner' = [t \in Sessions |-> IF t \in S THEN "created" ELSE runners[t]]
      /\ transport' = [t \in Sessions |-> IF t \in S THEN Owner(next, t) ELSE transport[t]]
  BY <1>0 DEF StartAll
<1>2. \A t \in Sessions :
        /\ Owner(next, t) \in Workers \cup {NoWorker}
        /\ Owner(next, t) = NoWorker <=> ~ Slotted(next, t)
        /\ \A w \in Workers : Owner(next, t) = w <=> t \in next.slots[w]
  BY <1>0, OwnerFacts
<1>3. \A t \in Sessions :
        /\ Owner(sched, t) \in Workers \cup {NoWorker}
        /\ Owner(sched, t) = NoWorker <=> ~ Slotted(sched, t)
        /\ \A w \in Workers : Owner(sched, t) = w <=> t \in sched.slots[w]
  BY OwnerFacts DEF ServingInv, ServingTypes
<1>4. ASSUME NEW t \in S
      PROVE  /\ t \in Sessions \ X
             /\ Owner(next, t) \in Workers /\ t \in next.slots[Owner(next, t)]
             /\ InQueue(sched.queue, t) /\ ~ InQueue(next.queue, t)
             /\ runner[t] = "none" /\ rec[t].status # "none" /\ t \notin finished
  <2>1. t \in Sessions /\ Owner(sched, t) = NoWorker /\ Owner(next, t) # NoWorker
    BY DEF Admitted
  <2>2. Slotted(next, t) /\ ~ Slotted(sched, t)
    BY <1>0, <1>2, <1>3, <2>1
  <2>3. t \notin X
    BY <1>0, <2>2 DEF Placed
  <2>4. InQueue(sched.queue, t)
    BY <1>0, <2>1, <2>2, <2>3 DEF Served, Placed
  <2>5. ~ InQueue(next.queue, t)
    BY <1>0, <2>1, <2>2 DEF Sound, Slotted
  <2>6. runner[t] = "none" /\ rec[t].status # "none" /\ t \notin finished
    BY <1>0, <2>1, <2>4 DEF ServingInv, RunnersInv, BooksInv, Placed
  <2> QED
    BY <1>0, <1>2, <2>1, <2>3, <2>4, <2>5, <2>6
<1> HIDE DEF S
<1>5. sched' \in SchedStates /\ Sound(sched')
  BY <1>0, <1>1
<1>6. /\ rec' \in [Sessions -> Records] /\ runner' \in [Sessions -> RunnerStates]
      /\ transport' \in [Sessions -> Workers \cup {NoWorker}]
      /\ finished' \in SUBSET Sessions
  <2>1. \A t \in S : [status |-> "assigned", worker |-> Owner(next, t)] \in Records
    BY <1>0, <1>4 DEF Records, SessionStatus
  <2>2. rec' \in [Sessions -> Records]
    BY <1>0, <1>1, <2>1
  <2>3. runner' \in [Sessions -> RunnerStates]
    BY <1>0, <1>1 DEF RunnerStates
  <2>4. transport' \in [Sessions -> Workers \cup {NoWorker}]
    BY <1>0, <1>1, <1>4 DEF ServingInv, ServingTypes
  <2> QED
    BY <1>0, <2>2, <2>3, <2>4 DEF ServingInv, ServingTypes
<1>7. BooksInv'
  <2> SUFFICES ASSUME NEW t \in Sessions
               PROVE  /\ Placed(next, t) <=> rec'[t].status # "none" /\ t \notin finished'
                      /\ t \notin finished' => Owner(next, t) = rec'[t].worker
                      /\ rec'[t].status = "none" => t \notin finished'
    BY <1>0, <1>1 DEF BooksInv
  <2>1. CASE t \in S
    <3>1. rec'[t] = [status |-> "assigned", worker |-> Owner(next, t)]
      BY <1>0, <1>1, <2>1
    <3>2. Placed(next, t) /\ t \notin finished'
      BY <1>0, <1>4, <2>1 DEF Placed, Slotted
    <3> QED
      BY <1>0, <3>1, <3>2
  <2>2. CASE t \in X
    <3>1. t \notin S
      BY <1>0, <1>4, <2>2
    <3>2. ~ Placed(next, t) /\ t \in finished' /\ rec[t].status # "none"
      BY <1>0, <2>2
    <3>3. rec'[t] = records[t] /\ (records[t].status = "none" <=> rec[t].status = "none")
      BY <1>0, <1>1, <3>1
    <3> QED
      BY <3>2, <3>3
  <2>3. CASE t \notin S /\ t \notin X
    <3>1. rec'[t] = records[t]
      BY <1>0, <1>1, <2>3
    <3>2. Served(sched, next, t) /\ (t \in finished' <=> t \in finished)
      BY <1>0, <2>3
    <3>3. Owner(next, t) = Owner(sched, t)
      <4>1. CASE Slotted(sched, t)
        <5>1. PICK w \in Workers : t \in sched.slots[w]
          BY <1>0, <4>1 DEF Slotted
        <5>2. t \in next.slots[w]
          BY <1>0, <3>2, <5>1 DEF Served
        <5> QED
          BY <1>0, <1>2, <1>3, <5>1, <5>2
      <4>2. CASE ~ Slotted(sched, t)
        BY <1>0, <1>3, <2>3, <4>2 DEF S, Admitted
      <4> QED
        BY <1>0, <4>1, <4>2
    <3>4. /\ rec'[t].worker = rec[t].worker
          /\ rec'[t].status = "none" <=> rec[t].status = "none"
      BY <1>0, <3>1
    <3> QED
      BY <3>2, <3>3, <3>4 DEF ServingInv, BooksInv, Served
  <2> QED
    BY <1>0, <2>1, <2>2, <2>3
<1>8. RunnersInv'
  <2> SUFFICES ASSUME NEW t \in Sessions
               PROVE  /\ InQueue(next.queue, t) \/ rec'[t].status = "none" => runner'[t] = "none"
                      /\ runner'[t] = "created" => t \in next.slots[transport'[t]]
                      /\ runner'[t] # "none" => transport'[t] \in Workers
    BY <1>0, <1>1 DEF RunnersInv
  <2>1. CASE t \in S
    BY <1>0, <1>1, <1>4, <2>1
  <2>2. CASE t \in X
    <3>1. t \notin S
      BY <1>0, <1>4, <2>2
    <3>2. /\ ~ Placed(next, t) /\ rec[t].status # "none" /\ runners[t] # "created"
          /\ (runner[t] = "none" <=> runners[t] = "none")
      BY <1>0, <2>2
    <3>3. /\ rec'[t] = records[t] /\ runner'[t] = runners[t] /\ transport'[t] = transport[t]
          /\ (records[t].status = "none" <=> rec[t].status = "none")
      BY <1>0, <1>1, <3>1
    <3> QED
      BY <3>2, <3>3 DEF ServingInv, RunnersInv, Placed
  <2>3. CASE t \notin S /\ t \notin X
    <3>1. /\ rec'[t] = records[t] /\ runner'[t] = runner[t] /\ transport'[t] = transport[t]
      BY <1>0, <1>1, <2>3
    <3>2. Served(sched, next, t) /\ (records[t].status = "none" <=> rec[t].status = "none")
      BY <1>0, <2>3
    <3> QED
      BY <3>1, <3>2 DEF ServingInv, RunnersInv, Served
  <2> QED
    BY <1>0, <2>1, <2>2, <2>3
<1>9. \A t \in Sessions : runner'[t] = runners[t] \/ (runner[t] = "none" /\ runner'[t] = "created")
  BY <1>0, <1>1, <1>4
<1> QED
  BY <1>0, <1>5, <1>6, <1>7, <1>8, <1>9

\* A session is finished, by whoever comes first.
LEMMA FinishKeeps ==
  ASSUME ServingInv, NEW s \in Sessions, rec[s].status # "none",
         NEW how \in TerminalStatus,
         NEW runners \in [Sessions -> RunnerStates],
         \A t \in Sessions \ {s} : runners[t] = runner[t],
         \/ runner[s] \in Done \cup {"none"} /\ runners[s] = runner[s]
         \/ runner[s] \in Closing /\ runners[s] \in Done,
         FinishSession(s, how, runners),
         UNCHANGED <<started, modelVars, control>>
  PROVE  /\ ServingInv'
         /\ \A t \in Sessions : runner[t] # "none" => runner'[t] # "none"
<1> DEFINE status == IF s \in expiring THEN "expired" ELSE how
           records == Shown(s, status)
           next == Release(sched, s)
<1>1. /\ records \in [Sessions -> Records]
      /\ \A t \in Sessions : /\ records[t].worker = rec[t].worker
                             /\ records[t].status = "none" <=> rec[t].status = "none"
  <2>1. status \in SessionStatus \ {"none"}
    BY DEF SessionStatus, TerminalStatus
  <2> QED
    BY <2>1, ShownFacts DEF ServingInv, ServingTypes
<1>2. \A t \in Sessions : runner[t] = "none" <=> runners[t] = "none"
  BY DEF Closing, Done
<1>3. runners[s] # "created"
  BY DEF Done
<1>4. /\ sched' \in SchedStates /\ rec' \in [Sessions -> Records]
      /\ finished' \in SUBSET Sessions /\ runner' \in [Sessions -> RunnerStates]
      /\ transport' \in [Sessions -> Workers \cup {NoWorker}]
      /\ Sound(sched') /\ BooksInv' /\ RunnersInv'
      /\ \A t \in Sessions : runner'[t] = runners[t] \/ (runner[t] = "none" /\ runner'[t] = "created")
  <2>1. CASE s \in finished
    <3>1. runner' = runners /\ UNCHANGED <<sched, rec, finished, transport>>
      BY <2>1 DEF FinishSession
    <3>2. RunnersInv'
      BY <1>2, <1>3, <3>1 DEF RunnersInv, ServingInv
    <3> QED
      BY <3>1, <3>2 DEF ServingInv, ServingTypes, BooksInv
  <2>2. CASE s \notin finished
    <3>1. finished' = finished \cup {s} /\ StartAll(Admitted(next), next, records, runners)
      BY <2>2 DEF FinishSession
    <3>2. /\ next \in SchedStates /\ Sound(next) /\ ~ Placed(next, s)
          /\ \A t \in Sessions \ {s} : Served(sched, next, t)
      BY ReleaseFacts DEF ServingInv, ServingTypes
    <3> HIDE DEF next, records
    <3>3. Starts({s}, next, records, runners)
      BY <1>1, <1>2, <1>3, <3>1, <3>2 DEF Starts
    <3> QED
      BY <3>3, Started
  <2> QED
    BY <2>1, <2>2
<1>5. \A t \in Sessions : runner'[t] \in Early => runner[t] \in Early
  BY <1>4 DEF Early, Done
<1>6. ModelsInv' /\ ControlInv'
  <2>1. UNCHANGED <<route, copies, control>>
    BY DEF modelVars
  <2>2. ASSUME NEW t \in Sessions, runner[t] \notin Early
        PROVE  runner'[t] \notin Early
    BY <1>5, <2>2
  <2> QED
    BY <1>5, <2>1, <2>2 DEF ModelsInv, ControlInv, CopiesOf, ServingInv
<1>7. ServingTypes'
  BY <1>4 DEF ServingInv, ServingTypes, modelVars
<1>8. \A t \in Sessions : runner[t] # "none" => runner'[t] # "none"
  BY <1>2, <1>4
<1> QED
  BY <1>4, <1>6, <1>7, <1>8 DEF ServingInv

-----------------------------------------------------------------------------
(* One lemma per action.  ServingInv is about the sessions, StoppersInv    *)
(* needs of them only that a session that has a runner keeps one.          *)

KeepsRunners == \A t \in Sessions : runner[t] # "none" => runner'[t] # "none"

\* A runner goes on, or only its record is written.
LEMMA RunnerGoesOn ==
  ASSUME ServingInv, rec' \in [Sessions -> Records], runner' \in [Sessions -> RunnerStates],
         \A t \in Sessions : /\ rec'[t].worker = rec[t].worker
                             /\ rec'[t].status = "none" <=> rec[t].status = "none",
         \A t \in Sessions : \/ runner'[t] = runner[t]
                             \/ /\ runner[t] # "none" /\ runner'[t] \notin {"none", "created"}
                                /\ runner'[t] \in Early => runner[t] \in Early,
         UNCHANGED <<sched, finished, transport, started, modelVars, control>>
  PROVE  ServingInv' /\ KeepsRunners
<1>1. UNCHANGED <<sched, finished, transport, started, route, copies, control>>
  BY DEF modelVars
<1>2. ServingTypes' /\ Sound(sched)'
  BY <1>1 DEF ServingInv, ServingTypes
<1>3. BooksInv'
  BY <1>1 DEF ServingInv, BooksInv
<1>4. RunnersInv'
  BY <1>1 DEF ServingInv, RunnersInv
<1>5. \A t \in Sessions : runner'[t] \in Early => runner[t] \in Early
  OBVIOUS
<1>6. ModelsInv'
  BY <1>1, <1>5 DEF ServingInv, ModelsInv, CopiesOf
<1>7. ControlInv'
  BY <1>1, <1>5 DEF ServingInv, ControlInv
<1>8. KeepsRunners
  BY DEF KeepsRunners
<1> QED
  BY <1>2, <1>3, <1>4, <1>6, <1>7, <1>8 DEF ServingInv

LEMMA CreateSessionKeeps ==
  ASSUME ServingInv, NEW s \in Sessions, CreateSession(s)
  PROVE  ServingInv' /\ KeepsRunners
<1> DEFINE next == Assign(sched, s)
           S == Admitted(next)
<1>1. /\ rec[s].status = "none"
      /\ UNCHANGED <<finished, started, route, copies, control>>
  BY DEF CreateSession, modelVars
<1>2. sched \in SchedStates /\ Sound(sched) /\ rec \in [Sessions -> Records]
  BY DEF ServingInv, ServingTypes
<1>3. ~ Placed(sched, s) /\ s \notin finished /\ runner[s] = "none"
  BY <1>1 DEF ServingInv, BooksInv, RunnersInv
<1>4. /\ next \in SchedStates /\ Sound(next) /\ Placed(next, s)
      /\ \A t \in Sessions \ {s} : Served(sched, next, t)
      /\ \A t \in Sessions \ {s} : Slotted(next, t) => Slotted(sched, t)
  BY <1>2, <1>3, AssignFacts
<1>5. /\ Owner(next, s) \in Workers \cup {NoWorker}
      /\ Slotted(next, s) => Owner(next, s) \in Workers /\ s \in next.slots[Owner(next, s)]
      /\ ~ Slotted(next, s) => Owner(next, s) = NoWorker /\ InQueue(next.queue, s)
      /\ Slotted(next, s) => ~ InQueue(next.queue, s)
  BY <1>4, OwnerFacts DEF Placed, Slotted, Sound
<1>6. \A t \in Sessions \ {s} : Owner(next, t) = Owner(sched, t)
  BY <1>2, <1>4, OwnerKept
<1>7. S = IF Slotted(next, s) THEN {s} ELSE {}
  <2>1. Owner(sched, s) = NoWorker
    BY <1>2, <1>3, OwnerFacts DEF Placed
  <2> QED
    BY <1>5, <1>6, <2>1, WorkerSets DEF Admitted
<1> DEFINE W == Owner(next, s)
<1> HIDE DEF next, S, W
<1>8. /\ sched' = next /\ rec' \in [Sessions -> Records]
      /\ runner' \in [Sessions -> RunnerStates]
      /\ transport' \in [Sessions -> Workers \cup {NoWorker}]
      /\ \A t \in Sessions \ {s} :
           rec'[t] = rec[t] /\ runner'[t] = runner[t] /\ transport'[t] = transport[t]
      /\ rec'[s].status # "none" /\ rec'[s].worker = W
      /\ IF Slotted(next, s) THEN runner'[s] = "created" /\ transport'[s] = W
                             ELSE runner'[s] = "none"
  <2>1. runner \in [Sessions -> RunnerStates] /\ transport \in [Sessions -> Workers \cup {NoWorker}]
    BY DEF ServingInv, ServingTypes
  <2>2. CASE Slotted(next, s)
    <3>1. StartAll({s}, next, rec, runner)
      BY <1>7, <2>2 DEF CreateSession, next, S
    <3>2. [status |-> "assigned", worker |-> W] \in Records
      BY <1>5 DEF Records, SessionStatus, W
    <3>3. /\ sched' = next
          /\ rec' = [t \in Sessions |-> IF t \in {s}
                       THEN [status |-> "assigned", worker |-> Owner(next, t)] ELSE rec[t]]
          /\ runner' = [t \in Sessions |-> IF t \in {s} THEN "created" ELSE runner[t]]
          /\ transport' = [t \in Sessions |-> IF t \in {s} THEN Owner(next, t) ELSE transport[t]]
      BY <3>1 DEF StartAll
    <3>4. /\ rec'[s] = [status |-> "assigned", worker |-> W]
          /\ transport'[s] = W /\ runner'[s] = "created"
      BY <3>3 DEF W
    <3>5. \A t \in Sessions \ {s} :
            rec'[t] = rec[t] /\ runner'[t] = runner[t] /\ transport'[t] = transport[t]
      BY <3>3
    <3>6. /\ rec' \in [Sessions -> Records] /\ runner' \in [Sessions -> RunnerStates]
          /\ transport' \in [Sessions -> Workers \cup {NoWorker}]
      BY <1>2, <1>5, <2>1, <3>2, <3>3, <3>4, <3>5 DEF RunnerStates, W
    <3> QED
      BY <2>2, <3>3, <3>4, <3>5, <3>6
  <2>3. CASE ~ Slotted(next, s)
    <3>1. /\ sched' = next /\ rec' = [rec EXCEPT ![s].status = "queued"]
          /\ runner' = runner /\ transport' = transport
      BY <1>7, <2>3 DEF CreateSession, next, S, runnerVars
    <3>2. rec[s].worker = W
      BY <1>1, <1>2, <1>3, <1>5, <2>3, OwnerFacts DEF ServingInv, BooksInv, Placed, W
    <3> QED
      BY <1>2, <1>3, <2>1, <2>3, <3>1, <3>2 DEF Records, SessionStatus
  <2> QED
    BY <2>2, <2>3
<1>9. ServingTypes' /\ Sound(sched)'
  BY <1>1, <1>4, <1>8 DEF ServingInv, ServingTypes
<1>10. BooksInv'
  <2>1. ASSUME NEW t \in Sessions \ {s}
        PROVE  /\ Placed(next, t) <=> rec'[t].status # "none" /\ t \notin finished
               /\ t \notin finished => Owner(next, t) = rec'[t].worker
               /\ rec'[t].status = "none" => t \notin finished
    BY <1>4, <1>6, <1>8 DEF ServingInv, BooksInv, Served
  <2> QED
    BY <1>1, <1>3, <1>4, <1>8, <2>1 DEF BooksInv, W
<1>11. RunnersInv'
  <2>1. ASSUME NEW t \in Sessions \ {s}
        PROVE  /\ InQueue(next.queue, t) \/ rec'[t].status = "none" => runner'[t] = "none"
               /\ runner'[t] = "created" => t \in next.slots[transport'[t]]
               /\ runner'[t] # "none" => transport'[t] \in Workers
    BY <1>4, <1>8 DEF ServingInv, RunnersInv, Served
  <2> QED
    BY <1>5, <1>8, <2>1 DEF RunnersInv, W
<1>12. runner'[s] \in Early /\ runner[s] \in Early
  BY <1>3, <1>8 DEF Early
<1>13. ModelsInv' /\ ControlInv'
  BY <1>1, <1>8, <1>12 DEF ServingInv, ModelsInv, ControlInv, CopiesOf
<1>14. KeepsRunners
  BY <1>3, <1>8 DEF KeepsRunners
<1> QED
  BY <1>9, <1>10, <1>11, <1>13, <1>14 DEF ServingInv

LEMMA RunnerStreamsKeeps ==
  ASSUME ServingInv, NEW s \in Sessions, RunnerStreams(s)
  PROVE  ServingInv' /\ KeepsRunners
<1>1. /\ runner[s] = "joining" /\ runner' = [runner EXCEPT ![s] = "running"]
      /\ rec' = Shown(s, "running") /\ route' = [route EXCEPT ![s] = transport[s]]
      /\ copies' = copies \cup {<<s, transport[s]>>}
      /\ UNCHANGED <<sched, finished, transport, started, control>>
  BY DEF RunnerStreams
<1>2. /\ rec \in [Sessions -> Records] /\ runner \in [Sessions -> RunnerStates]
      /\ route \in [Sessions -> Workers \cup {NoWorker}] /\ copies \in SUBSET (Sessions \X Workers)
  BY DEF ServingInv, ServingTypes
<1>3. rec[s].status # "none" /\ transport[s] \in Workers
  BY <1>1 DEF ServingInv, RunnersInv
<1>4. /\ rec' \in [Sessions -> Records]
      /\ \A t \in Sessions : /\ rec'[t].worker = rec[t].worker
                             /\ rec'[t].status = "none" <=> rec[t].status = "none"
  <2>1. "running" \in SessionStatus \ {"none"}
    BY DEF SessionStatus
  <2> QED
    BY <1>1, <1>2, <1>3, <2>1, ShownFacts
<1>5. ServingTypes' /\ Sound(sched)'
  BY <1>1, <1>2, <1>3, <1>4 DEF ServingInv, ServingTypes, RunnerStates, Inside
<1>6. BooksInv'
  BY <1>1, <1>4 DEF ServingInv, BooksInv
<1>7. RunnersInv'
  BY <1>1, <1>2, <1>4 DEF ServingInv, RunnersInv
<1>8. control.at \in Moving => control.session \in Sessions \ {s}
  BY <1>1 DEF ServingInv, ControlInv, Early
<1>9. ModelsInv'
  <2>1. route[s] = NoWorker /\ CopiesOf(s) = {}
    BY <1>1 DEF ServingInv, ModelsInv, Early
  <2>2. CopiesOf(s)' = {transport[s]} /\ route'[s] = transport[s] /\ runner'[s] \notin Early
    BY <1>1, <1>2, <1>3, <2>1 DEF CopiesOf, Early
  <2>3. ~ (control.at = "imported" /\ control.session = s)
    BY <1>8 DEF Moving
  <2>4. \A t \in Sessions \ {s} :
          CopiesOf(t)' = CopiesOf(t) /\ route'[t] = route[t] /\ runner'[t] = runner[t]
    BY <1>1, <1>2 DEF CopiesOf
  <2> QED
    BY <1>1, <2>2, <2>3, <2>4 DEF ServingInv, ModelsInv
<1>10. ControlInv'
  BY <1>1, <1>2, <1>8 DEF ServingInv, ControlInv
<1>11. KeepsRunners
  BY <1>1, <1>2 DEF KeepsRunners
<1> QED
  BY <1>5, <1>6, <1>7, <1>9, <1>10, <1>11 DEF ServingInv

\* The steps of a runner that change only its state and its record.
LEMMA RunnerKeeps ==
  ASSUME ServingInv, NEW s \in Sessions,
         RunnerRefused(s) \/ RunnerBegins(s) \/ \E failed \in BOOLEAN : RunnerEnds(s, failed)
  PROVE  ServingInv' /\ KeepsRunners
<1>1. PICK state \in {"raised", "joining", "failing", "closing"}, status \in {"joining", "failed"} :
        /\ runner[s] # "none" /\ (state = "joining" => runner[s] = "created")
        /\ runner' = [runner EXCEPT ![s] = state]
        /\ rec' = rec \/ rec' = Shown(s, status)
        /\ UNCHANGED <<sched, finished, transport, started, modelVars, control>>
  BY DEF RunnerRefused, RunnerBegins, RunnerEnds
<1>2. /\ rec \in [Sessions -> Records] /\ runner \in [Sessions -> RunnerStates]
      /\ rec[s].status # "none"
  BY <1>1 DEF ServingInv, ServingTypes, RunnersInv
<1>3. /\ rec' \in [Sessions -> Records]
      /\ \A t \in Sessions : /\ rec'[t].worker = rec[t].worker
                             /\ rec'[t].status = "none" <=> rec[t].status = "none"
  <2>1. status \in SessionStatus \ {"none"}
    BY DEF SessionStatus, TerminalStatus
  <2> QED
    BY <1>1, <1>2, <2>1, ShownFacts
<1>4. runner' \in [Sessions -> RunnerStates]
  BY <1>1, <1>2 DEF RunnerStates, Inside, Closing, Done
<1>5. \A t \in Sessions : \/ runner'[t] = runner[t]
                          \/ /\ runner[t] # "none" /\ runner'[t] \notin {"none", "created"}
                             /\ runner'[t] \in Early => runner[t] \in Early
  BY <1>1, <1>2 DEF Early
<1> QED
  BY <1>1, <1>3, <1>4, <1>5, RunnerGoesOn

LEMMA PipelineClosesKeeps ==
  ASSUME ServingInv, NEW s \in Sessions, PipelineCloses(s)
  PROVE  ServingInv' /\ KeepsRunners
<1>1. /\ runner[s] \in Closing \cup {"cancelled"} /\ route[s] # NoWorker
      /\ route' = [route EXCEPT ![s] = NoWorker] /\ copies' = copies \ {<<s, route[s]>>}
      /\ UNCHANGED <<sched, rec, finished, runner, transport, started, control>>
  BY DEF PipelineCloses, runnerVars
<1>2. route \in [Sessions -> Workers \cup {NoWorker}]
  BY DEF ServingInv, ServingTypes
<1>3. ServingTypes' /\ Sound(sched)'
  BY <1>1, <1>2 DEF ServingInv, ServingTypes
<1>4. BooksInv' /\ RunnersInv' /\ KeepsRunners
  BY <1>1 DEF ServingInv, BooksInv, RunnersInv, KeepsRunners
<1>5. ModelsInv'
  <2>1. runner'[s] \notin Early /\ route'[s] = NoWorker
    BY <1>1, <1>2 DEF Early, Closing
  <2>2. \A t \in Sessions \ {s} :
          CopiesOf(t)' = CopiesOf(t) /\ route'[t] = route[t] /\ runner'[t] = runner[t]
    BY <1>1, <1>2 DEF CopiesOf
  <2> QED
    BY <1>1, <2>1, <2>2 DEF ServingInv, ModelsInv
<1>6. ControlInv'
  BY <1>1, <1>2 DEF ServingInv, ControlInv
<1> QED
  BY <1>3, <1>4, <1>5, <1>6 DEF ServingInv

LEMMA RunnerFinishesKeeps ==
  ASSUME ServingInv, NEW s \in Sessions, RunnerFinishes(s)
  PROVE  ServingInv' /\ KeepsRunners
<1> DEFINE how == IF runner[s] = "failing" THEN "failed" ELSE "closed"
           runners == [runner EXCEPT ![s] = IF @ = "cancelling" THEN "cancelled" ELSE "returned"]
<1>1. /\ runner[s] \in Closing /\ FinishSession(s, how, runners)
      /\ UNCHANGED <<started, modelVars, control>>
  BY DEF RunnerFinishes
<1>2. runner \in [Sessions -> RunnerStates]
  BY DEF ServingInv, ServingTypes
<1>3. rec[s].status # "none"
  BY <1>1 DEF ServingInv, RunnersInv, Closing
<1>4. how \in TerminalStatus
  BY DEF TerminalStatus
<1>5. /\ runners \in [Sessions -> RunnerStates] /\ runners[s] \in Done
      /\ \A t \in Sessions \ {s} : runners[t] = runner[t]
  BY <1>2 DEF RunnerStates, Done
<1> HIDE DEF how, runners
<1> QED
  BY <1>1, <1>3, <1>4, <1>5, FinishKeeps DEF KeepsRunners

\* The stoppers.
StopRecords == [at : {"idle", "waiting", "cancelling", "dead"},
                session : Sessions \cup {NoSession}]
Waits(stop) ==
  stop.at \in {"waiting", "cancelling"} =>
    stop.session \in Sessions /\ runner[stop.session] # "none"

LEMMA StopperMoves ==
  ASSUME StopperTypes, StoppersInv, KeepsRunners, expiring' \in SUBSET Sessions,
         NEW d \in Stoppers, NEW stop \in StopRecords, Waits(stop),
         stopper' = [stopper EXCEPT ![d] = stop]
  PROVE  StopperTypes' /\ StoppersInv'
<1>1. StopperTypes'
  BY DEF StopperTypes, StopRecords
<1>2. ASSUME NEW e \in Stoppers, stopper'[e].at \in {"waiting", "cancelling"}
      PROVE  stopper'[e].session \in Sessions /\ runner'[stopper'[e].session] # "none"
  <2>1. stopper'[e] = IF e = d THEN stop ELSE stopper[e]
    BY DEF StopperTypes
  <2>2. stopper'[e].session \in Sessions /\ runner[stopper'[e].session] # "none"
    BY <1>2, <2>1 DEF StoppersInv, Waits
  <2> QED
    BY <2>2 DEF KeepsRunners
<1> QED
  BY <1>1, <1>2 DEF StoppersInv

LEMMA StoppersStay ==
  ASSUME StopperTypes, StoppersInv, KeepsRunners, UNCHANGED <<expiring, stopper>>
  PROVE  StopperTypes' /\ StoppersInv'
BY DEF StopperTypes, StoppersInv, KeepsRunners

LEMMA RequestKeeps ==
  ASSUME IInv, NEW d \in Stoppers, NEW s \in Sessions, Request(d, s)
  PROVE  IInv'
<1>1. ServingInv /\ StopperTypes /\ StoppersInv
  BY DEF IInv
<1>2. CASE StopIdle(d, s)
  <2>1. /\ rec[s].status # "none" /\ runner[s] \in Done \cup {"none"}
        /\ FinishSession(s, How(d), runner)
        /\ UNCHANGED <<expiring, started, modelVars, control, stopper>>
    BY <1>2 DEF StopIdle, TaskOver
  <2>2. How(d) \in TerminalStatus /\ runner \in [Sessions -> RunnerStates]
    BY <1>1 DEF How, TerminalStatus, ServingInv, ServingTypes
  <2>3. ServingInv' /\ KeepsRunners
    BY <1>1, <2>1, <2>2, FinishKeeps DEF KeepsRunners
  <2> QED
    BY <1>1, <2>1, <2>3, StoppersStay DEF IInv
<1>3. CASE StopBegins(d, s)
  <2> DEFINE stop == [at |-> "waiting", session |-> s]
  <2>1. /\ runner[s] # "none" /\ rec' = [rec EXCEPT ![s].status = "draining"]
        /\ expiring' = IF d = Reaper THEN expiring \cup {s} ELSE expiring
        /\ stopper' = [stopper EXCEPT ![d] = stop]
        /\ UNCHANGED <<sched, finished, runner, transport, started, modelVars, control>>
    BY <1>3 DEF StopBegins, TaskOver, Begin, runnerVars
  <2>2. /\ rec \in [Sessions -> Records] /\ runner \in [Sessions -> RunnerStates]
        /\ rec[s].status # "none"
    BY <1>1, <2>1 DEF ServingInv, ServingTypes, RunnersInv
  <2>3. /\ rec' \in [Sessions -> Records]
        /\ \A t \in Sessions : /\ rec'[t].worker = rec[t].worker
                               /\ rec'[t].status = "none" <=> rec[t].status = "none"
    BY <2>1, <2>2 DEF Records, SessionStatus
  <2>4. ServingInv' /\ KeepsRunners
    BY <1>1, <2>1, <2>2, <2>3, RunnerGoesOn
  <2>5. expiring' \in SUBSET Sessions
    BY <1>1, <2>1 DEF StopperTypes
  <2>6. stop \in StopRecords /\ Waits(stop)
    BY <2>1 DEF StopRecords, Waits
  <2> HIDE DEF stop
  <2> QED
    BY <1>1, <2>1, <2>4, <2>5, <2>6, StopperMoves DEF IInv
<1> QED
  BY <1>2, <1>3 DEF Request

LEMMA StopKeeps ==
  ASSUME IInv, NEW d \in Stoppers, Stop(d)
  PROVE  IInv'
<1> DEFINE s == stopper[d].session
<1>1. ServingInv /\ StopperTypes /\ StoppersInv
  BY DEF IInv
<1>2. stopper[d].at \in {"waiting", "cancelling"}
  BY DEF Stop, StopEnds, StopRaises, StopCancelled, StopGrace, StopAgain
<1>3. /\ s \in Sessions /\ runner[s] # "none" /\ rec[s].status # "none"
      /\ runner \in [Sessions -> RunnerStates] /\ rec \in [Sessions -> Records]
  BY <1>1, <1>2 DEF StoppersInv, ServingInv, ServingTypes, RunnersInv
<1>4. /\ NoStop \in StopRecords /\ Waits(NoStop)
      /\ [at |-> "dead", session |-> NoSession] \in StopRecords
      /\ Waits([at |-> "dead", session |-> NoSession])
  BY DEF NoStop, StopRecords, Waits
<1>5. ASSUME UNCHANGED <<sched, rec, finished, runnerVars, started, modelVars, control>>
      PROVE  ServingInv' /\ KeepsRunners
  BY <1>1, <1>3, <1>5, RunnerGoesOn DEF runnerVars
<1>6. expiring' = expiring \/ expiring' = expiring \ {s} => expiring' \in SUBSET Sessions
  BY <1>1 DEF StopperTypes
<1>7. CASE StopEnds(d) \/ (StopRaises(d) /\ d = Reaper)
  <2>1. /\ runner[s] \in Done /\ FinishSession(s, How(d), runner)
        /\ expiring' \in SUBSET Sessions /\ stopper' = [stopper EXCEPT ![d] = NoStop]
        /\ UNCHANGED <<started, modelVars, control>>
    BY <1>6, <1>7 DEF StopEnds, StopRaises, Done, How, Leave
  <2>2. How(d) \in TerminalStatus
    BY DEF How, TerminalStatus
  <2> HIDE DEF s
  <2>3. ServingInv' /\ KeepsRunners
    BY <1>1, <1>3, <2>1, <2>2, FinishKeeps DEF KeepsRunners
  <2> QED
    BY <1>1, <1>4, <2>1, <2>3, StopperMoves DEF IInv
<1>8. CASE StopRaises(d) /\ d # Reaper
  <2>1. /\ UNCHANGED <<sched, rec, finished, runnerVars, started, modelVars, control, expiring>>
        /\ stopper' = [stopper EXCEPT ![d] = NoStop]
    BY <1>8 DEF StopRaises, Leave
  <2> QED
    BY <1>1, <1>4, <1>5, <1>6, <2>1, StopperMoves DEF IInv
<1>9. CASE StopCancelled(d)
  <2>1. /\ UNCHANGED <<sched, rec, finished, runnerVars, started, modelVars, control>>
        /\ expiring' \in SUBSET Sessions
        /\ \/ stopper' = [stopper EXCEPT ![d] = NoStop]
           \/ stopper' = [stopper EXCEPT ![d] = [at |-> "dead", session |-> NoSession]]
    BY <1>6, <1>9 DEF StopCancelled, NoStop
  <2> QED
    BY <1>1, <1>4, <1>5, <2>1, StopperMoves DEF IInv
<1>10. ASSUME Cancel(s), runner[s] \in Inside,
              UNCHANGED <<sched, rec, finished, transport, started, modelVars, control>>
       PROVE  ServingInv' /\ KeepsRunners
  <2>1. /\ runner' \in [Sessions -> RunnerStates]
        /\ \A t \in Sessions : \/ runner'[t] = runner[t]
                               \/ /\ runner[t] # "none" /\ runner'[t] \notin {"none", "created"}
                                  /\ runner'[t] \in Early => runner[t] \in Early
    BY <1>3, <1>10 DEF Cancel, RunnerStates, Inside, Closing, Done, Early
  <2>2. rec' = rec
    BY <1>10
  <2> HIDE DEF s
  <2> QED
    BY <1>1, <1>3, <1>10, <2>1, <2>2, RunnerGoesOn
<1>11. CASE StopGrace(d)
  <2> DEFINE stop == [at |-> "cancelling", session |-> s]
  <2>1. /\ Cancel(s) /\ runner[s] \in Inside /\ expiring' = expiring
        /\ UNCHANGED <<sched, rec, finished, transport, started, modelVars, control>>
        /\ stopper' = [stopper EXCEPT ![d].at = "cancelling"]
    BY <1>11 DEF StopGrace
  <2>2. stopper' = [stopper EXCEPT ![d] = stop]
    <3>1. stopper[d] \in StopRecords
      BY <1>1 DEF StopperTypes, StopRecords
    <3>2. [stopper[d] EXCEPT !.at = "cancelling"] = stop
      BY <3>1 DEF StopRecords
    <3> HIDE DEF stop
    <3> QED
      BY <2>1, <3>2
  <2>3. stop \in StopRecords /\ Waits(stop)
    BY <1>3 DEF StopRecords, Waits
  <2> HIDE DEF s, stop
  <2> QED
    BY <1>1, <1>6, <1>10, <2>1, <2>2, <2>3, StopperMoves DEF IInv
<1>12. CASE StopAgain(d)
  <2>1. /\ Cancel(s) /\ runner[s] \in Inside
        /\ UNCHANGED <<sched, rec, finished, expiring, transport, started, modelVars, control,
                       stopper>>
    BY <1>12 DEF StopAgain
  <2> QED
    BY <1>1, <1>10, <2>1, StoppersStay DEF IInv
<1> QED
  BY <1>7, <1>8, <1>9, <1>11, <1>12 DEF Stop

\* The control loop.
ControlRecords ==
  [at : {"idle", "stopping"} \cup Moving, session : Sessions \cup {NoSession},
   source : Workers \cup {NoWorker}, target : Workers \cup {NoWorker}]

\* A step that leaves the scheduler, the registry and the runners alone.
LEMMA BooksStay ==
  ASSUME ServingInv, UNCHANGED <<sched, rec, finished, runner, transport>>,
         started' \in SUBSET Workers, route' \in [Sessions -> Workers \cup {NoWorker}],
         copies' \in SUBSET (Sessions \X Workers), control' \in ControlRecords,
         ModelsInv', ControlInv'
  PROVE  ServingInv' /\ KeepsRunners
<1>1. ServingTypes' /\ Sound(sched)'
  BY DEF ServingInv, ServingTypes, ControlRecords
<1>2. BooksInv' /\ RunnersInv' /\ KeepsRunners
  BY DEF ServingInv, BooksInv, RunnersInv, KeepsRunners
<1> QED
  BY <1>1, <1>2 DEF ServingInv

LEMMA QuietFacts == Quiet \in ControlRecords /\ Quiet.at \notin Moving
BY DEF Quiet, ControlRecords, Moving

LEMMA MoveBeginsKeeps ==
  ASSUME ServingInv, NEW s \in Sessions, NEW target \in Workers, MoveBegins(s, target)
  PROVE  ServingInv' /\ KeepsRunners
<1>1. /\ control = Quiet /\ route[s] # NoWorker /\ target # route[s]
      /\ control' = [at |-> "prepared", session |-> s, source |-> route[s], target |-> target]
      /\ UNCHANGED <<sched, rec, finished, runner, transport, started, route, copies>>
  BY DEF MoveBegins, runnerVars, modelVars
<1>2. route \in [Sessions -> Workers \cup {NoWorker}]
  BY DEF ServingInv, ServingTypes
<1>3. runner[s] \notin Early
  BY <1>1 DEF ServingInv, ModelsInv
<1>4. control' \in ControlRecords /\ control'.at = "prepared"
  BY <1>1, <1>2 DEF ControlRecords, Moving
<1>5. ModelsInv'
  BY <1>1, <1>4, QuietFacts DEF ServingInv, ModelsInv, CopiesOf, Moving
<1>6. ControlInv'
  BY <1>1, <1>2, <1>3 DEF ControlInv
<1> QED
  BY <1>1, <1>4, <1>5, <1>6, BooksStay DEF ServingInv, ServingTypes

LEMMA MoveImportsKeeps ==
  ASSUME ServingInv, MoveImports
  PROVE  ServingInv' /\ KeepsRunners
<1>0. PICK s \in Sessions : s = control.session
  BY DEF MoveImports, ServingInv, ControlInv, Moving
<1>1. /\ control.at = "prepared"
      /\ copies' = copies \cup {<<s, control.target>>}
      /\ control' = [control EXCEPT !.at = "imported"]
      /\ UNCHANGED <<sched, rec, finished, runner, transport, started, route>>
  BY <1>0 DEF MoveImports, runnerVars
<1>2. /\ runner[s] \notin Early
      /\ control.source \in Workers /\ control.target \in Workers \ {control.source}
      /\ route[s] # NoWorker => route[s] = control.source
  BY <1>0, <1>1 DEF ServingInv, ControlInv, Moving
<1>3. control \in ControlRecords
  BY DEF ServingInv, ServingTypes, ControlRecords
<1>4. /\ control' \in ControlRecords /\ control'.at = "imported" /\ control'.session = s
      /\ control'.target = control.target /\ control'.source = control.source
  BY <1>0, <1>1, <1>3 DEF ControlRecords, Moving
<1>5. copies' \in SUBSET (Sessions \X Workers)
  BY <1>1, <1>2 DEF ServingInv, ServingTypes
<1>6. ModelsInv'
  <2>1. /\ CopiesOf(s)' = CopiesOf(s) \cup {control.target}
        /\ route[s] # NoWorker => CopiesOf(s) = {route[s]}
    BY <1>0, <1>1, <1>2 DEF CopiesOf, ServingInv, ModelsInv
  <2>2. ASSUME NEW t \in Sessions \ {s}
        PROVE  /\ CopiesOf(t)' = CopiesOf(t)
               /\ route[t] # NoWorker => CopiesOf(t) = {route[t]}
    BY <1>0, <1>1 DEF CopiesOf, ServingInv, ModelsInv
  <2>3. ASSUME NEW t \in Sessions, runner'[t] \in Early
        PROVE  t # s /\ route'[t] = NoWorker /\ CopiesOf(t)' = {}
    BY <1>1, <1>2, <2>2, <2>3 DEF ServingInv, ModelsInv
  <2>4. ASSUME NEW t \in Sessions, route'[t] # NoWorker
        PROVE  CopiesOf(t)' = {route'[t]} \cup (IF t = s THEN {control.target} ELSE {})
    BY <1>1, <2>1, <2>2, <2>4
  <2> QED
    BY <1>4, <2>3, <2>4 DEF ModelsInv
<1>7. ControlInv'
  BY <1>0, <1>1, <1>2, <1>4 DEF ControlInv
<1> QED
  BY <1>1, <1>4, <1>5, <1>6, <1>7, BooksStay DEF ServingInv, ServingTypes

LEMMA MoveFailsKeeps ==
  ASSUME ServingInv, MoveFails
  PROVE  ServingInv' /\ KeepsRunners
<1>1. /\ control.at = "prepared" /\ control' = Quiet
      /\ UNCHANGED <<sched, rec, finished, runner, transport, started, route, copies>>
  BY DEF MoveFails, runnerVars, modelVars
<1>2. ModelsInv' /\ ControlInv'
  BY <1>1, QuietFacts DEF ServingInv, ModelsInv, ControlInv, CopiesOf, Moving
<1> QED
  BY <1>1, <1>2, QuietFacts, BooksStay DEF ServingInv, ServingTypes

LEMMA MoveCommitsKeeps ==
  ASSUME ServingInv, MoveCommits
  PROVE  ServingInv' /\ KeepsRunners
<1>0. PICK s \in Sessions : s = control.session
  BY DEF MoveCommits, ServingInv, ControlInv, Moving
<1>1. /\ control.at = "imported"
      /\ UNCHANGED <<sched, rec, finished, runner, transport, started>>
  BY <1>0 DEF MoveCommits, runnerVars
<1>2. /\ runner[s] \notin Early
      /\ control.source \in Workers /\ control.target \in Workers \ {control.source}
      /\ route[s] # NoWorker => route[s] = control.source
  BY <1>0, <1>1 DEF ServingInv, ControlInv, Moving
<1>3. /\ control \in ControlRecords /\ route \in [Sessions -> Workers \cup {NoWorker}]
      /\ copies \in SUBSET (Sessions \X Workers) /\ started \in SUBSET Workers
  BY DEF ServingInv, ServingTypes, ControlRecords
<1>4. CASE route[s] = NoWorker
  <2>1. control' = Quiet /\ route' = route /\ copies' = copies
    BY <1>0, <1>4 DEF MoveCommits, modelVars
  <2>2. ASSUME NEW t \in Sessions, route[t] # NoWorker
        PROVE  CopiesOf(t) = {route[t]}
    BY <1>0, <1>4, <2>2 DEF ServingInv, ModelsInv
  <2>3. ModelsInv' /\ ControlInv'
    BY <1>1, <2>1, <2>2, QuietFacts DEF ServingInv, ModelsInv, ControlInv, CopiesOf, Moving
  <2> QED
    BY <1>1, <1>3, <2>1, <2>3, QuietFacts, BooksStay
<1>5. CASE route[s] # NoWorker
  <2>1. /\ route' = [route EXCEPT ![s] = control.target]
        /\ copies' = copies \ {<<s, control.source>>}
        /\ control' = [control EXCEPT !.at = "committed"]
    BY <1>0, <1>5 DEF MoveCommits
  <2>2. /\ control' \in ControlRecords /\ control'.at = "committed" /\ control'.session = s
        /\ control'.target = control.target /\ control'.source = control.source
    BY <1>0, <1>3, <2>1 DEF ControlRecords, Moving
  <2>3. /\ route' \in [Sessions -> Workers \cup {NoWorker}]
        /\ copies' \in SUBSET (Sessions \X Workers)
    BY <1>2, <1>3, <2>1
  <2>4. CopiesOf(s)' = {control.target} /\ route'[s] = control.target
    <3>1. CopiesOf(s) = {control.source, control.target}
      BY <1>0, <1>1, <1>2, <1>5 DEF ServingInv, ModelsInv
    <3>2. CopiesOf(s)' = CopiesOf(s) \ {control.source}
      BY <2>1 DEF CopiesOf
    <3> QED
      BY <1>2, <1>3, <2>1, <3>1, <3>2
  <2>5. ASSUME NEW t \in Sessions \ {s}
        PROVE  /\ CopiesOf(t)' = CopiesOf(t) /\ route'[t] = route[t]
               /\ route[t] # NoWorker => CopiesOf(t) = {route[t]}
    BY <1>0, <1>2, <1>3, <2>1 DEF CopiesOf, ServingInv, ModelsInv
  <2>6. ModelsInv'
    <3>1. ASSUME NEW t \in Sessions, runner'[t] \in Early
          PROVE  route'[t] = NoWorker /\ CopiesOf(t)' = {}
      BY <1>1, <1>2, <2>5, <3>1 DEF ServingInv, ModelsInv
    <3>2. ASSUME NEW t \in Sessions, route'[t] # NoWorker
          PROVE  CopiesOf(t)' = {route'[t]}
      BY <2>4, <2>5, <3>2
    <3> QED
      BY <2>2, <3>1, <3>2 DEF ModelsInv
  <2>7. ControlInv'
    BY <1>0, <1>1, <1>2, <2>2 DEF ControlInv
  <2> QED
    BY <1>1, <1>3, <2>2, <2>3, <2>6, <2>7, BooksStay
<1> QED
  BY <1>4, <1>5

LEMMA MoveEndsKeeps ==
  ASSUME ServingInv, MoveEnds
  PROVE  ServingInv' /\ KeepsRunners
<1> DEFINE s == control.session
           v == control.target
           next == Reassign(sched, s, v)
<1>1. /\ control.at = "committed" /\ control' = Quiet
      /\ UNCHANGED <<finished, runner, transport, started, route, copies>>
  BY DEF MoveEnds, runnerVars, modelVars
<1>2. s \in Sessions /\ runner[s] \notin Early /\ v \in Workers
  BY <1>1 DEF ServingInv, ControlInv, Moving
<1>3. /\ sched \in SchedStates /\ Sound(sched) /\ rec \in [Sessions -> Records]
      /\ route \in [Sessions -> Workers \cup {NoWorker}]
      /\ copies \in SUBSET (Sessions \X Workers) /\ started \in SUBSET Workers
  BY DEF ServingInv, ServingTypes
<1>4. ModelsInv' /\ ControlInv'
  BY <1>1, QuietFacts DEF ServingInv, ModelsInv, ControlInv, CopiesOf, Moving
<1>5. CASE ~ CanReassign(sched, s, v)
  <2>1. UNCHANGED <<sched, rec>>
    BY <1>5 DEF MoveEnds
  <2> QED
    BY <1>1, <1>3, <1>4, <2>1, QuietFacts, BooksStay
<1>6. CASE CanReassign(sched, s, v)
  <2>1. sched' = next /\ rec' = [rec EXCEPT ![s] = [status |-> "assigned", worker |-> v]]
    BY <1>6 DEF MoveEnds
  <2>2. /\ next \in SchedStates /\ Sound(next)
        /\ Slotted(sched, s) /\ s \in next.slots[v]
        /\ \A t \in Sessions \ {s} : Served(sched, next, t)
        /\ \A t \in Sessions \ {s} : Slotted(next, t) => Slotted(sched, t)
    BY <1>2, <1>3, <1>6, ReassignFacts
  <2> HIDE DEF next, s, v
  <2>3. Owner(next, s) = v /\ \A t \in Sessions \ {s} : Owner(next, t) = Owner(sched, t)
    BY <1>2, <1>3, <2>2, OwnerFacts, OwnerKept
  <2>4. /\ rec' \in [Sessions -> Records]
        /\ rec'[s].status # "none" /\ rec'[s].worker = v
        /\ \A t \in Sessions \ {s} : rec'[t] = rec[t]
    <3>1. [status |-> "assigned", worker |-> v] \in Records
      BY <1>2 DEF Records, SessionStatus
    <3> QED
      BY <1>2, <1>3, <2>1, <3>1
  <2>5. ServingTypes'
    BY <1>1, <2>1, <2>2, <2>4, QuietFacts DEF ServingInv, ServingTypes, ControlRecords
  <2>6. Placed(sched, s) /\ Placed(next, s) /\ ~ InQueue(next.queue, s) /\ s \notin finished
    BY <1>2, <2>2 DEF Placed, Slotted, Sound, ServingInv, BooksInv
  <2>7. BooksInv'
    <3>1. ASSUME NEW t \in Sessions \ {s}
          PROVE  /\ Placed(next, t) <=> rec'[t].status # "none" /\ t \notin finished
                 /\ t \notin finished => Owner(next, t) = rec'[t].worker
                 /\ rec'[t].status = "none" => t \notin finished
      BY <2>2, <2>3, <2>4 DEF ServingInv, BooksInv, Served
    <3> QED
      BY <1>1, <2>1, <2>3, <2>4, <2>6, <3>1 DEF BooksInv
  <2>8. RunnersInv'
    <3>1. ASSUME NEW t \in Sessions \ {s}
          PROVE  /\ InQueue(next.queue, t) \/ rec'[t].status = "none" => runner[t] = "none"
                 /\ runner[t] = "created" => t \in next.slots[transport[t]]
                 /\ runner[t] # "none" => transport[t] \in Workers
      BY <2>2, <2>4 DEF ServingInv, RunnersInv, Served
    <3> QED
      BY <1>1, <1>2, <2>1, <2>4, <2>6, <3>1 DEF RunnersInv, Early, ServingInv
  <2>9. KeepsRunners
    BY <1>1 DEF KeepsRunners
  <2> QED
    BY <1>4, <2>1, <2>2, <2>5, <2>7, <2>8, <2>9 DEF ServingInv
<1> QED
  BY <1>5, <1>6

LEMMA ScaleOutKeeps ==
  ASSUME ServingInv, ScaleOut
  PROVE  ServingInv' /\ KeepsRunners
<1> DEFINE w == CHOOSE w \in Workers \ sched.up : \A v \in Workers \ sched.up : w <= v
           loaded == [sched EXCEPT !.up = @ \cup {w}]
<1>1. /\ sched \in SchedStates /\ Sound(sched) /\ rec \in [Sessions -> Records]
      /\ runner \in [Sessions -> RunnerStates] /\ started \in SUBSET Workers
      /\ finished \in SUBSET Sessions
  BY DEF ServingInv, ServingTypes
<1>2. w \in Workers
  <2>1. Workers \ sched.up \in SUBSET Nat /\ Workers \ sched.up # {}
    BY <1>1, WorkerSets DEF ScaleOut, SchedStates
  <2>2. \E x \in Workers \ sched.up : \A v \in Workers \ sched.up : x <= v
    BY <2>1, LeastNumber
  <2> QED
    BY <2>2
<1>3. /\ started' = started \cup {w}
      /\ UNCHANGED <<finished, route, copies, control>>
  BY DEF ScaleOut, modelVars
<1>0. PICK n \in 0 .. Len(loaded.queue) : \E given \in [1 .. n -> Workers] :
        /\ Drains(loaded, given, n)
        /\ StartAll(Admitted(GiveEach(loaded, given, n)), GiveEach(loaded, given, n), rec, runner)
  <2>1. loaded.queue = sched.queue
    BY <1>1 DEF SchedStates
  <2> QED
    BY <2>1 DEF ScaleOut
<1>4. PICK given \in [1 .. n -> Workers] :
        /\ Drains(loaded, given, n)
        /\ StartAll(Admitted(GiveEach(loaded, given, n)), GiveEach(loaded, given, n), rec, runner)
  BY <1>0
<1> HIDE DEF w
<1>5. /\ loaded \in SchedStates /\ loaded.slots = sched.slots /\ loaded.queue = sched.queue
  BY <1>1, <1>2 DEF SchedStates
<1> HIDE DEF loaded
<1> DEFINE next == GiveEach(loaded, given, n)
<1>6. Sound(loaded)
  BY <1>1, <1>5 DEF Sound, Load
<1>7. /\ next \in SchedStates /\ Sound(next)
      /\ \A t \in Sessions : Served(loaded, next, t)
  BY <1>4, <1>5, <1>6, DrainsFacts
<1>8. StartAll(Admitted(next), next, rec, runner)
  BY <1>4
<1> HIDE DEF next
<1>9. \A t \in Sessions : Served(sched, next, t)
  BY <1>5, <1>7 DEF Served, Placed, Slotted
<1>10. Starts({}, next, rec, runner)
  BY <1>1, <1>3, <1>7, <1>8, <1>9 DEF Starts
<1>11. /\ sched' \in SchedStates /\ rec' \in [Sessions -> Records]
       /\ finished' \in SUBSET Sessions /\ runner' \in [Sessions -> RunnerStates]
       /\ transport' \in [Sessions -> Workers \cup {NoWorker}]
       /\ Sound(sched') /\ BooksInv' /\ RunnersInv'
       /\ \A t \in Sessions : runner'[t] = runner[t] \/ (runner[t] = "none" /\ runner'[t] = "created")
  BY <1>10, Started
<1>12. ServingTypes'
  BY <1>1, <1>2, <1>3, <1>11 DEF ServingInv, ServingTypes
<1>13. \A t \in Sessions : runner'[t] \in Early <=> runner[t] \in Early
  BY <1>11 DEF Early
<1>14. ModelsInv' /\ ControlInv'
  BY <1>3, <1>13 DEF ServingInv, ModelsInv, ControlInv, CopiesOf
<1>15. KeepsRunners
  BY <1>11 DEF KeepsRunners
<1> QED
  BY <1>11, <1>12, <1>14, <1>15 DEF ServingInv

LEMMA ScaleInKeeps ==
  ASSUME ServingInv, ScaleInBegins \/ ScaleInEnds
  PROVE  ServingInv' /\ KeepsRunners
<1>1. /\ sched \in SchedStates /\ Sound(sched) /\ started \in SUBSET Workers
      /\ route \in [Sessions -> Workers \cup {NoWorker}]
      /\ copies \in SUBSET (Sessions \X Workers)
  BY DEF ServingInv, ServingTypes
<1>2. CASE ScaleInBegins
  <2> DEFINE idle == {w \in sched.up : ~ Busy(w)}
             w == CHOOSE w \in idle : \A v \in idle : v <= w
  <2>1. /\ control = Quiet /\ idle # {} /\ started' = started \ {w}
        /\ control' = [Quiet EXCEPT !.at = "stopping", !.target = w]
        /\ UNCHANGED <<sched, rec, finished, runner, transport, route, copies>>
    BY <1>2 DEF ScaleInBegins, runnerVars, modelVars
  <2>2. w \in Workers
    <3>1. idle \in SUBSET (1 .. NumWorkers) /\ NumWorkers \in Nat
      BY <1>1, AdmissionAssumption DEF SchedStates, Workers
    <3> HIDE DEF idle
    <3>2. \E x \in idle : \A v \in idle : v <= x
      BY <2>1, <3>1, GreatestNumber
    <3> QED
      BY <3>1, <3>2 DEF Workers
  <2> HIDE DEF w
  <2>3. control' \in ControlRecords /\ control'.at = "stopping"
    BY <2>1, <2>2 DEF ControlRecords, Quiet
  <2>4. ModelsInv' /\ ControlInv'
    BY <2>1, <2>3, QuietFacts DEF ServingInv, ModelsInv, ControlInv, CopiesOf, Moving
  <2> QED
    BY <1>1, <2>1, <2>3, <2>4, BooksStay
<1>3. CASE ScaleInEnds
  <2>1. /\ control.at = "stopping" /\ control' = Quiet
        /\ sched' = [sched EXCEPT !.up = @ \ {control.target}]
        /\ UNCHANGED <<rec, finished, runner, transport, started, route, copies>>
    BY <1>3 DEF ScaleInEnds, runnerVars, modelVars
  <2>2. sched' \in SchedStates /\ sched'.slots = sched.slots /\ sched'.queue = sched.queue
    BY <1>1, <2>1 DEF SchedStates
  <2>3. Sound(sched')
    BY <1>1, <2>2 DEF Sound, Load
  <2>4. ServingTypes'
    BY <2>1, <2>2, QuietFacts DEF ServingInv, ServingTypes, ControlRecords
  <2>5. \A t \in Sessions : /\ Placed(sched', t) <=> Placed(sched, t)
                            /\ Owner(sched', t) = Owner(sched, t)
    BY <2>2 DEF Placed, Slotted, Owner
  <2>6. BooksInv' /\ RunnersInv'
    BY <2>1, <2>2, <2>5 DEF ServingInv, BooksInv, RunnersInv
  <2>7. ModelsInv' /\ ControlInv'
    BY <2>1, QuietFacts DEF ServingInv, ModelsInv, ControlInv, CopiesOf, Moving
  <2> QED
    BY <2>1, <2>3, <2>4, <2>6, <2>7 DEF ServingInv, KeepsRunners
<1> QED
  BY <1>2, <1>3

LEMMA NextIInv == IInv /\ [Next]_vars => IInv'
<1> SUFFICES ASSUME IInv, [Next]_vars PROVE IInv'
  OBVIOUS
<1>1. ServingInv /\ StopperTypes /\ StoppersInv
  BY DEF IInv
<1>2. ASSUME ServingInv', KeepsRunners, UNCHANGED <<expiring, stopper>>
      PROVE  IInv'
  BY <1>1, <1>2, StoppersStay DEF IInv
<1>3. CASE \E s \in Sessions : CreateSession(s) \/ Runner(s) \/ RunnerStreams(s)
  <2>1. PICK s \in Sessions : CreateSession(s) \/ Runner(s) \/ RunnerStreams(s)
    BY <1>3
  <2>2. UNCHANGED <<expiring, stopper>>
    BY <2>1 DEF CreateSession, Runner, RunnerRefused, RunnerBegins, RunnerFinishes,
                PipelineCloses, RunnerStreams
  <2>3. ServingInv' /\ KeepsRunners
    BY <1>1, <2>1, CreateSessionKeeps, RunnerKeeps, RunnerFinishesKeeps, PipelineClosesKeeps,
       RunnerStreamsKeeps DEF Runner
  <2> QED
    BY <1>2, <2>2, <2>3
<1>4. CASE \E s \in Sessions, failed \in BOOLEAN : RunnerEnds(s, failed)
  <2>1. PICK s \in Sessions, failed \in BOOLEAN : RunnerEnds(s, failed)
    BY <1>4
  <2>2. UNCHANGED <<expiring, stopper>>
    BY <2>1 DEF RunnerEnds
  <2> QED
    BY <1>1, <1>2, <2>1, <2>2, RunnerKeeps
<1>5. CASE \E d \in Stoppers : Stop(d) \/ \E s \in Sessions : Request(d, s)
  BY <1>5, StopKeeps, RequestKeeps
<1>6. CASE \E s \in Sessions, t \in Workers : MoveBegins(s, t)
  <2>1. PICK s \in Sessions, t \in Workers : MoveBegins(s, t)
    BY <1>6
  <2>2. UNCHANGED <<expiring, stopper>>
    BY <2>1 DEF MoveBegins
  <2> QED
    BY <1>1, <1>2, <2>1, <2>2, MoveBeginsKeeps
<1>7. CASE Control
  <2>1. UNCHANGED <<expiring, stopper>>
    BY <1>7 DEF Control, MoveImports, MoveFails, MoveCommits, MoveEnds, ScaleOut, ScaleInBegins,
                ScaleInEnds
  <2>2. ServingInv' /\ KeepsRunners
    BY <1>1, <1>7, MoveImportsKeeps, MoveFailsKeeps, MoveCommitsKeeps, MoveEndsKeeps,
       ScaleOutKeeps, ScaleInKeeps DEF Control
  <2> QED
    BY <1>2, <2>1, <2>2
<1>8. CASE UNCHANGED vars
  <2>1. UNCHANGED <<sched, rec, finished, expiring, runner, transport, started, route, copies,
                    control, stopper>>
    BY <1>8 DEF vars, runnerVars, modelVars
  <2>2. ServingInv' /\ KeepsRunners
    BY <1>1, <2>1 DEF ServingInv, ServingTypes, BooksInv, RunnersInv, ModelsInv, ControlInv,
                      CopiesOf, KeepsRunners
  <2> QED
    BY <1>2, <2>1, <2>2
<1> QED
  BY <1>3, <1>4, <1>5, <1>6, <1>7, <1>8 DEF Next

-----------------------------------------------------------------------------
(* The theorems.                                                           *)

(* The invariant the others follow from holds of every state the runtime   *)
(* can reach: the scheduler's tables are sound, and the registry, the      *)
(* runners, the router and the model state fit them.                       *)
THEOREM ServingInvariant == Spec => []IInv
<1>1. Init => IInv
  BY InitIInv
<1>2. IInv /\ [Next]_vars => IInv'
  BY NextIInv
<1> QED
  BY <1>1, <1>2, PTL DEF Spec

(* The types of the runtime's state.                                       *)
THEOREM TypeCorrect == Spec => []TypeOK
<1>1. IInv => TypeOK
  BY DEF IInv, ServingInv, TypeOK
<1> QED
  BY <1>1, ServingInvariant, PTL

(* A session that was admitted and has not ended holds exactly one slot or *)
(* one place in the queue, and one that has ended holds none, whatever     *)
(* order its runner, the DELETE handlers, the reaper, a migration and a    *)
(* change of scale take their steps in.                                    *)
THEOREM SessionsHaveOnePlace == Spec => []OnePlace
<1>1. ASSUME IInv, NEW s \in Sessions
      PROVE  Cardinality(Place(s)) + Cardinality(Queued(s)) =
               IF rec[s].status = "none" \/ s \in finished THEN 0 ELSE 1
  <2>1. Sound(sched) /\ BooksInv
    BY <1>1 DEF IInv, ServingInv
  <2>2. Cardinality(Place(s)) = IF Slotted(sched, s) THEN 1 ELSE 0
    <3>1. CASE Slotted(sched, s)
      <4>1. PICK w \in Workers : s \in sched.slots[w]
        BY <3>1 DEF Slotted
      <4>2. Place(s) = {w}
        BY <2>1, <4>1 DEF Place, Sound
      <4> QED
        BY <3>1, <4>2, FS_Singleton
    <3>2. CASE ~ Slotted(sched, s)
      BY <3>2, FS_EmptySet DEF Place, Slotted
    <3> QED
      BY <3>1, <3>2
  <2>3. Cardinality(Queued(s)) = IF InQueue(sched.queue, s) THEN 1 ELSE 0
    <3>1. CASE InQueue(sched.queue, s)
      <4>1. PICK i \in 1 .. Len(sched.queue) : sched.queue[i] = s
        BY <3>1 DEF InQueue
      <4>2. Queued(s) = {i}
        BY <2>1, <4>1 DEF Queued, Sound, Distinct
      <4> QED
        BY <3>1, <4>2, FS_Singleton
    <3>2. CASE ~ InQueue(sched.queue, s)
      BY <3>2, FS_EmptySet DEF Queued, InQueue
    <3> QED
      BY <3>1, <3>2
  <2>4. ~ (Slotted(sched, s) /\ InQueue(sched.queue, s))
    BY <2>1 DEF Sound, Slotted
  <2>5. Placed(sched, s) <=> rec[s].status # "none" /\ s \notin finished
    BY <2>1 DEF BooksInv
  <2> QED
    BY <2>2, <2>3, <2>4, <2>5 DEF Placed
<1>2. IInv => OnePlace
  BY <1>1 DEF OnePlace
<1> QED
  BY <1>2, ServingInvariant, PTL

(* The registry and the scheduler name the same worker for a session, and  *)
(* the copies of its model state are where the router sends its chunks,    *)
(* and on the target of the migration that has imported them.              *)
THEOREM OwnersStayTogether == Spec => []OwnersAgree
<1>1. IInv => OwnersAgree
  BY DEF IInv, ServingInv, BooksInv, ModelsInv, OwnersAgree, CopiesOf
<1> QED
  BY <1>1, ServingInvariant, PTL

\* Only a refusal makes a task that was not begun raise.
LEMMA OnlyRefused ==
  ASSUME IInv, [Next]_vars, NEW s \in Sessions, runner[s] = "created", runner'[s] = "raised"
  PROVE  RunnerRefused(s)
<1>1. runner \in [Sessions -> RunnerStates]
  BY DEF IInv, ServingInv, ServingTypes
<1>2. ASSUME NEW S, NEW next, NEW records, NEW runners,
             StartAll(S, next, records, runners), runners[s] = "created"
      PROVE  FALSE
  <2>1. runner' = [t \in Sessions |-> IF t \in S THEN "created" ELSE runners[t]]
    BY <1>2 DEF StartAll
  <2> QED
    BY <1>2, <2>1
<1>3. ASSUME NEW r \in Sessions, NEW how, NEW runners, FinishSession(r, how, runners),
             runners[s] = "created"
      PROVE  FALSE
  BY <1>2, <1>3 DEF FinishSession
<1>4. ASSUME NEW r \in Sessions, CreateSession(r)
      PROVE  FALSE
  BY <1>2, <1>4 DEF CreateSession, runnerVars
<1>5. ASSUME NEW r \in Sessions, RunnerFinishes(r)
      PROVE  FALSE
  <2>1. [runner EXCEPT ![r] = IF @ = "cancelling" THEN "cancelled" ELSE "returned"][s] = "created"
    BY <1>1, <1>5 DEF RunnerFinishes, Closing
  <2> QED
    BY <1>3, <1>5, <2>1 DEF RunnerFinishes
<1>6. ASSUME NEW r \in Sessions,
             \/ RunnerBegins(r) \/ PipelineCloses(r) \/ RunnerStreams(r)
             \/ \E failed \in BOOLEAN : RunnerEnds(r, failed)
             \/ RunnerRefused(r) /\ r # s
      PROVE  FALSE
  BY <1>1, <1>6 DEF RunnerBegins, PipelineCloses, RunnerStreams, RunnerEnds, RunnerRefused,
                    runnerVars
<1>7. ASSUME NEW d \in Stoppers, Stop(d)
      PROVE  FALSE
  <2>1. stopper[d].at \in {"waiting", "cancelling"}
    BY <1>7 DEF Stop, StopEnds, StopRaises, StopCancelled, StopGrace, StopAgain
  <2>2. stopper[d].session \in Sessions
    BY <2>1 DEF IInv, StoppersInv
  <2>3. CASE StopEnds(d) \/ StopRaises(d)
    BY <1>3, <2>2, <2>3 DEF StopEnds, StopRaises, runnerVars
  <2>4. CASE StopCancelled(d) \/ StopGrace(d) \/ StopAgain(d)
    BY <1>1, <2>2, <2>4 DEF StopCancelled, StopGrace, StopAgain, Cancel, runnerVars
  <2> QED
    BY <1>7, <2>3, <2>4 DEF Stop
<1>8. ASSUME NEW d \in Stoppers, NEW r \in Sessions, Request(d, r)
      PROVE  FALSE
  <2>1. CASE StopIdle(d, r)
    BY <1>3, <2>1 DEF StopIdle
  <2>2. CASE StopBegins(d, r)
    BY <2>2 DEF StopBegins, runnerVars
  <2> QED
    BY <1>8, <2>1, <2>2 DEF Request
<1>9. ASSUME Control
      PROVE  FALSE
  <2>1. CASE ScaleOut
    BY <1>2, <2>1 DEF ScaleOut
  <2> QED
    BY <1>9, <2>1 DEF Control, MoveImports, MoveFails, MoveCommits, MoveEnds, ScaleInBegins,
                      ScaleInEnds, runnerVars
<1>10. ASSUME NEW r \in Sessions, NEW t \in Workers, MoveBegins(r, t)
       PROVE  FALSE
  BY <1>10 DEF MoveBegins, runnerVars
<1>11. ~ UNCHANGED vars
  BY DEF vars, runnerVars
<1> QED
  BY <1>4, <1>5, <1>6, <1>7, <1>8, <1>9, <1>10, <1>11 DEF Next, Runner

(* A worker that accepts runners refuses one the scheduler sent it only    *)
(* because it still runs a session that has left its slot.                 *)
THEOREM RefusalsHaveACause == Spec => RefusalHasCause
<1> DEFINE Cause == \A s \in Sessions :
             runner[s] = "created" /\ runner'[s] = "raised" =>
               \/ transport[s] \notin started
               \/ \E r \in InsideOf(transport[s]) : r \notin sched.slots[transport[s]]
<1>1. ASSUME IInv, [Next]_vars, NEW s \in Sessions,
             runner[s] = "created", runner'[s] = "raised", transport[s] \in started
      PROVE  \E r \in InsideOf(transport[s]) : r \notin sched.slots[transport[s]]
  <2> DEFINE w == transport[s]
             I == InsideOf(w)
  <2>1. RunnerRefused(s)
    BY <1>1, OnlyRefused
  <2>2. Cardinality(I) >= Capacity
    BY <1>1, <2>1 DEF RunnerRefused, Refused
  <2>3. s \in sched.slots[w] /\ w \in Workers
    BY <1>1 DEF IInv, ServingInv, RunnersInv
  <2>4. sched \in SchedStates /\ Sound(sched)
    BY <1>1 DEF IInv, ServingInv, ServingTypes
  <2>5. I \in SUBSET Sessions /\ s \notin I
    BY <1>1 DEF InsideOf, Inside, Closing
  <2> SUFFICES ASSUME I \in SUBSET sched.slots[w]
               PROVE  FALSE
    OBVIOUS
  <2> HIDE DEF w, I
  <2>6. IsFiniteSet(I) /\ Cardinality(I) \in Nat
    BY <2>5, SessionSets
  <2>7. IsFiniteSet(sched.slots[w]) /\ Load(sched, w) \in Nat
    BY <2>3, <2>4, LoadType
  <2>8. Cardinality(I \cup {s}) = Cardinality(I) + 1
    BY <2>5, <2>6, FS_AddElement
  <2>9. Cardinality(I \cup {s}) <= Cardinality(sched.slots[w])
    <3>1. I \cup {s} \in SUBSET sched.slots[w]
      BY <2>3
    <3> QED
      BY <2>7, <3>1, FS_Subset
  <2>10. Cardinality(sched.slots[w]) <= Capacity /\ Capacity \in Nat
    BY <2>3, <2>4, AdmissionAssumption DEF Sound, Load
  <2> QED
    BY <2>2, <2>6, <2>7, <2>8, <2>9, <2>10 DEF Load
<1>2. IInv /\ [Next]_vars => Cause
  BY <1>1
<1>3. IInv /\ [Next]_vars => [Cause]_vars
  BY <1>2
<1> HIDE DEF Cause
<1>4. Spec => [][Cause]_vars
  BY <1>3, ServingInvariant, PTL DEF Spec
<1> QED
  BY <1>4 DEF RefusalHasCause, Cause
=============================================================================
