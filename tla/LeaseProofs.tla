---------------------------- MODULE LeaseProofs ----------------------------
(***************************************************************************)
(* Proofs about the execution lease of LingBot sessions, for any number of *)
(* sessions, messages and events: chunks are exclusive and the lease stays *)
(* usable.                                                                 *)
(*                                                                         *)
(* The manager's own invariant is Sound; each of its methods preserves it  *)
(* (first part), and says which reservations (busy) and entries it leaves  *)
(* alone.  The service's invariant (second part) ties the reservation to   *)
(* the place of the worker thread, from begin_chunk to the cleanup.        *)
(***************************************************************************)
EXTENDS LingBotService, SequenceTheorems, WellFoundedInduction, TLAPS

(* Queues.                                                                 *)

LEMMA LeastIndex ==
  ASSUME NEW n \in Nat, NEW I \in SUBSET (1 .. n), I # {}
  PROVE  \E i \in I : \A j \in I : i <= j
<1>1. I \in SUBSET Nat
  OBVIOUS
<1>2. \E x \in I : \A y \in I : ~ (<<y, x>> \in OpToRel(<, Nat))
  BY <1>1, NatLessThanWellFounded, WFMin
<1>3. \A x, y \in I : <<y, x>> \in OpToRel(<, Nat) <=> y < x
  BY <1>1 DEF OpToRel
<1>4. PICK x \in I : \A y \in I : ~ (<<y, x>> \in OpToRel(<, Nat))
  BY <1>2
<1>5. \A y \in I : ~ (y < x)
  BY <1>3, <1>4
<1>6. \A y \in I : x <= y
  BY <1>1, <1>5
<1> QED
  BY <1>6

\* _remove_waiter_locked leaves a queue, and nothing of an empty one.
LEMMA RemoveFirstType ==
  ASSUME NEW q \in Seq(Sessions), NEW s
  PROVE  RemoveFirst(q, s) \in Seq(Sessions) /\ (q = << >> => RemoveFirst(q, s) = << >>)
<1> DEFINE I == {i \in 1 .. Len(q) : q[i] = s}
<1>1. CASE I = {}
  <2>1. ~ \E i \in 1 .. Len(q) : q[i] = s
    BY <1>1
  <2> QED
    BY <2>1 DEF RemoveFirst
<1>2. CASE I # {}
  <2>1. PICK m \in I : \A j \in I : m <= j
    <3>1. Len(q) \in Nat /\ I \in SUBSET (1 .. Len(q))
      OBVIOUS
    <3> QED
      BY <1>2, <3>1, LeastIndex
  <2>2. Min(I) \in I
    BY <2>1 DEF Min
  <2>3. SelectInSeq(q, LAMBDA v : v = s) = Min(I)
    BY <1>2 DEF SelectInSeq
  <2>4. SubSeq(q, 1, Min(I) - 1) \in Seq(Sessions) /\ SubSeq(q, Min(I) + 1, Len(q)) \in Seq(Sessions)
    <3>1. \A i \in 1 .. Min(I) - 1 : q[i] \in Sessions
      BY <2>2
    <3>2. \A i \in Min(I) + 1 .. Len(q) : q[i] \in Sessions
      BY <2>2
    <3> QED
      BY <2>2, <3>1, <3>2, SubSeqProperties
  <2>5. RemoveAt(q, Min(I)) \in Seq(Sessions)
    BY <2>4, ConcatProperties DEF RemoveAt
  <2>6. \E i \in 1 .. Len(q) : q[i] = s
    BY <1>2
  <2>7. q # << >>
    BY <2>6
  <2> QED
    BY <2>3, <2>5, <2>6, <2>7 DEF RemoveFirst
<1> QED
  BY <1>1, <1>2

-----------------------------------------------------------------------------
(* The manager.                                                            *)

\* Who holds the lease is in the manager's table and not queued; only the holder
\* has a reservation.
HolderSound(L) ==
  /\ L.holder # NoSession => L.status[L.holder] \in {"active", "closing"}
  /\ \A s \in Sessions : L.busy[s] => L.holder = s

\* Nobody queues for a lease that is free.
Sound(L) ==
  /\ HolderSound(L)
  /\ L.holder = NoSession => L.queue = << >>

\* The same sessions have an entry.
SameEntries(L, M) ==
  \A s \in Sessions : M.status[s] = "none" <=> L.status[s] = "none"

\* A state of the manager, field by field.
LEMMA FieldTypes ==
  ASSUME NEW L \in LeaseStates
  PROVE  /\ L.status \in [Sessions -> LeaseStatus] /\ L.stale \in [Sessions -> BOOLEAN]
         /\ L.busy \in [Sessions -> BOOLEAN] /\ L.ran \in [Sessions -> BOOLEAN]
         /\ L.protected \in [Sessions -> BOOLEAN] /\ L.queue \in Seq(Sessions)
         /\ L.holder \in Sessions \cup {NoSession}
         /\ L = [status |-> L.status, stale |-> L.stale, busy |-> L.busy, ran |-> L.ran,
                 protected |-> L.protected, queue |-> L.queue, holder |-> L.holder]
BY DEF LeaseStates

LEMMA GrantNextFacts ==
  ASSUME NEW L \in LeaseStates, HolderSound(L)
  PROVE  /\ GrantNext(L) \in LeaseStates /\ Sound(GrantNext(L))
         /\ GrantNext(L).busy = L.busy /\ SameEntries(L, GrantNext(L))
<1> DEFINE ready == {i \in 1 .. Len(L.queue) : L.status[L.queue[i]] = "queued"}
           first == CHOOSE i \in ready : \A j \in ready : i <= j
           next == L.queue[first]
<1>1. CASE L.holder # NoSession
  BY <1>1 DEF GrantNext, Sound, SameEntries
<1>2. CASE L.holder = NoSession /\ ready = {}
  <2>1. GrantNext(L) = [L EXCEPT !.queue = << >>]
    BY <1>2 DEF GrantNext
  <2>2. GrantNext(L) = [status |-> L.status, stale |-> L.stale, busy |-> L.busy, ran |-> L.ran,
                        protected |-> L.protected, queue |-> << >>, holder |-> L.holder]
    BY <2>1, FieldTypes
  <2>3. GrantNext(L) \in LeaseStates
    BY <2>2, FieldTypes DEF LeaseStates
  <2> QED
    BY <1>2, <2>2, <2>3 DEF Sound, HolderSound, SameEntries
<1>3. CASE L.holder = NoSession /\ ready # {}
  <2>1. L.queue \in Seq(Sessions) /\ Len(L.queue) \in Nat /\ ready \in SUBSET (1 .. Len(L.queue))
    BY DEF LeaseStates
  <2>2. first \in ready
    <3>1. \E i \in ready : \A j \in ready : i <= j
      BY <1>3, <2>1, LeastIndex
    <3> HIDE DEF ready
    <3> QED
      BY <3>1
  <2>3. first \in 1 .. Len(L.queue) /\ next \in Sessions /\ L.status[next] = "queued"
    <3>1. first \in 1 .. Len(L.queue) /\ L.status[L.queue[first]] = "queued"
      <4> HIDE DEF first
      <4> QED
        BY <2>2
    <3> HIDE DEF first
    <3> QED
      BY <2>1, <3>1
  <2>4. SubSeq(L.queue, first + 1, Len(L.queue)) \in Seq(Sessions)
    <3>1. \A i \in first + 1 .. Len(L.queue) : L.queue[i] \in Sessions
      BY <2>1, <2>3
    <3>2. first + 1 \in Int /\ Len(L.queue) \in Int
      BY <2>1, <2>3
    <3> HIDE DEF first
    <3> QED
      BY <3>1, <3>2, SubSeqProperties
  <2>5. GrantNext(L) =
          [L EXCEPT !.queue = SubSeq(@, first + 1, Len(@)), !.status[next] = "active",
                    !.ran[next] = ~L.protected[next], !.protected[next] = FALSE,
                    !.holder = next]
    BY <1>3 DEF GrantNext
  <2> HIDE DEF first, next, ready
  <2> DEFINE G ==
        [status |-> [L.status EXCEPT ![next] = "active"], stale |-> L.stale, busy |-> L.busy,
         ran |-> [L.ran EXCEPT ![next] = ~L.protected[next]],
         protected |-> [L.protected EXCEPT ![next] = FALSE],
         queue |-> SubSeq(L.queue, first + 1, Len(L.queue)), holder |-> next]
  <2>a. GrantNext(L) = G
    BY <2>3, <2>5 DEF LeaseStates
  <2>6. GrantNext(L) \in LeaseStates
    BY <2>3, <2>4, <2>a, FieldTypes DEF LeaseStates, LeaseStatus
  <2>7. next # NoSession
    BY <2>3, LeaseAssumption
  <2>8. /\ GrantNext(L).holder = next /\ GrantNext(L).busy = L.busy
        /\ GrantNext(L).status = [L.status EXCEPT ![next] = "active"]
    BY <2>a
  <2>9. \A s \in Sessions : L.busy[s] = FALSE
    BY <1>3, LeaseAssumption DEF HolderSound, LeaseStates
  <2> QED
    BY <2>3, <2>6, <2>7, <2>8, <2>9 DEF Sound, HolderSound, SameEntries, LeaseStates
<1> QED
  BY <1>1, <1>2, <1>3

LEMMA ParkActiveFacts ==
  ASSUME NEW L \in LeaseStates, HolderSound(L)
  PROVE  /\ ParkActive(L) \in LeaseStates /\ HolderSound(ParkActive(L))
         /\ ParkActive(L).busy = L.busy /\ SameEntries(L, ParkActive(L))
<1>1. CASE L.holder = NoSession \/ L.busy[L.holder]
  BY <1>1 DEF ParkActive, SameEntries
<1>2. CASE L.holder # NoSession /\ ~L.busy[L.holder]
  <2>1. ParkActive(L) = [L EXCEPT !.status[L.holder] = "parked", !.holder = NoSession]
    BY <1>2 DEF ParkActive
  <2>2. L.holder \in Sessions
    BY <1>2 DEF LeaseStates
  <2>3. \A s \in Sessions : ~L.busy[s]
    BY <1>2 DEF HolderSound
  <2> DEFINE P ==
        [status |-> [L.status EXCEPT ![L.holder] = "parked"], stale |-> L.stale,
         busy |-> L.busy, ran |-> L.ran, protected |-> L.protected,
         queue |-> L.queue, holder |-> NoSession]
  <2>4. ParkActive(L) = P
    BY <2>1, <2>2 DEF LeaseStates
  <2>5. P \in LeaseStates
    BY <2>2, FieldTypes DEF LeaseStates, LeaseStatus
  <2>6. L.status[L.holder] # "none"
    BY <1>2 DEF HolderSound
  <2> QED
    BY <2>2, <2>3, <2>4, <2>5, <2>6, FieldTypes DEF HolderSound, SameEntries
<1> QED
  BY <1>1, <1>2

\* finish_chunk, yield_if_idle and record_activity park the holder and grant.
LEMMA HandOffFacts ==
  ASSUME NEW L \in LeaseStates, HolderSound(L)
  PROVE  LET M == GrantNext(ParkActive(L))
         IN  M \in LeaseStates /\ Sound(M) /\ M.busy = L.busy /\ SameEntries(L, M)
<1>1. /\ ParkActive(L) \in LeaseStates /\ HolderSound(ParkActive(L))
      /\ ParkActive(L).busy = L.busy /\ SameEntries(L, ParkActive(L))
  BY ParkActiveFacts
<1>2. /\ GrantNext(ParkActive(L)) \in LeaseStates /\ Sound(GrantNext(ParkActive(L)))
      /\ GrantNext(ParkActive(L)).busy = ParkActive(L).busy
      /\ SameEntries(ParkActive(L), GrantNext(ParkActive(L)))
  BY <1>1, GrantNextFacts
<1> QED
  BY <1>1, <1>2 DEF SameEntries

LEMMA RecordActivityFacts ==
  ASSUME NEW L \in LeaseStates, Sound(L), NEW s \in Sessions, L.status[s] # "none"
  PROVE  /\ RecordActivity(L, s) \in LeaseStates /\ Sound(RecordActivity(L, s))
         /\ RecordActivity(L, s).busy = L.busy /\ SameEntries(L, RecordActivity(L, s))
<1> DEFINE R == [L EXCEPT !.stale[s] = FALSE]
           J == Joined(R, s)
<1>1. R \in LeaseStates /\ HolderSound(R) /\ R.busy = L.busy /\ R.status = L.status
  BY DEF LeaseStates, Sound, HolderSound
<1>2. J \in LeaseStates /\ HolderSound(J) /\ J.busy = L.busy /\ SameEntries(L, J)
  <2> HIDE DEF R
  <2>1. CASE R.status[s] \notin {"waiting", "parked"}
    BY <1>1, <2>1 DEF Joined, SameEntries
  <2>2. CASE R.status[s] \in {"waiting", "parked"}
    <3> DEFINE q == IF s \in Range(R.queue) THEN R.queue ELSE Append(R.queue, s)
    <3>1. q \in Seq(Sessions)
      <4>1. R.queue \in Seq(Sessions)
        BY <1>1 DEF LeaseStates
      <4> QED
        BY <4>1
    <3>2. J = [R EXCEPT !.protected[s] = R.holder # NoSession, !.status[s] = "queued", !.queue = q]
      BY <1>1, <2>2 DEF Joined, LeaseStates
    <3> HIDE DEF q, J
    <3> DEFINE K ==
          [status |-> [R.status EXCEPT ![s] = "queued"], stale |-> R.stale, busy |-> R.busy,
           ran |-> R.ran, protected |-> [R.protected EXCEPT ![s] = R.holder # NoSession],
           queue |-> q, holder |-> R.holder]
    <3>a. J = K
      BY <1>1, <3>2 DEF LeaseStates
    <3>3. J \in LeaseStates
      BY <1>1, <3>1, <3>a, FieldTypes DEF LeaseStates, LeaseStatus
    <3>4. /\ J.busy = R.busy /\ J.holder = R.holder
          /\ J.status = [R.status EXCEPT ![s] = "queued"]
      BY <3>a
    <3>5. R.holder # s
      BY <1>1, <2>2, LeaseAssumption DEF HolderSound
    <3> QED
      BY <1>1, <2>2, <3>3, <3>4, <3>5 DEF HolderSound, SameEntries, LeaseStates
  <2> QED
    BY <2>1, <2>2
<1> HIDE DEF J, R
<1>3. RecordActivity(L, s) \in {L, GrantNext(ParkActive(J)), GrantNext(J)}
  BY DEF RecordActivity, J, R
<1>4. /\ GrantNext(J) \in LeaseStates /\ Sound(GrantNext(J))
      /\ GrantNext(J).busy = J.busy /\ SameEntries(J, GrantNext(J))
  BY <1>2, GrantNextFacts
<1>5. LET M == GrantNext(ParkActive(J))
      IN  M \in LeaseStates /\ Sound(M) /\ M.busy = J.busy /\ SameEntries(J, M)
  BY <1>2, HandOffFacts
<1> QED
  BY <1>2, <1>3, <1>4, <1>5 DEF SameEntries

LEMMA RegisterFacts ==
  ASSUME NEW L \in LeaseStates, Sound(L), NEW s \in Sessions, L.status[s] = "none"
  PROVE  /\ Register(L, s) \in LeaseStates /\ Sound(Register(L, s))
         /\ Register(L, s).busy = L.busy /\ Register(L, s).status[s] # "none"
         /\ \A t \in Sessions \ {s} : Register(L, s).status[t] = L.status[t]
<1> DEFINE R ==
      [status |-> [L.status EXCEPT ![s] = "waiting"], stale |-> [L.stale EXCEPT ![s] = FALSE],
       busy |-> [L.busy EXCEPT ![s] = FALSE], ran |-> [L.ran EXCEPT ![s] = FALSE],
       protected |-> [L.protected EXCEPT ![s] = FALSE],
       queue |-> L.queue, holder |-> L.holder]
<1>0. Register(L, s) =
        [L EXCEPT !.status[s] = "waiting", !.stale[s] = FALSE, !.busy[s] = FALSE,
                  !.ran[s] = FALSE, !.protected[s] = FALSE]
  BY DEF Register, Fresh
<1>1. Register(L, s) = R
  BY <1>0 DEF LeaseStates
<1>2. R \in LeaseStates
  BY FieldTypes DEF LeaseStates, LeaseStatus
<1>3. L.holder # s
  BY LeaseAssumption DEF Sound, HolderSound
<1>4. L.busy[s] = FALSE
  BY <1>3, FieldTypes DEF Sound, HolderSound
<1>5. R.busy = L.busy
  BY <1>4, FieldTypes
<1> QED
  BY <1>1, <1>2, <1>3, <1>5, FieldTypes DEF Sound, HolderSound

LEMMA BeginChunkFacts ==
  ASSUME NEW L \in LeaseStates, Sound(L), NEW s \in Sessions, CanBegin(L, s)
  PROVE  /\ BeginChunk(L, s) \in LeaseStates /\ Sound(BeginChunk(L, s))
         /\ BeginChunk(L, s).busy = [L.busy EXCEPT ![s] = TRUE]
         /\ SameEntries(L, BeginChunk(L, s))
<1> DEFINE B == [status |-> L.status, stale |-> L.stale, busy |-> [L.busy EXCEPT ![s] = TRUE],
                 ran |-> [L.ran EXCEPT ![s] = TRUE], protected |-> L.protected,
                 queue |-> L.queue, holder |-> L.holder]
<1>0. BeginChunk(L, s) = [L EXCEPT !.busy[s] = TRUE, !.ran[s] = TRUE]
  BY DEF BeginChunk
<1>1. BeginChunk(L, s) = B
  BY <1>0 DEF LeaseStates
<1>2. B \in LeaseStates
  BY FieldTypes DEF LeaseStates
<1>3. L.holder = s
  BY DEF CanBegin, HasTurn
<1> QED
  BY <1>1, <1>2, <1>3, FieldTypes DEF Sound, HolderSound, SameEntries

LEMMA AbortChunkFacts ==
  ASSUME NEW L \in LeaseStates, Sound(L), NEW s \in Sessions
  PROVE  /\ AbortChunk(L, s) \in LeaseStates /\ Sound(AbortChunk(L, s))
         /\ AbortChunk(L, s).busy = [L.busy EXCEPT ![s] = FALSE]
         /\ SameEntries(L, AbortChunk(L, s))
<1> DEFINE B == [status |-> L.status, stale |-> L.stale, busy |-> [L.busy EXCEPT ![s] = FALSE],
                 ran |-> L.ran, protected |-> L.protected,
                 queue |-> L.queue, holder |-> L.holder]
<1>0. AbortChunk(L, s) = [L EXCEPT !.busy[s] = FALSE]
  BY DEF AbortChunk
<1>1. AbortChunk(L, s) = B
  BY <1>0 DEF LeaseStates
<1>2. B \in LeaseStates
  BY FieldTypes DEF LeaseStates
<1> QED
  BY <1>1, <1>2, FieldTypes DEF Sound, HolderSound, SameEntries

LEMMA FinishChunkFacts ==
  ASSUME NEW L \in LeaseStates, Sound(L), NEW s \in Sessions
  PROVE  /\ FinishChunk(L, s) \in LeaseStates /\ Sound(FinishChunk(L, s))
         /\ FinishChunk(L, s).busy = [L.busy EXCEPT ![s] = FALSE]
         /\ SameEntries(L, FinishChunk(L, s))
<1> DEFINE A == AbortChunk(L, s)
<1>1. A \in LeaseStates /\ Sound(A) /\ A.busy = [L.busy EXCEPT ![s] = FALSE] /\ SameEntries(L, A)
  BY AbortChunkFacts
<1>2. FinishChunk(L, s) \in {A, GrantNext(ParkActive(A))}
  BY DEF FinishChunk, AbortChunk
<1> HIDE DEF A
<1>3. LET M == GrantNext(ParkActive(A))
      IN  M \in LeaseStates /\ Sound(M) /\ M.busy = A.busy /\ SameEntries(A, M)
  BY <1>1, HandOffFacts DEF Sound
<1> QED
  BY <1>1, <1>2, <1>3 DEF SameEntries

LEMMA YieldIfIdleFacts ==
  ASSUME NEW L \in LeaseStates, Sound(L), NEW s \in Sessions
  PROVE  /\ YieldIfIdle(L, s) \in LeaseStates /\ Sound(YieldIfIdle(L, s))
         /\ YieldIfIdle(L, s).busy = L.busy /\ SameEntries(L, YieldIfIdle(L, s))
<1>1. YieldIfIdle(L, s) \in {L, GrantNext(ParkActive(L))}
  BY DEF YieldIfIdle
<1>2. LET M == GrantNext(ParkActive(L))
      IN  M \in LeaseStates /\ Sound(M) /\ M.busy = L.busy /\ SameEntries(L, M)
  BY HandOffFacts DEF Sound
<1> QED
  BY <1>1, <1>2 DEF SameEntries

LEMMA DeactivateFacts ==
  ASSUME NEW L \in LeaseStates, Sound(L), NEW s \in Sessions
  PROVE  /\ Deactivate(L, s) \in LeaseStates /\ Sound(Deactivate(L, s))
         /\ Deactivate(L, s).busy = L.busy /\ SameEntries(L, Deactivate(L, s))
<1>1. CASE L.status[s] = "none"
  BY <1>1 DEF Deactivate, SameEntries
<1>2. CASE L.status[s] # "none"
  <2> DEFINE q == RemoveFirst(L.queue, s)
             D == [status |-> [L.status EXCEPT ![s] = "closing"], stale |-> L.stale,
                   busy |-> L.busy, ran |-> L.ran, protected |-> L.protected,
                   queue |-> q, holder |-> L.holder]
  <2>1. q \in Seq(Sessions) /\ (L.queue = << >> => q = << >>)
    BY RemoveFirstType, FieldTypes
  <2>2. Deactivate(L, s) = D
    BY <1>2 DEF Deactivate, RemoveWaiter, LeaseStates
  <2> HIDE DEF q
  <2>3. D \in LeaseStates
    BY <2>1, FieldTypes DEF LeaseStates, LeaseStatus
  <2> QED
    BY <1>2, <2>1, <2>2, <2>3, FieldTypes DEF Sound, HolderSound, SameEntries
<1> QED
  BY <1>1, <1>2

LEMMA SetQueue ==
  ASSUME NEW a, NEW b, NEW c, NEW d, NEW e, NEW f, NEW g, NEW x
  PROVE  [[status |-> a, stale |-> b, busy |-> c, ran |-> d, protected |-> e,
           queue |-> f, holder |-> g] EXCEPT !.queue = x]
         = [status |-> a, stale |-> b, busy |-> c, ran |-> d, protected |-> e,
            queue |-> x, holder |-> g]
OBVIOUS

LEMMA SetHolder ==
  ASSUME NEW a, NEW b, NEW c, NEW d, NEW e, NEW f, NEW g, NEW x
  PROVE  [[status |-> a, stale |-> b, busy |-> c, ran |-> d, protected |-> e,
           queue |-> f, holder |-> g] EXCEPT !.holder = x]
         = [status |-> a, stale |-> b, busy |-> c, ran |-> d, protected |-> e,
            queue |-> f, holder |-> x]
OBVIOUS

LEMMA ReleaseFacts ==
  ASSUME NEW L \in LeaseStates, Sound(L), NEW s \in Sessions
  PROVE  /\ Release(L, s) \in LeaseStates /\ Sound(Release(L, s))
         /\ Release(L, s).busy = [L.busy EXCEPT ![s] = FALSE]
         /\ \A t \in Sessions \ {s} : Release(L, s).status[t] = "none" <=> L.status[t] = "none"
<1>1. CASE L.status[s] = "none"
  <2>1. L.busy[s] = FALSE
    BY <1>1, FieldTypes, LeaseAssumption DEF Sound, HolderSound
  <2> QED
    BY <1>1, <2>1, FieldTypes DEF Release
<1>2. CASE L.status[s] # "none"
  <2> DEFINE q == RemoveFirst(L.queue, s)
             h == IF L.holder = s THEN NoSession ELSE L.holder
             R == [status |-> [L.status EXCEPT ![s] = "none"],
                   stale |-> [L.stale EXCEPT ![s] = FALSE],
                   busy |-> [L.busy EXCEPT ![s] = FALSE], ran |-> [L.ran EXCEPT ![s] = FALSE],
                   protected |-> [L.protected EXCEPT ![s] = FALSE], queue |-> q, holder |-> h]
  <2>1. q \in Seq(Sessions)
    BY RemoveFirstType, FieldTypes
  <2>2. Fresh(L, s, "none") =
          [status |-> [L.status EXCEPT ![s] = "none"],
           stale |-> [L.stale EXCEPT ![s] = FALSE],
           busy |-> [L.busy EXCEPT ![s] = FALSE], ran |-> [L.ran EXCEPT ![s] = FALSE],
           protected |-> [L.protected EXCEPT ![s] = FALSE],
           queue |-> L.queue, holder |-> L.holder]
    <3>1. Fresh(L, s, "none") =
            [L EXCEPT !.status[s] = "none", !.stale[s] = FALSE, !.busy[s] = FALSE,
                      !.ran[s] = FALSE, !.protected[s] = FALSE]
      BY DEF Fresh
    <3> QED
      BY <3>1 DEF LeaseStates
  <2> DEFINE W == RemoveWaiter(Fresh(L, s, "none"), s)
  <2>3. Release(L, s) = GrantNext(R)
    <3>1. W = [Fresh(L, s, "none") EXCEPT !.queue = q]
      BY <2>2 DEF RemoveWaiter
    <3>2. W = [status |-> [L.status EXCEPT ![s] = "none"],
               stale |-> [L.stale EXCEPT ![s] = FALSE],
               busy |-> [L.busy EXCEPT ![s] = FALSE], ran |-> [L.ran EXCEPT ![s] = FALSE],
               protected |-> [L.protected EXCEPT ![s] = FALSE],
               queue |-> q, holder |-> L.holder]
      BY <2>2, <3>1, SetQueue
    <3>3. [W EXCEPT !.holder = h] = R
      <4> DEFINE a == [L.status EXCEPT ![s] = "none"]
                 b == [L.stale EXCEPT ![s] = FALSE]
                 c == [L.busy EXCEPT ![s] = FALSE]
                 d == [L.ran EXCEPT ![s] = FALSE]
                 e == [L.protected EXCEPT ![s] = FALSE]
      <4>1. [[status |-> a, stale |-> b, busy |-> c, ran |-> d, protected |-> e,
              queue |-> q, holder |-> L.holder] EXCEPT !.holder = h]
            = [status |-> a, stale |-> b, busy |-> c, ran |-> d, protected |-> e,
               queue |-> q, holder |-> h]
        <5> HIDE DEF q, h, a, b, c, d, e
        <5> QED
          BY SetHolder
      <4>2. [W EXCEPT !.holder = h] =
              [status |-> a, stale |-> b, busy |-> c, ran |-> d, protected |-> e,
               queue |-> q, holder |-> h]
        <5> HIDE DEF q, h, W
        <5> QED
          BY <3>2, <4>1
      <4> HIDE DEF W, q, h
      <4> QED
        BY <4>2
    <3>4. Release(L, s) = GrantNext([W EXCEPT !.holder = IF @ = s THEN NoSession ELSE @])
      BY <1>2 DEF Release
    <3>5. W.holder = L.holder
      BY <3>2
    <3>6. [W EXCEPT !.holder = IF @ = s THEN NoSession ELSE @] = [W EXCEPT !.holder = h]
      <4> HIDE DEF W
      <4> QED
        BY <3>5
    <3> QED
      BY <3>3, <3>4, <3>6
  <2> HIDE DEF q
  <2>4. R \in LeaseStates
    BY <2>1, FieldTypes DEF LeaseStates, LeaseStatus
  <2>5. HolderSound(R)
    BY FieldTypes DEF Sound, HolderSound
  <2>6. /\ R.busy = [L.busy EXCEPT ![s] = FALSE]
        /\ \A t \in Sessions \ {s} : R.status[t] = L.status[t]
    BY FieldTypes
  <2> HIDE DEF R
  <2>7. /\ GrantNext(R) \in LeaseStates /\ Sound(GrantNext(R))
        /\ GrantNext(R).busy = R.busy /\ SameEntries(R, GrantNext(R))
    BY <2>4, <2>5, GrantNextFacts
  <2> QED
    BY <2>3, <2>6, <2>7 DEF SameEntries
<1> QED
  BY <1>1, <1>2

-----------------------------------------------------------------------------
(* The service.                                                            *)

\* A chunk is reserved from begin_chunk to the end of the cleanup, and a session
\* that was not created yet is unknown to the manager.
PlacesAgree ==
  /\ \A s \in Sessions : worker[s] \in {"prepare", "chunk"} => lease.busy[s]
  /\ \A s \in Sessions : lease.busy[s] => worker[s] \in {"prepare", "chunk", "leave", "cleanup"}
  /\ \A s \in inPipeline :
       /\ worker[s] \in {"chunk", "leave", "cleanup", "ending", "gone"}
       /\ worker[s] \in {"leave", "cleanup"} => lease.busy[s]
  /\ \A s \in Sessions : worker[s] = "idle" /\ s \notin retained =>
       lease.status[s] = "none" /\ push[s] = "idle"

IInv == TypeOK /\ Sound(lease) /\ PlacesAgree

LEMMA InitIInv == Init => IInv
<1> SUFFICES ASSUME Init PROVE IInv
  OBVIOUS
<1>1. NoEntries \in LeaseStates
  BY DEF NoEntries, LeaseStates, LeaseStatus
<1> QED
  BY <1>1 DEF Init, NoEntries, IInv, TypeOK, Sound, HolderSound, PlacesAgree, Places,
              PushPlaces, ClosePlaces

LEMMA NextIInv == IInv /\ [Next]_vars => IInv'
<1> SUFFICES ASSUME IInv, [Next]_vars
             PROVE  IInv'
  OBVIOUS
<1> USE DEF IInv, TypeOK, PlacesAgree, Places, PushPlaces, ClosePlaces, At, GoTo, PushAt,
            CloseAt, SameEntries
<1>1. CASE UNCHANGED vars
  BY <1>1 DEF vars, Sound, HolderSound
<1>2. ASSUME NEW s \in Sessions, CreateSession(s)
      PROVE  IInv'
  <2>1. lease' = Register(lease, s) /\ lease.status[s] = "none"
    BY <1>2 DEF CreateSession
  <2> QED
    BY <1>2, <2>1, RegisterFacts DEF CreateSession
<1>3. ASSUME NEW s \in Sessions, PullChunks(s)
      PROVE  IInv'
  BY <1>3 DEF PullChunks, Sound, HolderSound
<1>4. ASSUME NEW s \in Sessions, TakeControl(s)
      PROVE  IInv'
  BY <1>4 DEF TakeControl, Sound, HolderSound
<1>5. ASSUME NEW s \in Sessions, YieldIdle(s)
      PROVE  IInv'
  <2>1. /\ lease' \in LeaseStates /\ Sound(lease') /\ lease'.busy = lease.busy
        /\ SameEntries(lease, lease')
    BY <1>5, YieldIfIdleFacts DEF YieldIdle
  <2> QED
    BY <1>5, <2>1 DEF YieldIdle
<1>6. ASSUME NEW s \in Sessions, WaitForTurn(s)
      PROVE  IInv'
  BY <1>6 DEF WaitForTurn, Sound, HolderSound
<1>7. ASSUME NEW s \in Sessions, Begin(s)
      PROVE  IInv'
  <2>1. CASE CanBegin(lease, s)
    <3>1. /\ lease' \in LeaseStates /\ Sound(lease') /\ SameEntries(lease, lease')
          /\ lease'.busy = [lease.busy EXCEPT ![s] = TRUE]
      <4>1. lease' = BeginChunk(lease, s)
        BY <1>7, <2>1 DEF Begin
      <4>2. /\ BeginChunk(lease, s) \in LeaseStates /\ Sound(BeginChunk(lease, s))
            /\ BeginChunk(lease, s).busy = [lease.busy EXCEPT ![s] = TRUE]
            /\ SameEntries(lease, BeginChunk(lease, s))
        BY <2>1, BeginChunkFacts
      <4> QED
        BY <4>1, <4>2
    <3> QED
      BY <1>7, <2>1, <3>1, FieldTypes DEF Begin
  <2>2. CASE ~CanBegin(lease, s)
    BY <1>7, <2>2 DEF Begin, Sound, HolderSound
  <2> QED
    BY <2>1, <2>2
<1>8. ASSUME NEW s \in Sessions, Submit(s)
      PROVE  IInv'
  BY <1>8 DEF Submit, Sound, HolderSound
<1>9. ASSUME NEW s \in Sessions, SubmitFails(s)
      PROVE  IInv'
  <2>1. CASE UNCHANGED lease
    BY <1>9, <2>1 DEF SubmitFails, Sound, HolderSound
  <2>2. CASE lease' = AbortChunk(lease, s)
    <3>1. /\ lease' \in LeaseStates /\ Sound(lease') /\ SameEntries(lease, lease')
          /\ lease'.busy = [lease.busy EXCEPT ![s] = FALSE]
      <4>1. /\ AbortChunk(lease, s) \in LeaseStates /\ Sound(AbortChunk(lease, s))
            /\ AbortChunk(lease, s).busy = [lease.busy EXCEPT ![s] = FALSE]
            /\ SameEntries(lease, AbortChunk(lease, s))
        <5>1. lease \in LeaseStates /\ Sound(lease)
          OBVIOUS
        <5> QED
          BY ONLY <5>1, s \in Sessions, AbortChunkFacts
      <4> QED
        BY <2>2, <4>1
    <3> QED
      BY <1>9, <3>1, FieldTypes DEF SubmitFails
  <2> QED
    BY <1>9, <2>1, <2>2 DEF SubmitFails
<1>10. ASSUME NEW s \in Sessions, ChunkDone(s)
       PROVE  IInv'
  <2>1. /\ lease' \in LeaseStates /\ Sound(lease') /\ SameEntries(lease, lease')
        /\ lease'.busy = [lease.busy EXCEPT ![s] = FALSE]
    BY <1>10, FinishChunkFacts DEF ChunkDone
  <2> QED
    BY <1>10, <2>1, FieldTypes DEF ChunkDone
<1>11. ASSUME NEW s \in Sessions, LoopEnds(s) \/ LoopFails(s)
       PROVE  IInv'
  BY <1>11 DEF LoopEnds, LoopFails, Sound, HolderSound
<1>12. ASSUME NEW s \in Sessions, Leave(s)
       PROVE  IInv'
  <2>1. /\ lease' \in LeaseStates /\ Sound(lease') /\ lease'.busy = lease.busy
        /\ SameEntries(lease, lease')
    BY <1>12, DeactivateFacts DEF Leave
  <2> QED
    BY <1>12, <2>1 DEF Leave
<1>13. ASSUME NEW s \in Sessions, Cleanup(s)
       PROVE  IInv'
  <2>1. /\ lease' \in LeaseStates /\ Sound(lease')
        /\ lease'.busy = [lease.busy EXCEPT ![s] = FALSE]
        /\ \A t \in Sessions \ {s} : lease'.status[t] = "none" <=> lease.status[t] = "none"
    <3>1. lease \in LeaseStates /\ Sound(lease) /\ lease' = Release(lease, s)
      BY <1>13 DEF Cleanup
    <3>2. /\ Release(lease, s) \in LeaseStates /\ Sound(Release(lease, s))
          /\ Release(lease, s).busy = [lease.busy EXCEPT ![s] = FALSE]
          /\ \A t \in Sessions \ {s} :
               Release(lease, s).status[t] = "none" <=> lease.status[t] = "none"
      BY <3>1, ReleaseFacts
    <3> QED
      BY <3>1, <3>2
  <2>2. worker' = [worker EXCEPT ![s] = "ending"]
    BY <1>13 DEF Cleanup
  <2> QED
    BY <1>13, <2>1, <2>2, FieldTypes DEF Cleanup, ReleaseGeneration, ReleaseRaises
<1>14. ASSUME NEW s \in Sessions, End(s)
       PROVE  IInv'
  BY <1>14 DEF End, Inactive, Sound, HolderSound
<1>15. ASSUME NEW s \in Sessions, PushBegins(s)
       PROVE  IInv'
  BY <1>15 DEF PushBegins, Inactive, Sound, HolderSound
<1>16. ASSUME NEW s \in Sessions, PushDeactivates(s)
       PROVE  IInv'
  <2>1. /\ lease' \in LeaseStates /\ Sound(lease') /\ lease'.busy = lease.busy
        /\ SameEntries(lease, lease')
    BY <1>16, DeactivateFacts DEF PushDeactivates
  <2> QED
    BY <1>16, <2>1 DEF PushDeactivates
<1>17. ASSUME NEW s \in Sessions, PushRecords(s)
       PROVE  IInv'
  <2> DEFINE R == IF lease.status[s] = "none" THEN Register(lease, s) ELSE lease
  <2>1. /\ R \in LeaseStates /\ Sound(R) /\ R.busy = lease.busy /\ R.status[s] # "none"
        /\ \A t \in Sessions \ {s} : R.status[t] = lease.status[t]
    BY RegisterFacts
  <2>2. lease' = RecordActivity(R, s)
    BY <1>17 DEF PushRecords
  <2> HIDE DEF R
  <2>3. /\ lease' \in LeaseStates /\ Sound(lease') /\ lease'.busy = lease.busy
        /\ \A t \in Sessions \ {s} : lease'.status[t] = "none" <=> lease.status[t] = "none"
    BY <2>1, <2>2, RecordActivityFacts
  <2>4. ~(worker[s] = "idle" /\ s \notin retained)
    BY <1>17 DEF PushRecords
  <2> QED
    BY <1>17, <2>3, <2>4 DEF PushRecords
<1>18. ASSUME NEW s \in Sessions, PushDelivers(s)
       PROVE  IInv'
  BY <1>18 DEF PushDelivers, Sound, HolderSound
<1>19. ASSUME NEW s \in Sessions, CloseBegins(s)
       PROVE  IInv'
  <2>1. /\ lease' \in LeaseStates /\ Sound(lease') /\ lease'.busy = lease.busy
        /\ SameEntries(lease, lease')
    BY <1>19, DeactivateFacts DEF CloseBegins
  <2> QED
    BY <1>19, <2>1 DEF CloseBegins, Inactive
<1>20. ASSUME NEW s \in Sessions, CloseGivesUp(s)
       PROVE  IInv'
  BY <1>20 DEF CloseGivesUp, Sound, HolderSound
<1>21. ASSUME NEW s \in Sessions, CloseReleases(s)
       PROVE  IInv'
  <2>1. CASE ReleaseRaises(s) /\ UNCHANGED <<lease, retained, worker>>
    BY <1>21, <2>1 DEF CloseReleases, ReleaseRaises, Sound, HolderSound
  <2>2. CASE ReleaseGeneration(s) /\ lease' = Release(lease, s)
             /\ retained' = retained \ {s} /\ GoTo(s, "gone")
    BY <1>21, <2>2, ReleaseFacts, FieldTypes DEF CloseReleases, ReleaseGeneration
  <2> QED
    BY <1>21, <2>1, <2>2 DEF CloseReleases
<1>22. ASSUME NEW s \in Sessions, Expires(s)
       PROVE  IInv'
  <2>1. lease' = [status |-> lease.status, stale |-> [lease.stale EXCEPT ![s] = TRUE],
                  busy |-> lease.busy, ran |-> lease.ran, protected |-> lease.protected,
                  queue |-> lease.queue, holder |-> lease.holder]
    <3>1. lease' = [lease EXCEPT !.stale[s] = TRUE]
      BY <1>22 DEF Expires
    <3> QED
      BY <3>1 DEF LeaseStates
  <2>2. lease' \in LeaseStates
    BY <2>1, FieldTypes DEF LeaseStates
  <2> QED
    BY <1>22, <2>1, <2>2 DEF Expires, Sound, HolderSound
<1> QED
  BY <1>1, <1>2, <1>3, <1>4, <1>5, <1>6, <1>7, <1>8, <1>9, <1>10, <1>11, <1>12, <1>13, <1>14,
     <1>15, <1>16, <1>17, <1>18, <1>19, <1>20, <1>21, <1>22
     DEF Next, Works, PushGoesOn, CloseGoesOn

\* Every reachable state has the declared types, the manager is sound, and the
\* reservations agree with the places of the worker threads.
THEOREM ServiceInvariant == Spec => []IInv
BY InitIInv, NextIInv, PTL DEF Spec

\* Only the holder has a reservation, and every session that executes has one.
LEMMA ExecutesReserved == IInv => \A s \in Sessions : Executes(s) => lease.holder = s
BY DEF IInv, Sound, HolderSound, PlacesAgree, Executes

\* begin_chunk to cleanup: at most one session is in the pipeline, whatever other
\* threads push, stop, close, park or release in between.
THEOREM ChunksStayExclusive == Spec => []ChunksExclusive
<1>1. IInv => ChunksExclusive
  BY ExecutesReserved DEF ChunksExclusive
<1> QED
  BY <1>1, ServiceInvariant, PTL

\* No session queues for a lease that is free, or held by a session the manager
\* forgot, and no reservation outlives the work it was made for.
THEOREM LeaseStaysUsable == Spec => []LeaseIsUsable
<1>1. IInv => LeaseIsUsable
  BY DEF IInv, Sound, HolderSound, PlacesAgree, LeaseIsUsable
<1> QED
  BY <1>1, ServiceInvariant, PTL

\* Every reachable state of the sessions and the lease has the declared types.
THEOREM TypeCorrect == Spec => []TypeOK
BY ServiceInvariant, PTL DEF IInv
=============================================================================
