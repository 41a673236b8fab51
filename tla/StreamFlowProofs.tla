--------------------------- MODULE StreamFlowProofs ---------------------------
(***************************************************************************)
(* The order of sequences, for every graph, every limit and every number   *)
(* of sessions: outputs leave in order and without a gap, a strict stage   *)
(* is given each sequence once, one at a time, and the scheduler           *)
(* implements the ordered streams it promises. And the flow of artifacts:  *)
(* no limit is exceeded, the last flag is right, nothing is lost or        *)
(* duplicated between strict stages.                                       *)
(***************************************************************************)
EXTENDS StreamLifecycleProofs, SequenceTheorems

--------------------------------------------------------------------------------
(* Emission.                                                               *)

\* Emitted sequences are consecutive: together they are the sequences from n
\* on, as many as there are.
LEMMA EmittedIsPrefix ==
    ASSUME NEW P, NEW n \in Nat
    PROVE  /\ Cardinality(Emitted(P, n)) \in Nat
           /\ \A q \in n .. n + Cardinality(Emitted(P, n)) - 1 : q \in Emitted(P, n)
<1> DEFINE E == Emitted(P, n)
<1>1. MaxSeq \in Nat
  BY BoundsAssumption
<1>2. E \in SUBSET (n .. MaxSeq)
  BY DEF Emitted
<1>3. IsFiniteSet(E) /\ Cardinality(E) \in Nat
  <2>1. n \in Int /\ MaxSeq \in Int
    BY <1>1
  <2>2. IsFiniteSet(n .. MaxSeq)
    BY <2>1, FS_Interval
  <2>3. IsFiniteSet(E)
    BY <1>2, <2>2, FS_Subset
  <2> QED
    BY <2>3, FS_CardinalityType
<1>4. ASSUME NEW q \in Nat, n <= q, q \notin E PROVE q >= n + Cardinality(E)
  <2>1. ASSUME NEW x \in E PROVE x < q
    <3>1. SUFFICES ASSUME q <= x PROVE FALSE
      BY <1>1, <1>2, <1>4
    <3>2. q \in n .. MaxSeq /\ n .. q \subseteq n .. x
      BY <1>1, <1>2, <1>4, <2>1, <3>1
    <3> QED
      BY <1>4, <2>1, <3>2 DEF Emitted
  <2>2. E \in SUBSET (n .. q - 1)
    BY <1>1, <1>2, <1>4, <2>1
  <2>3. n \in Int /\ q - 1 \in Int
    BY <1>4
  <2>4. /\ IsFiniteSet(n .. q - 1)
        /\ Cardinality(n .. q - 1) = IF n > q - 1 THEN 0 ELSE (q - 1) - n + 1
    BY <2>3, FS_Interval
  <2>5. Cardinality(E) <= Cardinality(n .. q - 1)
    BY <2>2, <2>4, FS_Subset
  <2> QED
    BY <1>3, <1>4, <2>4, <2>5
<1> HIDE DEF E
<1>5. \A q \in n .. n + Cardinality(E) - 1 : q \in E
  BY <1>3, <1>4
<1> QED
  BY <1>3, <1>5 DEF E

\* The outputs of one emission, appended element by element.
LEMMA RunAppended ==
    ASSUME NEW s \in Seq(Nat), NEW n \in Nat, NEW c \in Nat
    PROVE  LET t == s \o [i \in 1 .. c |-> n + i - 1]
           IN  /\ Len(t) = Len(s) + c /\ DOMAIN t = 1 .. Len(s) + c
               /\ \A i \in 1 .. Len(s) + c :
                    t[i] = IF i <= Len(s) THEN s[i] ELSE n + (i - Len(s)) - 1
<1> DEFINE u == [i \in 1 .. c |-> n + i - 1]
<1>1. u \in Seq(Nat) /\ Len(u) = c /\ \A i \in 1 .. c : u[i] = n + i - 1
  OBVIOUS
<1> HIDE DEF u
<1>2. /\ Len(s \o u) = Len(s) + c /\ DOMAIN (s \o u) = 1 .. Len(s) + c
      /\ \A i \in 1 .. Len(s) + c : (s \o u)[i] = IF i <= Len(s) THEN s[i] ELSE u[i - Len(s)]
  <2>1. /\ s \o u \in Seq(Nat)
        /\ Len(s \o u) = Len(s) + Len(u)
        /\ \A i \in 1 .. Len(s) + Len(u) :
             (s \o u)[i] = IF i <= Len(s) THEN s[i] ELSE u[i - Len(s)]
    BY ONLY <1>1, s \in Seq(Nat), ConcatProperties
  <2>2. DOMAIN (s \o u) = 1 .. Len(s \o u)
    BY ONLY <2>1
  <2> QED
    BY ONLY <1>1, <2>1, <2>2
<1>3. \A i \in 1 .. Len(s) + c : i > Len(s) => u[i - Len(s)] = n + (i - Len(s)) - 1
  <2>1. Len(s) \in Nat
    OBVIOUS
  <2> HIDE DEF u
  <2> QED
    BY <1>1, <2>1
<1>4. \A i \in 1 .. Len(s) + c :
        (s \o u)[i] = IF i <= Len(s) THEN s[i] ELSE n + (i - Len(s)) - 1
  <2>1. Len(s) \in Nat
    OBVIOUS
  <2> QED
    BY <1>2, <1>3, <2>1
<1> QED
  BY <1>2, <1>4 DEF u

\* A step that emits nothing, drops outputs altogether or keeps them, and puts
\* nothing in flight that it does not record as admitted.
LEMMA EmissionFrame ==
    ASSUME TypeOK, EmissionInv, nextEmit' = nextEmit,
           \A r \in Runtimes :
             /\ outputs'[r] \in {outputs[r], << >>}
             /\ pending'[r] \subseteq pending[r]
             /\ admitted[r] \subseteq admitted'[r]
             /\ inFlight'[r] \subseteq admitted'[r]
    PROVE  EmissionInv'
<1>1. \A r \in Runtimes : nextEmit[r] \in Nat
  BY DEF TypeOK, FlowTypes
<1>2. \A r \in Runtimes : \A q, a : Worked(r, q, a) => Worked(r, q, a)'
  BY DEF Worked
<1>3. ASSUME NEW r \in Runtimes
      PROVE  /\ Len(outputs'[r]) <= nextEmit'[r]
             /\ \A i \in DOMAIN outputs'[r] :
                  outputs'[r][i] = nextEmit'[r] - Len(outputs'[r]) + i - 1
  <2>1. CASE outputs'[r] = outputs[r]
    BY <2>1 DEF EmissionInv, OutputsInOrder
  <2>2. CASE outputs'[r] = << >>
    BY <1>1, <2>2
  <2> QED
    BY <2>1, <2>2
<1>4. OutputsInOrder'
  BY <1>2, <1>3 DEF EmissionInv, OutputsInOrder
<1>5. \A r \in Runtimes : \A t \in pending'[r] : Worked(r, t[1], t[2])'
  BY <1>2 DEF EmissionInv
<1> QED
  BY <1>4, <1>5 DEF EmissionInv

\* What publishing the result of sequence q of runtime r does to the order of
\* outputs and to the frontier of its stage.
Publishes(st, r, q) ==
    LET P == pending[r] \cup {<<q, a>> : a \in Produces[st] \cap OutputArtifacts}
        n == nextEmit[r]
        c == Cardinality(Emitted(P, n))
    IN  /\ <<st, q>> \in inFlight[r]
        /\ status[r] = "running"
        /\ UNCHANGED <<admitted, status>>
        /\ inFlight' = [inFlight EXCEPT ![r] = @ \ {<<st, q>>}]
        /\ slots' = [slots EXCEPT ![r] =
                        @ \cup {<<q, e.artifact, e.target>> : e \in {d \in Edges : d.source = st}}]
        /\ pending' = [pending EXCEPT ![r] = {p \in P : p[1] \notin Emitted(P, n)}]
        /\ outputs' = [outputs EXCEPT ![r] = @ \o [i \in 1 .. c |-> n + i - 1]]
        /\ nextEmit' = [nextEmit EXCEPT ![r] = n + c]
        /\ frontier' = [frontier EXCEPT ![r][st] = IF st \in Strict THEN q + 1 ELSE @]

\* A completion that publishes does so for the message at the head.
LEMMA PublishStep ==
    ASSUME TypeOK, NEW st \in Stages, CompletePublished(st)
    PROVE  \E r \in Runtimes, q \in SeqIds : Publishes(st, r, q)
<1>1. queue[st] # << >>
  BY DEF CompletePublished, Resolve
<1>2. Head(queue[st]) \in Messages
  BY <1>1, HeadIsMessage DEF TypeOK
<1>3. Head(queue[st]).runtime \in Runtimes /\ Head(queue[st]).seq \in SeqIds
  BY <1>2 DEF Messages
<1> QED
  BY <1>3 DEF CompletePublished, Publishes, Known, Usable, lifeVars

\* A published result is emitted with the ones that waited for it, and each of
\* them is an output some stage was given the sequence of.
LEMMA PublishEmission ==
    ASSUME TypeOK, EmissionInv, NEW st \in Stages, NEW r \in Runtimes, NEW q \in SeqIds,
           Publishes(st, r, q)
    PROVE  EmissionInv'
<1> DEFINE P == pending[r] \cup {<<q, a>> : a \in Produces[st] \cap OutputArtifacts}
           n == nextEmit[r]
           c == Cardinality(Emitted(P, n))
<1>1. /\ <<st, q>> \in inFlight[r]
      /\ UNCHANGED admitted
      /\ inFlight' = [inFlight EXCEPT ![r] = @ \ {<<st, q>>}]
      /\ pending' = [pending EXCEPT ![r] = {p \in P : p[1] \notin Emitted(P, n)}]
      /\ outputs' = [outputs EXCEPT ![r] = @ \o [i \in 1 .. c |-> n + i - 1]]
      /\ nextEmit' = [nextEmit EXCEPT ![r] = n + c]
  BY DEF Publishes
<1>4. n \in Nat /\ outputs[r] \in Seq(Nat)
  BY DEF TypeOK, FlowTypes
<1>5. c \in Nat /\ \A p \in n .. n + c - 1 : p \in Emitted(P, n)
  BY <1>4, EmittedIsPrefix
<1>6. <<st, q>> \in admitted[r]
  BY <1>1 DEF EmissionInv
<1>7. \A x \in Runtimes : \A p, a : Worked(x, p, a)' <=> Worked(x, p, a)
  BY <1>1 DEF Worked
<1>8. ASSUME NEW t \in P PROVE Worked(r, t[1], t[2])
  <2>1. CASE t \in pending[r]
    BY <2>1 DEF EmissionInv
  <2>2. CASE t \in {<<q, a>> : a \in Produces[st] \cap OutputArtifacts}
    BY <1>6, <2>2 DEF Worked
  <2> QED
    BY <2>1, <2>2
<1>9. ASSUME NEW p \in Emitted(P, n), NEW a \in OutputArtifacts PROVE Worked(r, p, a)
  <2>1. <<p, a>> \in P
    BY <1>4, BoundsAssumption DEF Emitted
  <2> QED
    BY <1>8, <2>1
<1>10. /\ nextEmit'[r] = n + c
       /\ outputs'[r] = outputs[r] \o [i \in 1 .. c |-> n + i - 1]
       /\ pending'[r] \subseteq P
       /\ \A x \in Runtimes : inFlight'[x] \subseteq inFlight[x]
       /\ \A x \in Runtimes \ {r} : /\ nextEmit'[x] = nextEmit[x]
                                    /\ outputs'[x] = outputs[x]
                                    /\ pending'[x] = pending[x]
  BY <1>1 DEF TypeOK, FlowTypes
<1> HIDE DEF P, c
<1>11. /\ Len(outputs'[r]) <= nextEmit'[r]
       /\ \A i \in DOMAIN outputs'[r] :
            outputs'[r][i] = nextEmit'[r] - Len(outputs'[r]) + i - 1
  <2>1. /\ Len(outputs[r]) <= n
        /\ \A i \in DOMAIN outputs[r] : outputs[r][i] = n - Len(outputs[r]) + i - 1
    BY DEF EmissionInv, OutputsInOrder
  <2>2. /\ c \in Nat /\ nextEmit'[r] = n + c
        /\ outputs'[r] = outputs[r] \o [i \in 1 .. c |-> n + i - 1]
    BY <1>5, <1>10
  <2>3. /\ Len(outputs'[r]) = Len(outputs[r]) + c
        /\ DOMAIN outputs'[r] = 1 .. Len(outputs[r]) + c
        /\ \A i \in 1 .. Len(outputs[r]) + c :
             outputs'[r][i] = IF i <= Len(outputs[r]) THEN outputs[r][i]
                              ELSE n + (i - Len(outputs[r])) - 1
    BY <1>4, <2>2, RunAppended
  <2> DEFINE l == Len(outputs[r])
             s == outputs[r]
             t == outputs'[r]
  <2>4. /\ l \in Nat /\ l <= n /\ \A i \in 1 .. l : s[i] = n - l + i - 1
        /\ \A i \in 1 .. l + c : t[i] = IF i <= l THEN s[i] ELSE n + (i - l) - 1
    BY <1>4, <2>1, <2>3
  <2>5. Len(t) = l + c /\ DOMAIN t = 1 .. l + c
    BY <2>3
  <2> HIDE DEF n, l, s, t
  <2>6. ASSUME NEW i \in 1 .. l + c PROVE t[i] = (n + c) - (l + c) + i - 1
    <3>1. CASE i <= l
      <4>1. i \in 1 .. l /\ t[i] = s[i]
        BY <2>2, <2>4, <3>1
      <4> QED
        BY <1>4, <2>2, <2>4, <4>1
    <3>2. CASE i > l
      <4>1. t[i] = n + (i - l) - 1
        BY <2>2, <2>4, <3>2
      <4> QED
        BY <1>4, <2>2, <2>4, <4>1
    <3> QED
      BY <2>2, <2>4, <3>1, <3>2
  <2>7. Len(t) <= n + c /\ \A i \in DOMAIN t : t[i] = (n + c) - Len(t) + i - 1
    BY <1>4, <2>2, <2>4, <2>5, <2>6
  <2> QED
    BY <2>2, <2>7 DEF t
<1>12. ASSUME NEW p \in 0 .. n + c - 1, NEW a \in OutputArtifacts PROVE Worked(r, p, a)
  <2>1. CASE p < n
    <3>1. p \in 0 .. n - 1
      BY <1>4, <1>5, <2>1
    <3> QED
      BY <3>1 DEF EmissionInv, OutputsInOrder
  <2>2. CASE p >= n
    <3>1. p \in n .. n + c - 1
      BY <1>4, <1>5, <2>2
    <3> QED
      BY <1>5, <1>9, <3>1
  <2> QED
    BY <1>4, <1>5, <2>1, <2>2
<1> HIDE DEF n
<1>13. OutputsInOrder'
  <2>1. ASSUME NEW x \in Runtimes
        PROVE  /\ Len(outputs'[x]) <= nextEmit'[x]
               /\ \A i \in DOMAIN outputs'[x] :
                    outputs'[x][i] = nextEmit'[x] - Len(outputs'[x]) + i - 1
               /\ \A p \in 0 .. nextEmit'[x] - 1 : \A a \in OutputArtifacts : Worked(x, p, a)
    <3>1. CASE x = r
      <4>1. nextEmit'[r] = n + c
        BY <1>10
      <4>2. \A p \in 0 .. nextEmit'[r] - 1 : \A a \in OutputArtifacts : Worked(r, p, a)
        BY <1>4, <1>5, <1>12, <4>1
      <4> QED
        BY <1>11, <3>1, <4>2
    <3>2. CASE x # r
      BY <1>10, <3>2 DEF EmissionInv, OutputsInOrder
    <3> QED
      BY <3>1, <3>2
  <2> QED
    BY <1>7, <2>1 DEF OutputsInOrder
<1>14. ASSUME NEW x \in Runtimes PROVE \A t \in pending'[x] : Worked(x, t[1], t[2])
  <2>1. CASE x = r
    BY <1>8, <1>10, <2>1
  <2>2. CASE x # r
    BY <1>10, <2>2 DEF EmissionInv
  <2> QED
    BY <2>1, <2>2
<1> QED
  BY <1>1, <1>7, <1>10, <1>13, <1>14 DEF EmissionInv

--------------------------------------------------------------------------------
(* Four kinds of steps.                                                    *)

\* An admission of sequence q of runtime r to stage st.
Admits(st, r, q) ==
    /\ r \in Running /\ status[r] = "running"
    /\ HasExecutionCapacity(st) /\ HasOutputCapacity(r, st)
    /\ \A a \in Consumes[st] : <<q, a, st>> \in slots[r]
    /\ slots' = [slots EXCEPT ![r] = @ \ {<<q, a, st>> : a \in Consumes[st]}]
    /\ <<st, q>> \notin inFlight[r]
    /\ st \in Strict => q = frontier[r][st]
    /\ UNCHANGED <<status, frontier, nextEmit, outputs, pending>>
    /\ inFlight' = [inFlight EXCEPT ![r] = @ \cup {<<st, q>>}]
    /\ admitted' = [admitted EXCEPT ![r] = @ \cup {<<st, q>>}]

\* Nothing is admitted or emitted; invocations are only resolved without effect
\* for sessions that have ended, or end.
Quiet ==
    /\ UNCHANGED <<frontier, nextEmit, admitted>>
    /\ \A r \in Runtimes :
         /\ outputs'[r] \in {outputs[r], << >>}
         /\ pending'[r] \subseteq pending[r]
         /\ inFlight'[r] \subseteq inFlight[r]
         /\ ~Ended(r)' => ~Ended(r) /\ inFlight'[r] = inFlight[r]

\* A quiet step after which the sessions that did not end have lost no artifact.
Settles ==
    /\ Quiet
    /\ \A r \in Runtimes :
         /\ slots'[r] \subseteq slots[r]
         /\ ~Ended(r)' => slots'[r] = slots[r] /\ pending'[r] = pending[r]

\* The inputs A of sequence q are accepted.
Pushes(r, q, A) ==
    LET ingress == {e \in Edges : e.artifact \in A}
    IN  /\ A \subseteq IngressArtifacts
        /\ status[r] = "running"
        /\ \A e \in ingress : EdgeOccupancy(r, e) < e.capacity
        /\ slots' = [slots EXCEPT ![r] = @ \cup {<<q, e.artifact, e.target>> : e \in ingress}]
        /\ UNCHANGED <<status, frontier, nextEmit, admitted, outputs, pending, inFlight>>

\* Ending the sessions of R.
LEMMA DiscardSettles ==
    ASSUME TypeOK, NEW R, Discard(R), UNCHANGED <<frontier, nextEmit, admitted>>,
           \A r \in Runtimes :
             /\ inFlight'[r] \subseteq inFlight[r]
             /\ Ended(r)' \/ (status'[r] = status[r] /\ inFlight'[r] = inFlight[r])
             /\ r \in R => Ended(r)'
    PROVE  Settles
<1>1. \A r \in Runtimes :
        /\ outputs'[r] \in {outputs[r], << >>}
        /\ pending'[r] \subseteq pending[r]
        /\ slots'[r] \subseteq slots[r]
        /\ r \notin R => slots'[r] = slots[r] /\ pending'[r] = pending[r]
  BY DEF Discard
<1>2. Quiet
  BY <1>1 DEF Quiet, Ended
<1> QED
  BY <1>1, <1>2 DEF Settles, Ended

\* An admission takes the frontier of a strict stage.
LEMMA AdmitStep ==
    ASSUME TypeOK, NEW s \in Sessions, NEW st \in Stages, PumpAdmit(s, st)
    PROVE  \E r \in Runtimes, q \in SeqIds : Admits(st, r, q)
<1>1. sessions[s] \in Runtimes /\ sessions[s] \in Running /\ status[sessions[s]] = "running"
  BY RunningRuntimes DEF PumpAdmit, TypeOK
<1>2. PICK q \in Runnable(sessions[s], st) :
        /\ slots' = [slots EXCEPT ![sessions[s]] = @ \ {<<q, a, st>> : a \in Consumes[st]}]
        /\ inFlight' = [inFlight EXCEPT ![sessions[s]] = @ \cup {<<st, q>>}]
        /\ admitted' = [admitted EXCEPT ![sessions[s]] = @ \cup {<<st, q>>}]
  BY DEF PumpAdmit
<1>3. /\ q \in SeqIds /\ <<st, q>> \notin inFlight[sessions[s]]
      /\ st \in Strict => q = frontier[sessions[s]][st]
      /\ \A a \in Consumes[st] : <<q, a, st>> \in slots[sessions[s]]
  BY DEF Runnable, Candidates
<1>4. UNCHANGED <<status, frontier, nextEmit, outputs, pending>>
  BY DEF PumpAdmit, lifeVars
<1>5. HasExecutionCapacity(st) /\ HasOutputCapacity(sessions[s], st)
  BY DEF PumpAdmit, FirstReady, Ready, Admissible
<1> QED
  BY <1>1, <1>2, <1>3, <1>4, <1>5 DEF Admits

\* The head of a mailbox is the invocation of sequence q of runtime r, which its
\* session still has.
KnownAs(st, r, q) ==
    /\ r = Head(queue[st]).runtime /\ q = Head(queue[st]).seq
    /\ status[r] = "running" \/ Ended(r)
    /\ status[r] = "running" => r \in Running

\* An invocation that is known belongs to a runtime that exists.
LEMMA KnownRuntime ==
    ASSUME TypeOK, LifecycleInv, NEW st \in Stages,
           Resolve(st, Head(queue[st])), Known(st, Head(queue[st]))
    PROVE  \E r \in Runtimes, q \in SeqIds : KnownAs(st, r, q)
<1>1. queue[st] # << >>
  BY DEF Resolve
<1>2. Head(queue[st]) \in Messages
  BY <1>1, HeadIsMessage DEF TypeOK
<1>3. PICK r \in Runtimes, q \in SeqIds :
        /\ r = Head(queue[st]).runtime /\ q = Head(queue[st]).seq
        /\ sessions[owner[r]] = r
        /\ inFlight[r] # {}
  BY <1>2 DEF Messages, Known
<1>4. status[r] # "none" /\ owner[r] \in Sessions
  BY <1>3 DEF LifecycleInv, TablesInv
<1>5. r \in Current
  BY <1>3, <1>4 DEF Current, Runtimes
<1>6. status[r] = "running" \/ Ended(r)
  BY <1>4 DEF TypeOK, LifeTypes, Statuses, Ended
<1> QED
  BY <1>3, <1>5, <1>6 DEF KnownAs, Running

\* Each step settles, accepts inputs, admits or publishes.
LEMMA StepDetails ==
    ASSUME TypeOK, LifecycleInv, [Next]_vars
    PROVE  \/ Settles
           \/ \E r \in Runtimes, q \in SeqIds, A \in SUBSET IngressArtifacts : Pushes(r, q, A)
           \/ \E st \in Stages, r \in Runtimes, q \in SeqIds :
                Admits(st, r, q) \/ Publishes(st, r, q)
<1>1. ASSUME UNCHANGED <<status, frontier, nextEmit, admitted, outputs, pending, inFlight, slots>>
      PROVE  Settles
  BY <1>1 DEF Settles, Quiet, Ended
<1>2. ASSUME NEW s \in Sessions, NEW f \in Finals, CreateSession(s, f) PROVE Settles
  <2>1. epoch + 1 \in Runtimes /\ status[epoch + 1] = "none"
    BY <1>2 DEF CreateSession, LifecycleInv, TablesInv, TypeOK, TableTypes
  <2>2. \A r \in Runtimes : Ended(r)' <=> Ended(r)
    BY <1>2, <2>1 DEF CreateSession, Ended, TypeOK, LifeTypes
  <2> QED
    BY <1>2, <2>2 DEF CreateSession, Quiet, Settles
<1>3. ASSUME NEW s \in Sessions, NEW q \in SeqIds, NEW A \in SUBSET IngressArtifacts,
             TryPushInputs(s, q, A)
      PROVE  Pushes(sessions[s], q, A) /\ sessions[s] \in Runtimes
  BY <1>3, RunningRuntimes DEF TryPushInputs, Pushes, lifeVars, TypeOK
<1>4. ASSUME NEW s \in Sessions, NEW f \in SeqIds, FinishInputs(s, f) PROVE Settles
  BY <1>1, <1>4 DEF FinishInputs, lifeVars
<1>5. ASSUME NEW s \in Sessions, PollOutputs(s) PROVE Settles
  BY <1>5 DEF PollOutputs, Quiet, Settles, Ended, lifeVars, TypeOK, FlowTypes
<1>6. ASSUME NEW s \in Sessions, CancelSession(s) PROVE Settles
  <2> DEFINE R == IF status[sessions[s]] = "running" THEN {sessions[s]} ELSE {}
  <2>1. Discard(R)
    BY <1>6 DEF CancelSession
  <2>2. /\ UNCHANGED <<frontier, nextEmit, admitted, inFlight>>
        /\ \A r \in Runtimes : /\ Ended(r)' \/ status'[r] = status[r]
                               /\ r \in R => Ended(r)'
    BY <1>6 DEF CancelSession, Ended, TypeOK, LifeTypes
  <2> QED
    BY <2>1, <2>2, DiscardSettles
<1>7. ASSUME NEW s \in Sessions, CloseSession(s) PROVE Settles
  <2>1. Discard({sessions[s]})
    BY <1>7 DEF CloseSession
  <2>2. /\ UNCHANGED <<frontier, nextEmit, admitted, inFlight>>
        /\ \A r \in Runtimes : /\ Ended(r)' \/ status'[r] = status[r]
                               /\ r = sessions[s] => Ended(r)'
    BY <1>7 DEF CloseSession, Ended, TypeOK, LifeTypes, Statuses, LifecycleInv, TablesInv
  <2> QED
    BY <2>1, <2>2, DiscardSettles
<1>8. ASSUME NEW s \in Sessions, PumpSkip(s) PROVE Settles
  BY <1>1, <1>8 DEF PumpSkip, flowVars, lifeVars
<1>9. ASSUME NEW R, Fail(R), UNCHANGED <<frontier, nextEmit, admitted, inFlight>> PROVE Settles
  <2>1. \A r \in Runtimes : /\ Ended(r)' \/ status'[r] = status[r]
                            /\ r \in R => Ended(r)'
    BY <1>9 DEF Fail, Ended
  <2> QED
    BY <1>9, <2>1, DiscardSettles DEF Fail
<1>10. ASSUME NEW s \in Sessions, NEW st \in Stages, PumpFailActor(s, st) \/ PumpSubmitError(s, st)
       PROVE  Settles
  BY <1>9, <1>10 DEF PumpFailActor, PumpSubmitError
<1>11. ASSUME NEW st \in Stages, CompleteFailed(st) PROVE Settles
  <2>1. PICK r \in Runtimes, q \in SeqIds : KnownAs(st, r, q)
    BY <1>11, KnownRuntime DEF CompleteFailed
  <2>2. PICK R : Fail(R) /\ (r \in Running => r \in R)
    BY <1>11, <2>1 DEF CompleteFailed, KnownAs
  <2>3. /\ UNCHANGED <<frontier, nextEmit, admitted>>
        /\ inFlight' = [inFlight EXCEPT ![r] = @ \ {<<st, q>>}]
    BY <1>11, <2>1 DEF CompleteFailed, KnownAs
  <2>4. \A x \in Runtimes : /\ Ended(x)' \/ status'[x] = status[x]
                            /\ x \in R => Ended(x)'
    BY <2>2 DEF Fail, Ended
  <2>5. Ended(r)'
    BY <2>1, <2>2 DEF Fail, Ended, KnownAs
  <2>6. \A x \in Runtimes : inFlight'[x] \subseteq inFlight[x] /\ (x # r => inFlight'[x] = inFlight[x])
    BY <2>1, <2>3 DEF TypeOK, FlowTypes
  <2>7. Discard(R)
    BY <2>2 DEF Fail
  <2> QED
    BY <2>3, <2>4, <2>5, <2>6, <2>7, DiscardSettles
<1>12. ASSUME NEW st \in Stages, CompleteDropped(st) PROVE Settles
  <2>1. PICK r \in Runtimes, q \in SeqIds : KnownAs(st, r, q)
    BY <1>12, KnownRuntime DEF CompleteDropped
  <2>2. /\ UNCHANGED <<status, frontier, nextEmit, admitted, outputs, pending, slots>>
        /\ inFlight' = [inFlight EXCEPT ![r] = @ \ {<<st, q>>}]
        /\ Ended(r)
    BY <1>12, <2>1 DEF CompleteDropped, KnownAs, Running, Ended
  <2>3. \A x \in Runtimes : inFlight'[x] \subseteq inFlight[x] /\ (x # r => inFlight'[x] = inFlight[x])
    BY <2>1, <2>2 DEF TypeOK, FlowTypes
  <2> QED
    BY <2>2, <2>3 DEF Quiet, Settles, Ended
<1>13. ASSUME NEW st \in Stages,
              \/ CompleteAnomalous(st) \/ Start(st) \/ WorkerFail(st) \/ AbandonActor(st)
              \/ \E ok \in BOOLEAN : CloserDone(st, ok)
       PROVE  Settles
  BY <1>1, <1>13 DEF CompleteAnomalous, Start, WorkerFail, AbandonActor, CloserDone, flowVars, lifeVars
<1>14. ASSUME NEW r \in Runtimes, EndPass(r) PROVE Settles
  <2>1. UNCHANGED <<status, frontier, nextEmit, admitted, inFlight>>
    BY <1>14 DEF EndPass, lifeVars
  <2>2. Ended(r)'
    BY <1>14, <2>1 DEF EndPass, LifecycleInv, CleanupInv, Ending, Releasing, Ended
  <2>3. CASE slots[r] # {}
    BY <1>14, <2>1, <2>2, <2>3, DiscardSettles DEF EndPass
  <2>4. CASE slots[r] = {}
    BY <1>1, <1>14, <2>1, <2>4 DEF EndPass
  <2> QED
    BY <2>3, <2>4
<1>15. ASSUME NEW r \in Runtimes,
              \/ \E by \in Callers : AcquireCleanup(r, by) \/ LockTimeout(r, by)
              \/ Drained(r) \/ DrainTimeout(r) \/ StageTimeout(r)
              \/ \E st \in Stages : SendClose(r, st) \/ CloseRefused(r, st)
              \/ DeleteSession(r) \/ TakeFailed(r)
       PROVE  Settles
  BY <1>1, <1>15 DEF AcquireCleanup, LockTimeout, Drained, DrainTimeout, StageTimeout, SendClose,
                     CloseRefused, DeleteSession, TakeFailed, flowVars, lifeVars
<1>16. CASE ShutdownBegin
  <2>1. /\ Discard(Current)
        /\ UNCHANGED <<frontier, nextEmit, admitted, inFlight>>
        /\ \A r \in Runtimes : /\ Ended(r)' \/ status'[r] = status[r]
                               /\ r \in Current => Ended(r)'
    BY <1>16 DEF ShutdownBegin, Ended, Running, Current, TypeOK, LifeTypes, Statuses,
                 LifecycleInv, TablesInv
  <2> QED
    BY <2>1, DiscardSettles
<1>17. CASE Shutdown \/ UNCHANGED vars
  BY <1>1, <1>17 DEF Shutdown, ShutdownSession, ShutdownStopThread, ShutdownJoin, CloseActor,
                     JoinActor, ShutdownDone, vars, flowVars, lifeVars
<1>18. CASE Client
  BY <1>2, <1>3, <1>4, <1>5, <1>6, <1>7, <1>18 DEF Client
<1>19. CASE PumpTurn
  BY <1>8, <1>10, <1>19, AdmitStep DEF PumpTurn
<1>20. ASSUME NEW st \in Stages, Actor(st) \/ WorkerFail(st) \/ AbandonActor(st)
       PROVE  Settles \/ \E r \in Runtimes, q \in SeqIds : Publishes(st, r, q)
  BY <1>11, <1>12, <1>13, <1>20, PublishStep DEF Actor, Complete
<1>21. ASSUME NEW r \in Runtimes, Cleanup(r) \/ Timeout(r) PROVE Settles
  BY <1>14, <1>15, <1>21 DEF Cleanup, Timeout
<1> QED
  BY <1>16, <1>17, <1>18, <1>19, <1>20, <1>21 DEF Next

\* For the order of sequences a step is quiet, an admission or a publication.
LEMMA StepKinds ==
    ASSUME TypeOK, LifecycleInv, [Next]_vars
    PROVE  \/ Quiet
           \/ \E st \in Stages, r \in Runtimes, q \in SeqIds :
                Admits(st, r, q) \/ Publishes(st, r, q)
<1>1. ASSUME NEW r, NEW q, NEW A, Pushes(r, q, A) PROVE Quiet
  BY <1>1 DEF Pushes, Quiet, Ended
<1> QED
  BY <1>1, StepDetails DEF Settles

--------------------------------------------------------------------------------
(* The two invariants.                                                     *)

\* Emission under each kind of step.
LEMMA StepEmission ==
    ASSUME TypeOK, LifecycleInv, EmissionInv, [Next]_vars
    PROVE  EmissionInv'
<1>1. CASE Quiet
  BY <1>1, EmissionFrame DEF Quiet, EmissionInv
<1>2. ASSUME NEW st \in Stages, NEW r \in Runtimes, NEW q \in SeqIds, Admits(st, r, q)
      PROVE  EmissionInv'
  <2>1. \A x \in Runtimes : admitted[x] \subseteq admitted'[x] /\ inFlight'[x] \subseteq admitted'[x]
    BY <1>2 DEF Admits, EmissionInv, TypeOK, FlowTypes
  <2> QED
    BY <1>2, <2>1, EmissionFrame DEF Admits
<1> QED
  BY <1>1, <1>2, StepKinds, PublishEmission

\* The sequences of a runtime that a stage was given.
Given(r, st) == {q \in SeqIds : <<st, q>> \in admitted[r]}

\* A strict stage that has resolved the sequences before its frontier is given
\* the frontier.
LEMMA AdmitFrontier ==
    ASSUME TypeOK, FrontierInv, NEW st \in Stages, NEW r \in Runtimes, NEW q \in SeqIds,
           Admits(st, r, q)
    PROVE  FrontierInv'
<1>1. ASSUME NEW x \in Runtimes, NEW t \in Strict, x # r \/ t # st
      PROVE  /\ Given(x, t)' = Given(x, t)
             /\ \A p : <<t, p>> \in inFlight'[x] <=> <<t, p>> \in inFlight[x]
  BY <1>1 DEF Admits, Given, TypeOK, FlowTypes
<1>2. ASSUME st \in Strict
      PROVE  /\ q = frontier[r][st] /\ q \notin Given(r, st)
             /\ Given(r, st)' = Given(r, st) \cup {q}
             /\ \A p : <<st, p>> \in inFlight'[r] <=> <<st, p>> \in inFlight[r] \/ p = q
  <2>1. q = frontier[r][st]
    BY <1>2 DEF Admits
  <2>2. q \notin Given(r, st)
    BY <1>2, <2>1 DEF Admits, FrontierInv, Given, Ended
  <2> QED
    BY <2>1, <2>2 DEF Admits, Given, TypeOK, FlowTypes
<1>3. ASSUME st \in Strict PROVE Given(r, st)' = 0 .. q
  <2>1. Given(r, st) \in {0 .. q - 1, 0 .. q}
    BY <1>2, <1>3 DEF FrontierInv, Given
  <2>2. q \in Nat /\ q \in 0 .. q /\ 0 .. q = (0 .. q - 1) \cup {q}
    BY BoundsAssumption DEF SeqIds
  <2> QED
    BY <1>2, <1>3, <2>1, <2>2
<1>4. ASSUME NEW x \in Runtimes, NEW t \in Strict, x # r \/ t # st
      PROVE  /\ Given(x, t)' \in {0 .. frontier'[x][t] - 1, 0 .. frontier'[x][t]}
             /\ \A p \in SeqIds : <<t, p>> \in inFlight'[x] => p = frontier'[x][t]
             /\ ~Ended(x)' => (frontier'[x][t] \in Given(x, t)'
                                <=> <<t, frontier'[x][t]>> \in inFlight'[x])
  <2>1. frontier' = frontier /\ (Ended(x)' <=> Ended(x))
    BY DEF Admits, Ended
  <2> QED
    BY <1>1, <1>4, <2>1 DEF FrontierInv, Given
<1>5. ASSUME st \in Strict
      PROVE  /\ Given(r, st)' \in {0 .. frontier'[r][st] - 1, 0 .. frontier'[r][st]}
             /\ \A p \in SeqIds : <<st, p>> \in inFlight'[r] => p = frontier'[r][st]
             /\ frontier'[r][st] \in Given(r, st)' /\ <<st, frontier'[r][st]>> \in inFlight'[r]
  <2>1. frontier'[r][st] = q
    BY <1>2, <1>5 DEF Admits
  <2>2. \A p \in SeqIds : <<st, p>> \in inFlight[r] => p = q
    BY <1>2, <1>5 DEF FrontierInv
  <2> QED
    BY <1>2, <1>3, <1>5, <2>1, <2>2
<1> QED
  BY <1>4, <1>5 DEF FrontierInv, Given

\* A strict stage that delivers its frontier has resolved all it was given.
LEMMA PublishFrontier ==
    ASSUME TypeOK, EmissionInv, FrontierInv,
           NEW st \in Stages, NEW r \in Runtimes, NEW q \in SeqIds, Publishes(st, r, q)
    PROVE  FrontierInv'
<1>1. /\ UNCHANGED <<admitted, status>>
      /\ \A x \in Runtimes, t \in Stages : x # r \/ t # st =>
           /\ frontier'[x][t] = frontier[x][t]
           /\ \A p : <<t, p>> \in inFlight'[x] <=> <<t, p>> \in inFlight[x]
      /\ \A p : <<st, p>> \in inFlight'[r] <=> <<st, p>> \in inFlight[r] /\ p # q
      /\ st \in Strict => frontier'[r][st] = q + 1
  BY DEF Publishes, TypeOK, FlowTypes
<1>2. \A x \in Runtimes, t \in Stages : Given(x, t)' = Given(x, t) /\ (Ended(x)' <=> Ended(x))
  BY <1>1 DEF Given, Ended
<1>3. ASSUME NEW x \in Runtimes, NEW t \in Strict, x # r \/ t # st
      PROVE  /\ Given(x, t)' \in {0 .. frontier'[x][t] - 1, 0 .. frontier'[x][t]}
             /\ \A p \in SeqIds : <<t, p>> \in inFlight'[x] => p = frontier'[x][t]
             /\ ~Ended(x)' => (frontier'[x][t] \in Given(x, t)'
                                <=> <<t, frontier'[x][t]>> \in inFlight'[x])
  <2>1. t \in Stages
    BY LimitAssumption
  <2>2. /\ frontier'[x][t] = frontier[x][t] /\ Given(x, t)' = Given(x, t)
        /\ \A p : <<t, p>> \in inFlight'[x] <=> <<t, p>> \in inFlight[x]
    BY <1>1, <1>2, <1>3, <2>1
  <2>3. Ended(x)' <=> Ended(x)
    BY <1>1 DEF Ended
  <2> QED
    BY <2>2, <2>3 DEF FrontierInv, Given
<1>4. ASSUME st \in Strict
      PROVE  /\ frontier'[r][st] = q + 1
             /\ Given(r, st)' = 0 .. q
             /\ \A p \in SeqIds : <<st, p>> \notin inFlight'[r]
  <2>1. q = frontier[r][st] /\ \A p \in SeqIds : <<st, p>> \in inFlight[r] => p = q
    BY <1>4 DEF FrontierInv, Publishes
  <2>2. q \in Given(r, st)
    BY DEF EmissionInv, Publishes, Given
  <2>3. Given(r, st) \in {0 .. q - 1, 0 .. q}
    BY <1>4, <2>1 DEF FrontierInv, Given
  <2>4. q \in Nat /\ q \notin 0 .. q - 1
    BY BoundsAssumption DEF SeqIds
  <2> QED
    BY <1>1, <1>2, <1>4, <2>1, <2>2, <2>3, <2>4
<1>5. ASSUME st \in Strict
      PROVE  /\ Given(r, st)' \in {0 .. frontier'[r][st] - 1, 0 .. frontier'[r][st]}
             /\ \A p \in SeqIds : <<st, p>> \in inFlight'[r] => p = frontier'[r][st]
             /\ frontier'[r][st] \notin Given(r, st)' /\ <<st, frontier'[r][st]>> \notin inFlight'[r]
  <2>1. q \in Nat /\ (q + 1) - 1 = q /\ q + 1 \notin 0 .. q
    BY BoundsAssumption DEF SeqIds
  <2>2. <<st, q + 1>> \notin inFlight'[r]
    <3>1. \A p : <<st, p>> \in inFlight[r] => p \in SeqIds
      BY DEF TypeOK, FlowTypes
    <3> QED
      BY <1>1, <1>4, <1>5, <3>1
  <2> QED
    BY <1>4, <1>5, <2>1, <2>2
<1> QED
  BY <1>3, <1>5 DEF FrontierInv, Given

\* The frontier under each kind of step.
LEMMA StepFrontier ==
    ASSUME TypeOK, LifecycleInv, EmissionInv, FrontierInv, [Next]_vars
    PROVE  FrontierInv'
<1>1. CASE Quiet
  BY <1>1 DEF Quiet, FrontierInv
<1> QED
  BY <1>1, StepKinds, AdmitFrontier, PublishFrontier

\* At first nothing was emitted or admitted.
LEMMA InitFlow == Init => EmissionInv /\ FrontierInv
<1> SUFFICES ASSUME Init PROVE EmissionInv /\ FrontierInv
  OBVIOUS
<1>1. EmissionInv
  BY DEF Init, EmissionInv, OutputsInOrder
<1>2. FrontierInv
  <2>1. 0 .. 0 - 1 = {}
    OBVIOUS
  <2> QED
    BY <2>1, LimitAssumption DEF Init, FrontierInv
<1> QED
  BY <1>1, <1>2

\* For every graph and every order in which results and repeated or missing
\* inputs come: outputs leave as 0, 1, 2, ... and each one was worked on.
THEOREM EmissionInOrder == Spec => []OutputsInOrder
<1>1. Init => EmissionInv
  BY InitFlow
<1>2. TypeOK /\ LifecycleInv /\ EmissionInv /\ [Next]_vars => EmissionInv'
  BY StepEmission
<1>3. EmissionInv => OutputsInOrder
  BY DEF EmissionInv
<1> QED
  BY <1>1, <1>2, <1>3, TypeCorrect, Lifecycle, PTL DEF Spec

\* An actor holds at most one invocation of a session for a strict stage.
LEMMA OneInvocation ==
    ASSUME TypeOK, LifecycleInv, FrontierInv, NEW r \in Runtimes, NEW st \in Strict
    PROVE  Cardinality({i \in Invocations(st) : queue[st][i].runtime = r}) <= 1
<1> DEFINE I == {i \in Invocations(st) : queue[st][i].runtime = r}
<1>1. st \in Stages
  BY LimitAssumption
<1>2. \A i \in I : queue[st][i].seq = frontier[r][st]
  <2>1. \A i \in I : queue[st][i] \in Messages
    BY <1>1, MailboxMessages DEF Invocations, TypeOK
  <2>2. \A i \in I : <<st, queue[st][i].seq>> \in inFlight[r]
    BY <1>1 DEF LifecycleInv, MailboxInv
  <2> QED
    BY <2>1, <2>2 DEF FrontierInv, Messages
<1>3. \A i, j \in I : i = j
  BY <1>1, <1>2 DEF LifecycleInv, MailboxInv
<1> SUFFICES Cardinality(I) <= 1
  OBVIOUS
<1> HIDE DEF I
<1>4. CASE I = {}
  <2>1. Cardinality({}) = 0
    BY FS_EmptySet
  <2> QED
    BY <1>4, <2>1
<1>5. CASE I # {}
  <2>1. PICK i \in I : I = {i}
    BY <1>3, <1>5
  <2>2. Cardinality({i}) = 1
    BY FS_Singleton
  <2> QED
    BY <2>1, <2>2
<1> QED
  BY <1>4, <1>5

\* A strict stage is given the sequences of a session one by one, in order and
\* without a gap, whatever is pushed, cancelled, replaced or resolved late.
THEOREM StrictOrder == Spec => []StrictStageOrder
<1>1. Init => EmissionInv /\ FrontierInv
  BY InitFlow
<1>2. TypeOK /\ LifecycleInv /\ EmissionInv /\ FrontierInv /\ [Next]_vars
        => EmissionInv' /\ FrontierInv'
  BY StepEmission, StepFrontier
<1>3. TypeOK /\ LifecycleInv /\ FrontierInv => StrictStageOrder
  BY OneInvocation DEF FrontierInv, StrictStageOrder, Ended
<1> QED
  BY <1>1, <1>2, <1>3, TypeCorrect, Lifecycle, PTL DEF Spec

--------------------------------------------------------------------------------
(* The scheduler implements ordered streams: initial states map to initial *)
(* states and each step to a step of every stream.                         *)

\* A step of one stream, spelled out over the scheduler's variables.
StreamStep(x) ==
    \/ WorkedOn(x)' = WorkedOn(x) /\ outputs'[x] = outputs[x] /\ nextEmit'[x] = nextEmit[x]
    \/ /\ ~Ended(x)'
       /\ \E q \in WorkedOn(x)' : WorkedOn(x)' = WorkedOn(x) \cup {q}
       /\ outputs'[x] = outputs[x] /\ nextEmit'[x] = nextEmit[x]
    \/ /\ ~Ended(x)'
       /\ nextEmit'[x] > nextEmit[x]
       /\ nextEmit[x] .. nextEmit'[x] - 1 \subseteq WorkedOn(x)
       /\ outputs'[x] = outputs[x] \o
                          [i \in 1 .. nextEmit'[x] - nextEmit[x] |-> nextEmit[x] + i - 1]
       /\ WorkedOn(x)' = WorkedOn(x)
    \/ outputs'[x] = << >> /\ WorkedOn(x)' = WorkedOn(x) /\ nextEmit'[x] = nextEmit[x]

\* No stream begins again, and each makes a step.
LEMMA StreamsStep ==
    ASSUME TerminalHoldsNothing',
           \A x \in Runtimes : Ended(x) => Ended(x)',
           \A x \in Runtimes : StreamStep(x)
    PROVE  Ordered!Next
<1>1. {r \in Runtimes : Ended(r)} \subseteq {r \in Runtimes : Ended(r)'}
  OBVIOUS
<1>2. ASSUME NEW x \in Runtimes
      PROVE  Ordered!Stay(x) \/ Ordered!Work(x) \/ Ordered!Emit(x) \/ Ordered!Take(x)
               \/ Ordered!End(x)
  BY <1>2 DEF StreamStep, Ordered!Stay, Ordered!Work, Ordered!Emit, Ordered!Take, Ordered!End
<1> QED
  BY <1>1, <1>2 DEF Ordered!Next

--------------------------------------------------------------------------------
(* The three kinds of steps of StreamFlowProofs.                           *)

\* What a stream worked on only depends on what was admitted.
LEMMA SameWork ==
    ASSUME NEW x \in Runtimes, admitted'[x] = admitted[x]
    PROVE  WorkedOn(x)' = WorkedOn(x)
BY DEF WorkedOn, Worked

\* An admission is work on one sequence, or changes nothing a client could see.
LEMMA AdmitStream ==
    ASSUME TypeOK, NEW st \in Stages, NEW r \in Runtimes, NEW q \in SeqIds, Admits(st, r, q),
           NEW x \in Runtimes
    PROVE  StreamStep(x) /\ (Ended(x) => Ended(x)')
<1>1. outputs'[x] = outputs[x] /\ nextEmit'[x] = nextEmit[x] /\ status'[x] = status[x]
  BY DEF Admits
<1>2. Ended(x)' <=> Ended(x)
  BY <1>1 DEF Ended
<1>3. CASE x # r
  <2>1. admitted'[x] = admitted[x]
    BY <1>3 DEF Admits, TypeOK, FlowTypes
  <2> QED
    BY <1>1, <1>2, <2>1, SameWork DEF StreamStep
<1>4. CASE x = r
  <2>1. admitted'[r] = admitted[r] \cup {<<st, q>>}
    BY DEF Admits, TypeOK, FlowTypes
  <2>2. \A p, a : Worked(r, p, a)' <=> Worked(r, p, a) \/ (p = q /\ a \in Produces[st])
    BY <2>1 DEF Worked
  <2>3. WorkedOn(r) \subseteq WorkedOn(r)' /\ WorkedOn(r)' \subseteq WorkedOn(r) \cup {q}
    BY <2>2 DEF WorkedOn
  <2>4. ~Ended(r)
    BY DEF Admits, Ended
  <2>5. CASE q \in WorkedOn(r)'
    BY <1>1, <1>2, <1>4, <2>3, <2>4, <2>5 DEF StreamStep
  <2>6. CASE q \notin WorkedOn(r)'
    <3>1. WorkedOn(r)' = WorkedOn(r)
      BY <2>3, <2>6
    <3> QED
      BY <1>1, <1>2, <1>4, <3>1 DEF StreamStep
  <2> QED
    BY <2>5, <2>6
<1> QED
  BY <1>3, <1>4

\* A publication emits the sequences that are next in order, if there are any.
LEMMA PublishStream ==
    ASSUME TypeOK, EmissionInv, EmissionInv',
           NEW st \in Stages, NEW r \in Runtimes, NEW q \in SeqIds, Publishes(st, r, q),
           NEW x \in Runtimes
    PROVE  StreamStep(x) /\ (Ended(x) => Ended(x)')
<1>1. Ended(x)' <=> Ended(x)
  BY DEF Publishes, Ended
<1>2. WorkedOn(x)' = WorkedOn(x)
  BY SameWork DEF Publishes
<1>3. CASE x # r
  <2>1. outputs'[x] = outputs[x] /\ nextEmit'[x] = nextEmit[x]
    BY <1>3 DEF Publishes, TypeOK, FlowTypes
  <2> QED
    BY <1>1, <1>2, <2>1 DEF StreamStep
<1>4. CASE x = r
  <2> DEFINE P == pending[r] \cup {<<q, a>> : a \in Produces[st] \cap OutputArtifacts}
             n == nextEmit[r]
             c == Cardinality(Emitted(P, n))
  <2>1. /\ outputs'[r] = outputs[r] \o [i \in 1 .. c |-> n + i - 1]
        /\ nextEmit'[r] = n + c
    BY DEF Publishes, TypeOK, FlowTypes
  <2>2. n \in Nat /\ outputs[r] \in Seq(Nat)
    BY DEF TypeOK, FlowTypes
  <2>3. c \in Nat /\ \A p \in n .. n + c - 1 : p \in Emitted(P, n)
    BY <2>2, EmittedIsPrefix
  <2>4. \A p \in n .. n + c - 1 : p \in SeqIds /\ OutputArtifacts # {}
    BY <2>2, <2>3, BoundsAssumption DEF Emitted, SeqIds
  <2>5. ~Ended(r)
    BY DEF Publishes, Ended
  <2> HIDE DEF P, n, c
  <2>6. \A p \in n .. n + c - 1 : \A a \in OutputArtifacts : Worked(r, p, a)
    <3>1. \A p \in 0 .. n + c - 1 : \A a \in OutputArtifacts : Worked(r, p, a)'
      <4>1. OutputsInOrder'
        BY DEF EmissionInv
      <4>2. \A p \in 0 .. nextEmit'[r] - 1 : \A a \in OutputArtifacts : Worked(r, p, a)'
        BY <4>1 DEF OutputsInOrder
      <4>3. nextEmit'[r] = n + c
        BY <2>1
      <4> QED
        BY <2>2, <2>3, <4>2, <4>3
    <3>2. \A p, a : Worked(r, p, a)' <=> Worked(r, p, a)
      BY DEF Publishes, Worked
    <3> QED
      BY <2>2, <2>3, <3>1, <3>2
  <2>7. n .. n + c - 1 \subseteq WorkedOn(r)
    BY <2>4, <2>6 DEF WorkedOn
  <2>8. CASE c = 0
    <3>1. [i \in 1 .. 0 |-> n + i - 1] = << >>
      OBVIOUS
    <3>2. outputs'[r] = outputs[r] /\ nextEmit'[r] = n
      BY <2>1, <2>2, <2>8, <3>1
    <3> QED
      BY <1>2, <1>1, <1>4, <2>5, <3>2 DEF StreamStep, n
  <2>9. CASE c > 0
    <3>1. nextEmit'[r] - n = c /\ nextEmit'[r] > n
      BY <2>1, <2>2, <2>3, <2>9
    <3>2. n .. nextEmit'[r] - 1 \subseteq WorkedOn(r)
      BY <2>1, <2>2, <2>3, <2>7
    <3>3. outputs'[r] = outputs[r] \o [i \in 1 .. nextEmit'[r] - n |-> n + i - 1]
      BY ONLY <2>1, <3>1
    <3> QED
      BY <1>1, <1>2, <1>4, <2>5, <3>1, <3>2, <3>3 DEF StreamStep, n
  <2> QED
    BY <2>3, <2>8, <2>9
<1> QED
  BY <1>3, <1>4

\* Any other step leaves a stream alone, takes what it has ready or ends it.
LEMMA QuietStream ==
    ASSUME Quiet, NEW x \in Runtimes
    PROVE  StreamStep(x) /\ (Ended(x) => Ended(x)')
<1>1. WorkedOn(x)' = WorkedOn(x)
  BY SameWork DEF Quiet
<1> QED
  BY <1>1 DEF Quiet, StreamStep

--------------------------------------------------------------------------------
\* The streaming orchestrator implements ordered streams: outputs are handed out
\* in sequence order without a gap, after the work, and never after the end.
THEOREM StreamsAreOrdered == Spec => ImplementsOrderedStreams
<1>1. Init => Ordered!Init
  <2> SUFFICES ASSUME Init PROVE Ordered!Init
    OBVIOUS
  <2>1. \A r \in Runtimes : ~Ended(r)
    BY DEF Init, Ended
  <2>2. \A r \in Runtimes : WorkedOn(r) = {}
    BY DEF Init, WorkedOn, Worked
  <2>3. /\ outputs = [r \in Runtimes |-> << >>]
        /\ nextEmit = [r \in Runtimes |-> 0]
    BY DEF Init
  <2> QED
    BY <2>1, <2>2, <2>3 DEF Ordered!Init
<1>2. /\ TypeOK /\ LifecycleInv /\ EmissionInv /\ TerminalHoldsNothing /\ [Next]_vars
      => [Ordered!Next]_Ordered!vars
  <2> SUFFICES ASSUME TypeOK, LifecycleInv, EmissionInv, TerminalHoldsNothing, [Next]_vars
               PROVE  Ordered!Next
    OBVIOUS
  <2>1. TerminalHoldsNothing' /\ EmissionInv'
    BY StepTerminal, StepEmission
  <2>2. \A x \in Runtimes : StreamStep(x) /\ (Ended(x) => Ended(x)')
    BY <2>1, StepKinds, QuietStream, AdmitStream, PublishStream
  <2> QED
    BY <2>1, <2>2, StreamsStep
<1>3. Spec => []TerminalHoldsNothing
  BY TerminalIsEmpty
<1>4. Init => EmissionInv
  BY InitFlow
<1>5. TypeOK /\ LifecycleInv /\ EmissionInv /\ [Next]_vars => EmissionInv'
  BY StepEmission
<1> QED
  BY <1>1, <1>2, <1>3, <1>4, <1>5, TypeCorrect, Lifecycle, PTL
     DEF Spec, ImplementsOrderedStreams, Ordered!Spec
--------------------------------------------------------------------------------
(* Limits: what is in flight is counted by finite sets that an admission   *)
(* extends by one invocation.                                              *)

\* A subset of a finite set is finite and not larger.
LEMMA CountSubset ==
    ASSUME NEW S, NEW T, IsFiniteSet(T), S \subseteq T
    PROVE  /\ IsFiniteSet(S) /\ Cardinality(S) \in Nat /\ Cardinality(T) \in Nat
           /\ Cardinality(S) <= Cardinality(T)
<1>1. IsFiniteSet(S) /\ Cardinality(S) <= Cardinality(T)
  BY FS_Subset
<1> QED
  BY <1>1, FS_CardinalityType

\* One element more.
LEMMA CountAdd ==
    ASSUME NEW S, NEW T, NEW x, IsFiniteSet(S), T \subseteq S \cup {x}
    PROVE  /\ Cardinality(S) \in Nat /\ Cardinality(T) \in Nat
           /\ Cardinality(T) <= Cardinality(S) + 1
<1>1. /\ IsFiniteSet(S \cup {x}) /\ Cardinality(S) \in Nat
      /\ Cardinality(S \cup {x}) = IF x \in S THEN Cardinality(S) ELSE Cardinality(S) + 1
  BY FS_AddElement, FS_CardinalityType
<1>2. Cardinality(T) \in Nat /\ Cardinality(T) <= Cardinality(S \cup {x})
  BY <1>1, CountSubset
<1> QED
  BY <1>1, <1>2

\* One element less.
LEMMA CountRemove ==
    ASSUME NEW S, NEW T, NEW x \in S, IsFiniteSet(S), T \subseteq S \ {x}
    PROVE  /\ Cardinality(S) \in Nat /\ Cardinality(T) \in Nat
           /\ Cardinality(T) + 1 <= Cardinality(S)
<1>1. IsFiniteSet(S \ {x}) /\ Cardinality(S) \in Nat /\ Cardinality(S \ {x}) = Cardinality(S) - 1
  BY FS_RemoveElement, FS_CardinalityType
<1>2. Cardinality(T) \in Nat /\ Cardinality(T) <= Cardinality(S \ {x})
  BY <1>1, CountSubset
<1> QED
  BY <1>1, <1>2

\* The sets of sequences, stages and runtimes are finite.
LEMMA FiniteBounds ==
    IsFiniteSet(SeqIds) /\ IsFiniteSet(Stages) /\ IsFiniteSet(Runtimes)
<1>1. MaxSeq \in Int /\ MaxEpoch \in Int /\ NumStages \in Int /\ 0 \in Int /\ 1 \in Int
  BY BoundsAssumption
<1> QED
  BY <1>1, FS_Interval DEF SeqIds, Stages, Runtimes

\* What is in flight can be counted.
LEMMA InFlightFinite ==
    ASSUME NEW T \in SUBSET Stages
    PROVE  IsFiniteSet(InFlightAt(T))
<1>1. IsFiniteSet(T)
  BY FiniteBounds, FS_Subset
<1>2. IsFiniteSet(T \X SeqIds)
  BY <1>1, FiniteBounds, FS_Product
<1>3. IsFiniteSet(Runtimes \X (T \X SeqIds))
  BY <1>2, FiniteBounds, FS_Product
<1>4. InFlightAt(T) \in SUBSET (Runtimes \X (T \X SeqIds))
  BY DEF InFlightAt
<1> QED
  BY <1>3, <1>4, FS_Subset

\* The sets EdgeOccupancy, Reserved and OutputOccupancy count.
SlotsOn(r, e) == {q \in SeqIds : <<q, e.artifact, e.target>> \in slots[r]}
Promised(r, a) == {t \in inFlight[r] : a \in Produces[t[1]]}
PendingOn(r, a) == {q \in SeqIds : <<q, a>> \in pending[r]}

\* The occupancies of the code are the sizes of finite sets.
LEMMA OccupancyCounts ==
    ASSUME TypeOK, NEW r \in Runtimes
    PROVE  /\ \A e \in Edges : /\ IsFiniteSet(SlotsOn(r, e))
                               /\ EdgeOccupancy(r, e) = Cardinality(SlotsOn(r, e))
                               /\ EdgeOccupancy(r, e) \in Nat
           /\ \A a \in Artifacts : /\ IsFiniteSet(Promised(r, a))
                                   /\ Reserved(r, a) = Cardinality(Promised(r, a))
                                   /\ Reserved(r, a) \in Nat
           /\ \A a \in Artifacts : /\ IsFiniteSet(PendingOn(r, a))
                                   /\ OutputOccupancy(r, a)
                                        = Len(outputs[r]) + Cardinality(PendingOn(r, a))
                                   /\ Len(outputs[r]) \in Nat
                                   /\ Cardinality(PendingOn(r, a)) \in Nat
<1>1. ASSUME NEW e \in Edges PROVE IsFiniteSet(SlotsOn(r, e)) /\ Cardinality(SlotsOn(r, e)) \in Nat
  <2>1. SlotsOn(r, e) \subseteq SeqIds
    BY DEF SlotsOn
  <2> QED
    BY <2>1, FiniteBounds, CountSubset
<1>2. ASSUME NEW a \in Artifacts PROVE IsFiniteSet(Promised(r, a)) /\ Cardinality(Promised(r, a)) \in Nat
  <2>1. Promised(r, a) \subseteq Stages \X SeqIds
    BY DEF Promised, TypeOK, FlowTypes
  <2>2. IsFiniteSet(Stages \X SeqIds)
    BY FiniteBounds, FS_Product
  <2> QED
    BY <2>1, <2>2, CountSubset
<1>3. ASSUME NEW a \in Artifacts PROVE IsFiniteSet(PendingOn(r, a)) /\ Cardinality(PendingOn(r, a)) \in Nat
  <2>1. PendingOn(r, a) \subseteq SeqIds
    BY DEF PendingOn
  <2> QED
    BY <2>1, FiniteBounds, CountSubset
<1>4. Len(outputs[r]) \in Nat
  BY DEF TypeOK, FlowTypes
<1> QED
  BY <1>1, <1>2, <1>3, <1>4
     DEF EdgeOccupancy, Reserved, OutputOccupancy, SlotsOn, Promised, PendingOn

--------------------------------------------------------------------------------
(* How the occupancy of an edge, a promise and an output queue change.     *)

\* Nothing reaches an edge: its occupancy does not grow.
LEMMA EdgeKept ==
    ASSUME TypeOK, NEW r \in Runtimes, NEW e \in Edges,
           \A q \in SeqIds : <<q, e.artifact, e.target>> \in slots'[r]
                               => <<q, e.artifact, e.target>> \in slots[r]
    PROVE  /\ EdgeOccupancy(r, e) \in Nat /\ EdgeOccupancy(r, e)' \in Nat
           /\ EdgeOccupancy(r, e)' <= EdgeOccupancy(r, e)
<1>1. SlotsOn(r, e)' \subseteq SlotsOn(r, e)
  BY DEF SlotsOn
<1>2. EdgeOccupancy(r, e) = Cardinality(SlotsOn(r, e)) /\ IsFiniteSet(SlotsOn(r, e))
  BY OccupancyCounts
<1>3. EdgeOccupancy(r, e)' = Cardinality(SlotsOn(r, e)')
  BY DEF EdgeOccupancy, SlotsOn
<1> QED
  BY <1>1, <1>2, <1>3, CountSubset

\* One sequence reaches an edge: its occupancy grows by at most one.
LEMMA EdgeFilled ==
    ASSUME TypeOK, NEW r \in Runtimes, NEW e \in Edges, NEW q \in SeqIds,
           \A p \in SeqIds : <<p, e.artifact, e.target>> \in slots'[r]
                               => <<p, e.artifact, e.target>> \in slots[r] \/ p = q
    PROVE  /\ EdgeOccupancy(r, e) \in Nat /\ EdgeOccupancy(r, e)' \in Nat
           /\ EdgeOccupancy(r, e)' <= EdgeOccupancy(r, e) + 1
<1>1. SlotsOn(r, e)' \subseteq SlotsOn(r, e) \cup {q}
  BY DEF SlotsOn
<1>2. EdgeOccupancy(r, e) = Cardinality(SlotsOn(r, e)) /\ IsFiniteSet(SlotsOn(r, e))
  BY OccupancyCounts
<1>3. EdgeOccupancy(r, e)' = Cardinality(SlotsOn(r, e)')
  BY DEF EdgeOccupancy, SlotsOn
<1> QED
  BY <1>1, <1>2, <1>3, CountAdd

\* Nothing that produces an artifact is admitted: no promise is made.
LEMMA PromiseKept ==
    ASSUME TypeOK, NEW r \in Runtimes, NEW a \in Artifacts,
           \A t \in inFlight'[r] : a \in Produces[t[1]] => t \in inFlight[r]
    PROVE  /\ Reserved(r, a) \in Nat /\ Reserved(r, a)' \in Nat
           /\ Reserved(r, a)' <= Reserved(r, a)
<1>1. Promised(r, a)' \subseteq Promised(r, a)
  BY DEF Promised
<1>2. Reserved(r, a) = Cardinality(Promised(r, a)) /\ IsFiniteSet(Promised(r, a))
  BY OccupancyCounts
<1>3. Reserved(r, a)' = Cardinality(Promised(r, a)')
  BY DEF Reserved, Promised
<1> QED
  BY <1>1, <1>2, <1>3, CountSubset

\* An admission makes at most one promise for an artifact.
LEMMA PromiseMade ==
    ASSUME TypeOK, NEW r \in Runtimes, NEW a \in Artifacts, NEW x,
           inFlight'[r] \subseteq inFlight[r] \cup {x}
    PROVE  /\ Reserved(r, a) \in Nat /\ Reserved(r, a)' \in Nat
           /\ Reserved(r, a)' <= Reserved(r, a) + 1
<1>1. Promised(r, a)' \subseteq Promised(r, a) \cup {x}
  BY DEF Promised
<1>2. Reserved(r, a) = Cardinality(Promised(r, a)) /\ IsFiniteSet(Promised(r, a))
  BY OccupancyCounts
<1>3. Reserved(r, a)' = Cardinality(Promised(r, a)')
  BY DEF Reserved, Promised
<1> QED
  BY <1>1, <1>2, <1>3, CountAdd

\* A delivery ends the promise of every artifact its stage produces.
LEMMA PromiseHonoured ==
    ASSUME TypeOK, NEW r \in Runtimes, NEW a \in Artifacts, NEW x \in inFlight[r],
           a \in Produces[x[1]], inFlight'[r] \subseteq inFlight[r] \ {x}
    PROVE  /\ Reserved(r, a) \in Nat /\ Reserved(r, a)' \in Nat
           /\ Reserved(r, a)' + 1 <= Reserved(r, a)
<1>1. Promised(r, a)' \subseteq Promised(r, a) \ {x} /\ x \in Promised(r, a)
  BY DEF Promised
<1>2. Reserved(r, a) = Cardinality(Promised(r, a)) /\ IsFiniteSet(Promised(r, a))
  BY OccupancyCounts
<1>3. Reserved(r, a)' = Cardinality(Promised(r, a)')
  BY DEF Reserved, Promised
<1> QED
  BY <1>1, <1>2, <1>3, CountRemove

\* Nothing reaches an output queue: its occupancy does not grow.
LEMMA OutputKept ==
    ASSUME TypeOK, NEW r \in Runtimes, NEW a \in Artifacts,
           outputs'[r] \in {outputs[r], << >>}, pending'[r] \subseteq pending[r]
    PROVE  /\ OutputOccupancy(r, a) \in Nat /\ OutputOccupancy(r, a)' \in Nat
           /\ OutputOccupancy(r, a)' <= OutputOccupancy(r, a)
<1>1. PendingOn(r, a)' \subseteq PendingOn(r, a)
  BY DEF PendingOn
<1>2. /\ OutputOccupancy(r, a) = Len(outputs[r]) + Cardinality(PendingOn(r, a))
      /\ Len(outputs[r]) \in Nat /\ IsFiniteSet(PendingOn(r, a))
  BY OccupancyCounts
<1>3. OutputOccupancy(r, a)' = Len(outputs'[r]) + Cardinality(PendingOn(r, a)')
  BY DEF OutputOccupancy, PendingOn
<1>4. Len(outputs'[r]) \in Nat /\ Len(outputs'[r]) <= Len(outputs[r])
  BY <1>2
<1>5. /\ Cardinality(PendingOn(r, a)') \in Nat /\ Cardinality(PendingOn(r, a)) \in Nat
      /\ Cardinality(PendingOn(r, a)') <= Cardinality(PendingOn(r, a))
  BY <1>1, <1>2, CountSubset
<1> QED
  BY <1>2, <1>3, <1>4, <1>5

--------------------------------------------------------------------------------
(* Edges and outputs under each kind of step.                              *)

\* What the graph assumptions say of edges and outputs, for the leaves below.
LEMMA EdgeArtifacts ==
    /\ \A e \in Edges : e.artifact \in Artifacts /\ e.target \in Stages
    /\ \A e \in Edges : e.capacity \in Nat /\ e.source \in Stages \cup {External}
    /\ OutputArtifacts \subseteq Artifacts /\ OutputCapacity \in Nat
BY GraphAssumption, BoundsAssumption

\* Nothing is added to any runtime.
LEMMA EdgesShrink ==
    ASSUME TypeOK, EdgesWithinCapacity,
           \A r \in Runtimes :
             /\ slots'[r] \subseteq slots[r]
             /\ inFlight'[r] \subseteq inFlight[r]
             /\ pending'[r] \subseteq pending[r]
             /\ outputs'[r] \in {outputs[r], << >>}
    PROVE  EdgesWithinCapacity'
<1>1. ASSUME NEW r \in Runtimes, NEW e \in Edges
      PROVE  EdgeOccupancy(r, e)' + (IF e.source = External THEN 0 ELSE Reserved(r, e.artifact)')
               <= e.capacity
  <2>1. EdgeOccupancy(r, e) + (IF e.source = External THEN 0 ELSE Reserved(r, e.artifact))
          <= e.capacity
    BY DEF EdgesWithinCapacity
  <2>2. /\ EdgeOccupancy(r, e) \in Nat /\ EdgeOccupancy(r, e)' \in Nat
        /\ EdgeOccupancy(r, e)' <= EdgeOccupancy(r, e)
    BY EdgeKept
  <2>3. /\ Reserved(r, e.artifact) \in Nat /\ Reserved(r, e.artifact)' \in Nat
        /\ Reserved(r, e.artifact)' <= Reserved(r, e.artifact)
    BY EdgeArtifacts, PromiseKept
  <2> QED
    BY <2>1, <2>2, <2>3, EdgeArtifacts
<1>2. ASSUME NEW r \in Runtimes, NEW a \in OutputArtifacts
      PROVE  OutputOccupancy(r, a)' + Reserved(r, a)' <= OutputCapacity
  <2>1. a \in Artifacts /\ OutputOccupancy(r, a) + Reserved(r, a) <= OutputCapacity
    BY EdgeArtifacts DEF EdgesWithinCapacity
  <2>2. /\ OutputOccupancy(r, a) \in Nat /\ OutputOccupancy(r, a)' \in Nat
        /\ OutputOccupancy(r, a)' <= OutputOccupancy(r, a)
    BY <2>1, OutputKept
  <2>3. /\ Reserved(r, a) \in Nat /\ Reserved(r, a)' \in Nat
        /\ Reserved(r, a)' <= Reserved(r, a)
    BY <2>1, PromiseKept
  <2> QED
    BY <2>1, <2>2, <2>3, EdgeArtifacts
<1> QED
  BY <1>1, <1>2 DEF EdgesWithinCapacity

\* An artifact from outside has no producer inside.
LEMMA IngressSources ==
    ASSUME NEW A \in SUBSET IngressArtifacts, NEW e \in Edges, e.artifact \in A
    PROVE  e.source = External
<1>1. PICK d \in Edges : d.source = External /\ d.artifact = e.artifact
  BY DEF IngressArtifacts
<1>2. \A st \in Stages : e.artifact \notin Produces[st]
  BY <1>1, ProducerAssumption
<1> QED
  BY <1>2, GraphAssumption

\* Accepted inputs take room that was there.
LEMMA EdgesPushed ==
    ASSUME TypeOK, EdgesWithinCapacity, NEW r \in Runtimes, NEW q \in SeqIds,
           NEW A \in SUBSET IngressArtifacts, Pushes(r, q, A)
    PROVE  EdgesWithinCapacity'
<1>1. /\ UNCHANGED <<inFlight, pending, outputs>>
      /\ \A x \in Runtimes \ {r} : slots'[x] = slots[x]
      /\ slots'[r] = slots[r] \cup
           {<<q, e.artifact, e.target>> : e \in {d \in Edges : d.artifact \in A}}
  BY DEF Pushes, TypeOK, FlowTypes
<1>2. ASSUME NEW x \in Runtimes, NEW e \in Edges
      PROVE  EdgeOccupancy(x, e)' + (IF e.source = External THEN 0 ELSE Reserved(x, e.artifact)')
               <= e.capacity
  <2>1. EdgeOccupancy(x, e) + (IF e.source = External THEN 0 ELSE Reserved(x, e.artifact))
          <= e.capacity
    BY DEF EdgesWithinCapacity
  <2>2. /\ Reserved(x, e.artifact) \in Nat /\ Reserved(x, e.artifact)' \in Nat
        /\ Reserved(x, e.artifact)' <= Reserved(x, e.artifact)
    BY <1>1, EdgeArtifacts, PromiseKept
  <2>3. CASE x # r \/ e.artifact \notin A
    <3>1. \A p \in SeqIds : <<p, e.artifact, e.target>> \in slots'[x]
                              => <<p, e.artifact, e.target>> \in slots[x]
      BY <1>1, <2>3
    <3>2. /\ EdgeOccupancy(x, e) \in Nat /\ EdgeOccupancy(x, e)' \in Nat
          /\ EdgeOccupancy(x, e)' <= EdgeOccupancy(x, e)
      BY <3>1, EdgeKept
    <3> QED
      BY <2>1, <2>2, <3>2, EdgeArtifacts
  <2>4. CASE x = r /\ e.artifact \in A
    <3>1. \A p \in SeqIds : <<p, e.artifact, e.target>> \in slots'[r]
                              => <<p, e.artifact, e.target>> \in slots[r] \/ p = q
      BY <1>1
    <3>2. /\ EdgeOccupancy(r, e) \in Nat /\ EdgeOccupancy(r, e)' \in Nat
          /\ EdgeOccupancy(r, e)' <= EdgeOccupancy(r, e) + 1
      BY <3>1, EdgeFilled
    <3>3. e.source = External
      BY <2>4, IngressSources
    <3>4. EdgeOccupancy(r, e) < e.capacity
      BY <2>4 DEF Pushes
    <3> QED
      BY <2>4, <3>2, <3>3, <3>4, EdgeArtifacts
  <2> QED
    BY <2>3, <2>4
<1>3. ASSUME NEW x \in Runtimes, NEW a \in OutputArtifacts
      PROVE  OutputOccupancy(x, a)' + Reserved(x, a)' <= OutputCapacity
  <2>1. UNCHANGED <<OutputOccupancy(x, a), Reserved(x, a)>>
    BY <1>1 DEF OutputOccupancy, Reserved
  <2> QED
    BY <2>1 DEF EdgesWithinCapacity
<1> QED
  BY <1>2, <1>3 DEF EdgesWithinCapacity

\* An admission promises an artifact where HasOutputCapacity found room, its
\* own promises counted.
LEMMA EdgesAdmitted ==
    ASSUME TypeOK, EdgesWithinCapacity,
           NEW st \in Stages, NEW r \in Runtimes, NEW q \in SeqIds, Admits(st, r, q)
    PROVE  EdgesWithinCapacity'
<1>1. /\ UNCHANGED <<pending, outputs>>
      /\ \A x \in Runtimes : slots'[x] \subseteq slots[x]
      /\ \A x \in Runtimes \ {r} : inFlight'[x] = inFlight[x]
      /\ inFlight'[r] = inFlight[r] \cup {<<st, q>>}
  BY DEF Admits, TypeOK, FlowTypes
<1>2. ASSUME NEW x \in Runtimes, NEW a \in Artifacts, x # r \/ a \notin Produces[st]
      PROVE  /\ Reserved(x, a) \in Nat /\ Reserved(x, a)' \in Nat
             /\ Reserved(x, a)' <= Reserved(x, a)
  <2>1. \A t \in inFlight'[x] : a \in Produces[t[1]] => t \in inFlight[x]
    BY <1>1, <1>2
  <2> QED
    BY <2>1, PromiseKept
<1>3. ASSUME NEW a \in Artifacts
      PROVE  /\ Reserved(r, a) \in Nat /\ Reserved(r, a)' \in Nat
             /\ Reserved(r, a)' <= Reserved(r, a) + 1
  BY <1>1, PromiseMade
<1>4. ASSUME NEW x \in Runtimes, NEW e \in Edges
      PROVE  EdgeOccupancy(x, e)' + (IF e.source = External THEN 0 ELSE Reserved(x, e.artifact)')
               <= e.capacity
  <2>1. EdgeOccupancy(x, e) + (IF e.source = External THEN 0 ELSE Reserved(x, e.artifact))
          <= e.capacity
    BY DEF EdgesWithinCapacity
  <2>2. /\ EdgeOccupancy(x, e) \in Nat /\ EdgeOccupancy(x, e)' \in Nat
        /\ EdgeOccupancy(x, e)' <= EdgeOccupancy(x, e)
    BY <1>1, EdgeKept
  <2>3. CASE e.source = External
    BY <2>1, <2>2, <2>3, EdgeArtifacts
  <2>4. CASE x # r \/ e.artifact \notin Produces[st]
    <3>1. /\ Reserved(x, e.artifact) \in Nat /\ Reserved(x, e.artifact)' \in Nat
          /\ Reserved(x, e.artifact)' <= Reserved(x, e.artifact)
      BY <1>2, <2>4, EdgeArtifacts
    <3> QED
      BY <2>1, <2>2, <3>1, EdgeArtifacts
  <2>5. CASE e.source # External /\ x = r /\ e.artifact \in Produces[st]
    <3>1. e.source \in Stages /\ e.artifact \in Produces[e.source]
      BY <2>5, EdgeArtifacts, GraphAssumption
    <3>2. e.source = st
      BY <2>5, <3>1, ProducerAssumption
    <3>3. EdgeOccupancy(r, e) + Reserved(r, e.artifact) < e.capacity
      BY <3>2 DEF Admits, HasOutputCapacity
    <3>4. /\ Reserved(r, e.artifact) \in Nat /\ Reserved(r, e.artifact)' \in Nat
          /\ Reserved(r, e.artifact)' <= Reserved(r, e.artifact) + 1
      BY <1>3, EdgeArtifacts
    <3> QED
      BY <2>2, <2>5, <3>3, <3>4, EdgeArtifacts
  <2> QED
    BY <2>3, <2>4, <2>5
<1>5. ASSUME NEW x \in Runtimes, NEW a \in OutputArtifacts
      PROVE  OutputOccupancy(x, a)' + Reserved(x, a)' <= OutputCapacity
  <2>1. a \in Artifacts /\ OutputOccupancy(x, a) + Reserved(x, a) <= OutputCapacity
    BY EdgeArtifacts DEF EdgesWithinCapacity
  <2>2. /\ OutputOccupancy(x, a) \in Nat /\ OutputOccupancy(x, a)' \in Nat
        /\ OutputOccupancy(x, a)' <= OutputOccupancy(x, a)
    BY <1>1, <2>1, OutputKept
  <2>3. CASE x # r \/ a \notin Produces[st]
    BY <1>2, <2>1, <2>2, <2>3, EdgeArtifacts
  <2>4. CASE x = r /\ a \in Produces[st]
    <3>1. OutputOccupancy(r, a) + Reserved(r, a) < OutputCapacity
      BY <2>4 DEF Admits, HasOutputCapacity
    <3> QED
      BY <1>3, <2>1, <2>2, <2>4, <3>1, EdgeArtifacts
  <2> QED
    BY <2>3, <2>4
<1> QED
  BY <1>4, <1>5 DEF EdgesWithinCapacity

\* A publication turns a promise into an artifact, and emits what it takes from
\* the pending outputs.
LEMMA OutputsPublished ==
    ASSUME TypeOK, NEW st \in Stages, NEW r \in Runtimes, NEW q \in SeqIds, Publishes(st, r, q),
           NEW a \in OutputArtifacts
    PROVE  /\ OutputOccupancy(r, a) \in Nat /\ OutputOccupancy(r, a)' \in Nat
           /\ OutputOccupancy(r, a)'
                <= OutputOccupancy(r, a) + (IF a \in Produces[st] THEN 1 ELSE 0)
<1> DEFINE P == pending[r] \cup {<<q, b>> : b \in Produces[st] \cap OutputArtifacts}
           n == nextEmit[r]
           E == Emitted(P, n)
           held == {p \in SeqIds : <<p, a>> \in P}
<1>1. /\ pending'[r] = {p \in P : p[1] \notin E}
      /\ outputs'[r] = outputs[r] \o [i \in 1 .. Cardinality(E) |-> n + i - 1]
  BY DEF Publishes, TypeOK, FlowTypes
<1>2. n \in Nat /\ outputs[r] \in Seq(Nat) /\ a \in Artifacts
  BY EdgeArtifacts DEF TypeOK, FlowTypes
<1>3. Cardinality(E) \in Nat
  BY <1>2, EmittedIsPrefix
<1>4. Len(outputs'[r]) = Len(outputs[r]) + Cardinality(E)
  BY <1>1, <1>2, <1>3, RunAppended
<1>5. E \in SUBSET held /\ IsFiniteSet(held)
  <2>1. held \subseteq SeqIds
    OBVIOUS
  <2>2. IsFiniteSet(held)
    BY <2>1, FiniteBounds, FS_Subset
  <2>3. E \subseteq held
    BY <1>2, BoundsAssumption DEF Emitted, SeqIds
  <2> QED
    BY <2>2, <2>3
<1>6. PendingOn(r, a)' = held \ E
  BY <1>1 DEF PendingOn
<1>7. held \subseteq IF a \in Produces[st] THEN PendingOn(r, a) \cup {q} ELSE PendingOn(r, a)
  BY DEF PendingOn
<1>8. /\ OutputOccupancy(r, a) = Len(outputs[r]) + Cardinality(PendingOn(r, a))
      /\ Len(outputs[r]) \in Nat /\ IsFiniteSet(PendingOn(r, a))
      /\ Cardinality(PendingOn(r, a)) \in Nat
  BY <1>2, OccupancyCounts
<1>9. OutputOccupancy(r, a)' = Len(outputs'[r]) + Cardinality(PendingOn(r, a)')
  BY DEF OutputOccupancy, PendingOn
<1> HIDE DEF P, n, E, held
<1>10. Cardinality(held) \in Nat /\ Cardinality(held \ E) = Cardinality(held) - Cardinality(E)
  <2>1. held \cap E = E
    BY <1>5
  <2>2. IsFiniteSet(held) /\ IsFiniteSet(E)
    BY <1>5, FS_Subset
  <2> QED
    BY <2>1, <2>2, FS_Difference, FS_CardinalityType
<1>11. /\ Cardinality(held \ E) \in Nat
       /\ Cardinality(held) <= Cardinality(PendingOn(r, a)) + (IF a \in Produces[st] THEN 1 ELSE 0)
  <2>1. Cardinality(held \ E) \in Nat
    BY <1>5, CountSubset
  <2>2. CASE a \in Produces[st]
    <3>1. Cardinality(held) <= Cardinality(PendingOn(r, a)) + 1
      BY <1>7, <1>8, <2>2, CountAdd
    <3> QED
      BY <2>1, <2>2, <3>1
  <2>3. CASE a \notin Produces[st]
    <3>1. Cardinality(held) <= Cardinality(PendingOn(r, a))
      BY <1>7, <1>8, <2>3, CountSubset
    <3> QED
      BY <1>8, <1>10, <2>1, <2>3, <3>1
  <2> QED
    BY <2>2, <2>3
<1>12. OutputOccupancy(r, a)' = Len(outputs[r]) + Cardinality(held)
  BY <1>3, <1>4, <1>6, <1>8, <1>9, <1>10
<1>13. OutputOccupancy(r, a) \in Nat /\ OutputOccupancy(r, a)' \in Nat
  BY <1>8, <1>10, <1>12
<1> QED
  BY <1>8, <1>10, <1>11, <1>12, <1>13

\* A delivery fills the edges with what their capacity was promised for.
LEMMA EdgesPublished ==
    ASSUME TypeOK, EdgesWithinCapacity,
           NEW st \in Stages, NEW r \in Runtimes, NEW q \in SeqIds, Publishes(st, r, q)
    PROVE  EdgesWithinCapacity'
<1>1. /\ \A x \in Runtimes \ {r} : /\ slots'[x] = slots[x] /\ inFlight'[x] = inFlight[x]
                                   /\ pending'[x] = pending[x] /\ outputs'[x] = outputs[x]
      /\ slots'[r] = slots[r] \cup
           {<<q, e.artifact, e.target>> : e \in {d \in Edges : d.source = st}}
      /\ <<st, q>> \in inFlight[r]
      /\ inFlight'[r] = inFlight[r] \ {<<st, q>>}
  BY DEF Publishes, TypeOK, FlowTypes
<1>2. ASSUME NEW x \in Runtimes, NEW a \in Artifacts
      PROVE  /\ Reserved(x, a) \in Nat /\ Reserved(x, a)' \in Nat
             /\ Reserved(x, a)' <= Reserved(x, a)
             /\ x = r /\ a \in Produces[st] => Reserved(x, a)' + 1 <= Reserved(x, a)
  <2>1. \A t \in inFlight'[x] : t \in inFlight[x]
    BY <1>1
  <2>2. CASE x = r /\ a \in Produces[st]
    BY <1>1, <2>2, PromiseHonoured
  <2> QED
    BY <2>1, <2>2, PromiseKept
<1>3. ASSUME NEW x \in Runtimes, NEW e \in Edges
      PROVE  EdgeOccupancy(x, e)' + (IF e.source = External THEN 0 ELSE Reserved(x, e.artifact)')
               <= e.capacity
  <2>1. EdgeOccupancy(x, e) + (IF e.source = External THEN 0 ELSE Reserved(x, e.artifact))
          <= e.capacity
    BY DEF EdgesWithinCapacity
  <2>2. /\ Reserved(x, e.artifact) \in Nat /\ Reserved(x, e.artifact)' \in Nat
        /\ Reserved(x, e.artifact)' <= Reserved(x, e.artifact)
    BY <1>2, EdgeArtifacts
  <2>3. CASE x # r \/ e.artifact \notin Produces[st]
    <3>1. \A d \in Edges : d.source = st => d.artifact \in Produces[st]
      BY GraphAssumption
    <3>2. \A p \in SeqIds : <<p, e.artifact, e.target>> \in slots'[x]
                              => <<p, e.artifact, e.target>> \in slots[x]
      BY <1>1, <2>3, <3>1
    <3>3. /\ EdgeOccupancy(x, e) \in Nat /\ EdgeOccupancy(x, e)' \in Nat
          /\ EdgeOccupancy(x, e)' <= EdgeOccupancy(x, e)
      BY <3>2, EdgeKept
    <3> QED
      BY <2>1, <2>2, <3>3, EdgeArtifacts
  <2>4. CASE x = r /\ e.artifact \in Produces[st]
    <3>1. e.source # External
      BY <2>4, ProducerAssumption
    <3>2. \A p \in SeqIds : <<p, e.artifact, e.target>> \in slots'[r]
                              => <<p, e.artifact, e.target>> \in slots[r] \/ p = q
      BY <1>1
    <3>3. /\ EdgeOccupancy(r, e) \in Nat /\ EdgeOccupancy(r, e)' \in Nat
          /\ EdgeOccupancy(r, e)' <= EdgeOccupancy(r, e) + 1
      BY <3>2, EdgeFilled
    <3>4. Reserved(r, e.artifact)' + 1 <= Reserved(r, e.artifact)
      BY <1>2, <2>4, EdgeArtifacts
    <3> QED
      BY <2>1, <2>2, <2>4, <3>1, <3>3, <3>4, EdgeArtifacts
  <2> QED
    BY <2>3, <2>4
<1>4. ASSUME NEW x \in Runtimes, NEW a \in OutputArtifacts
      PROVE  OutputOccupancy(x, a)' + Reserved(x, a)' <= OutputCapacity
  <2>1. a \in Artifacts /\ OutputOccupancy(x, a) + Reserved(x, a) <= OutputCapacity
    BY EdgeArtifacts DEF EdgesWithinCapacity
  <2>2. CASE x # r
    BY <1>1, <1>2, <2>1, <2>2, OutputKept, EdgeArtifacts
  <2>3. CASE x = r
    <3>1. /\ OutputOccupancy(r, a) \in Nat /\ OutputOccupancy(r, a)' \in Nat
          /\ OutputOccupancy(r, a)'
               <= OutputOccupancy(r, a) + (IF a \in Produces[st] THEN 1 ELSE 0)
      BY OutputsPublished
    <3>2. /\ Reserved(r, a) \in Nat /\ Reserved(r, a)' \in Nat
          /\ Reserved(r, a)' <= Reserved(r, a)
          /\ a \in Produces[st] => Reserved(r, a)' + 1 <= Reserved(r, a)
      BY <1>2, <2>1
    <3> QED
      BY <2>1, <2>3, <3>1, <3>2, EdgeArtifacts
  <2> QED
    BY <2>2, <2>3
<1> QED
  BY <1>3, <1>4 DEF EdgesWithinCapacity

--------------------------------------------------------------------------------
(* Stages, groups and the end of close().                                  *)

\* As long as the sessions are there, what _has_execution_capacity counts is all
\* that is in flight.
LEMMA FlyingIsAll ==
    ASSUME TypeOK, LifecycleInv, shutdown.phase # "done", NEW T \in SUBSET Stages
    PROVE  InFlightAt(T) = {x \in Flying : x[2][1] \in T}
<1>1. ASSUME NEW r \in Runtimes, inFlight[r] # {} PROVE r \in Current
  <2>1. sessions[owner[r]] = r
    BY <1>1 DEF LifecycleInv, FlightInv
  <2>2. owner[r] \in Sessions
    BY <1>1 DEF LifecycleInv, TablesInv
  <2> QED
    BY <2>1, <2>2 DEF Current, Runtimes
<1>2. Current \subseteq Runtimes
  BY DEF Current, TypeOK, TableTypes, Runtimes
<1>3. \A r \in Runtimes : inFlight[r] \subseteq Stages \X SeqIds
  BY DEF TypeOK, FlowTypes
<1> QED
  BY <1>1, <1>2, <1>3 DEF InFlightAt, Flying

\* A step that puts nothing in flight.
LEMMA LimitsKept ==
    ASSUME LimitsInv, \A r \in Runtimes : inFlight'[r] \subseteq inFlight[r],
           NEW T \in SUBSET Stages
    PROVE  /\ Cardinality(InFlightAt(T))' \in Nat /\ Cardinality(InFlightAt(T)) \in Nat
           /\ Cardinality(InFlightAt(T))' <= Cardinality(InFlightAt(T))
<1>1. InFlightAt(T)' \subseteq InFlightAt(T)
  BY DEF InFlightAt
<1> QED
  BY <1>1, InFlightFinite, CountSubset

\* An admission to stage st: no room is taken elsewhere, and at st there was some.
LEMMA LimitsAdmitted ==
    ASSUME TypeOK, LifecycleInv, LimitsInv, shutdown.phase # "done",
           NEW st \in Stages, NEW r \in Runtimes, NEW q \in SeqIds, Admits(st, r, q)
    PROVE  /\ \A t \in Stages : Cardinality(InFlightAt({t}))' <= Global[t]
           /\ \A g \in Groups :
                Cardinality(InFlightAt({t \in Stages : GroupOf[t] = g}))' <= GroupLimit[g]
<1>1. inFlight' = [inFlight EXCEPT ![r] = @ \cup {<<st, q>>}]
  BY DEF Admits
<1>2. ASSUME NEW T \in SUBSET Stages
      PROVE  InFlightAt(T)' = IF st \in T THEN InFlightAt(T) \cup {<<r, <<st, q>>>>}
                                          ELSE InFlightAt(T)
  <2>1. \A x \in Runtimes \X (T \X SeqIds) :
          x[2] \in inFlight'[x[1]] <=> x[2] \in inFlight[x[1]] \/ x = <<r, <<st, q>>>>
    BY <1>1 DEF TypeOK, FlowTypes
  <2> QED
    BY <2>1 DEF InFlightAt
<1>3. ASSUME NEW T \in SUBSET Stages
      PROVE  /\ Cardinality(InFlightAt(T)) \in Nat /\ Cardinality(InFlightAt(T))' \in Nat
             /\ Cardinality(InFlightAt(T))' <= Cardinality(InFlightAt(T)) + 1
             /\ st \notin T => Cardinality(InFlightAt(T))' = Cardinality(InFlightAt(T))
  <2>1. InFlightAt(T)' \subseteq InFlightAt(T) \cup {<<r, <<st, q>>>>}
    BY <1>2
  <2>2. /\ Cardinality(InFlightAt(T)) \in Nat /\ Cardinality(InFlightAt(T)') \in Nat
        /\ Cardinality(InFlightAt(T)') <= Cardinality(InFlightAt(T)) + 1
    BY <2>1, InFlightFinite, CountAdd
  <2> QED
    BY <1>2, <2>2
<1>4. HasExecutionCapacity(st)
  BY DEF Admits
<1>5. ASSUME NEW t \in Stages PROVE Cardinality(InFlightAt({t}))' <= Global[t]
  <2>1. Global[t] \in Nat /\ Cardinality(InFlightAt({t})) <= Global[t]
    BY LimitAssumption DEF LimitsInv
  <2>2. CASE t # st
    BY <1>3, <2>1, <2>2
  <2>3. CASE t = st
    <3>1. InFlightAt({st}) = StageInFlight(st)
      BY FlyingIsAll DEF StageInFlight
    <3>2. Cardinality(InFlightAt({st})) < Global[st]
      BY <1>4, <3>1 DEF HasExecutionCapacity
    <3> QED
      BY <1>3, <2>1, <2>3, <3>2
  <2> QED
    BY <2>2, <2>3
<1>6. ASSUME NEW g \in Groups
      PROVE  Cardinality(InFlightAt({t \in Stages : GroupOf[t] = g}))' <= GroupLimit[g]
  <2> DEFINE T == {t \in Stages : GroupOf[t] = g}
  <2>1. GroupLimit[g] \in Nat /\ Cardinality(InFlightAt(T)) <= GroupLimit[g]
    BY LimitAssumption DEF LimitsInv
  <2>2. CASE st \notin T
    BY <1>3, <2>1, <2>2
  <2>3. CASE st \in T
    <3>1. InFlightAt(T) = GroupInFlight(g)
      <4>1. InFlightAt(T) = {x \in Flying : x[2][1] \in T}
        BY FlyingIsAll
      <4>2. \A x \in Flying : x[2][1] \in Stages
        BY DEF Flying
      <4> QED
        BY <4>1, <4>2 DEF GroupInFlight
    <3>2. Cardinality(InFlightAt(T)) < GroupLimit[g]
      BY <1>4, <2>3, <3>1 DEF HasExecutionCapacity
    <3> QED
      BY <1>3, <2>1, <3>2
  <2> QED
    BY <2>2, <2>3
<1> QED
  BY <1>5, <1>6

\* Once close() has cleared the sessions none comes back.
SessionsCleared == shutdown.phase = "done" => \A s \in Sessions : sessions[s] = 0

\* No step brings a session back once close() has cleared the table.
LEMMA StepCleared ==
    ASSUME TypeOK, SessionsCleared, [Next]_vars
    PROVE  SessionsCleared'
<1>1. ASSUME UNCHANGED sessions, shutdown'.phase = "done" => shutdown.phase = "done"
      PROVE  SessionsCleared'
  BY <1>1 DEF SessionsCleared
<1>2. ASSUME NEW s \in Sessions, NEW f \in Finals, CreateSession(s, f) PROVE SessionsCleared'
  BY <1>2 DEF CreateSession, SessionsCleared
<1>3. CASE Client
  BY <1>1, <1>2, <1>3 DEF Client, TryPushInputs, FinishInputs, PollOutputs, CancelSession,
                          CloseSession, tableVars
<1>4. CASE PumpTurn
  BY <1>1, <1>4 DEF PumpTurn, PumpSkip, PumpAdmit, PumpFailActor, PumpSubmitError
<1>5. ASSUME NEW st \in Stages, Complete(st) PROVE SessionsCleared'
  BY <1>1, <1>5 DEF Complete, CompleteAnomalous, CompleteFailed, CompleteDropped,
                    CompletePublished, Resolve, tableVars
<1>6. ASSUME NEW st \in Stages,
             \/ Start(st) \/ WorkerFail(st) \/ AbandonActor(st)
             \/ \E ok \in BOOLEAN : CloserDone(st, ok)
      PROVE  SessionsCleared'
  <2>1. ASSUME AbandonActor(st) PROVE shutdown'.phase = shutdown.phase
    BY <2>1 DEF AbandonActor, TypeOK, ControlTypes
  <2> QED
    BY <1>1, <1>6, <2>1 DEF Start, WorkerFail, AbandonActor, CloserDone, tableVars
<1>7. ASSUME NEW r \in Runtimes, DeleteSession(r) PROVE SessionsCleared'
  BY <1>7 DEF DeleteSession, SessionsCleared, TypeOK, TableTypes
<1>8. ASSUME NEW r \in Runtimes, TakeFailed(r) PROVE SessionsCleared'
  <2>1. UNCHANGED sessions
    BY <1>8 DEF TakeFailed, tableVars
  <2>2. shutdown'.phase = shutdown.phase
    BY <1>8 DEF TakeFailed, TypeOK, ControlTypes
  <2> QED
    BY <1>1, <2>1, <2>2
<1>9. ASSUME NEW r \in Runtimes, Cleanup(r) \/ Timeout(r) PROVE SessionsCleared'
  BY <1>1, <1>7, <1>8, <1>9
     DEF Cleanup, Timeout, AcquireCleanup, Drained, SendClose, CloseRefused, EndPass,
         LockTimeout, DrainTimeout, StageTimeout, tableVars
<1>10. CASE ShutdownBegin
  BY <1>1, <1>10 DEF ShutdownBegin, tableVars
<1>11. CASE Shutdown
  <2>1. CASE ShutdownDone
    BY <2>1 DEF ShutdownDone, SessionsCleared
  <2>2. ASSUME NEW r \in Runtimes, ShutdownSession(r) PROVE SessionsCleared'
    <3>1. shutdown'.phase = shutdown.phase
      BY <2>2 DEF ShutdownSession, TypeOK, ControlTypes
    <3> QED
      BY <1>1, <2>2, <3>1 DEF ShutdownSession, tableVars
  <2>3. CASE ShutdownStopThread \/ ShutdownJoin
    BY <1>1, <2>3 DEF ShutdownStopThread, ShutdownJoin, tableVars
  <2>4. ASSUME NEW st \in Stages, CloseActor(st) \/ JoinActor(st) PROVE SessionsCleared'
    <3>1. shutdown'.phase = shutdown.phase
      BY <2>4 DEF CloseActor, JoinActor, TypeOK, ControlTypes
    <3> QED
      BY <1>1, <2>4, <3>1 DEF CloseActor, JoinActor, tableVars
  <2> QED
    BY <1>11, <2>1, <2>2, <2>3, <2>4 DEF Shutdown
<1>12. CASE UNCHANGED vars
  BY <1>1, <1>12 DEF vars, tableVars
<1> QED
  BY <1>3, <1>4, <1>5, <1>6, <1>9, <1>10, <1>11, <1>12 DEF Next, Actor

\* The limits under each kind of step.
LEMMA StepLimits ==
    ASSUME TypeOK, LifecycleInv, LimitsInv, [Next]_vars
    PROVE  LimitsInv'
<1>1. SessionsCleared'
  BY StepCleared DEF LimitsInv, SessionsCleared
<1>2. \A g \in Groups : {t \in Stages : GroupOf[t] = g} \in SUBSET Stages
  OBVIOUS
<1>3. ASSUME \A r \in Runtimes : inFlight'[r] \subseteq inFlight[r], EdgesWithinCapacity'
      PROVE  LimitsInv'
  <2>1. ASSUME NEW t \in Stages PROVE Cardinality(InFlightAt({t}))' <= Global[t]
    <3>1. Global[t] \in Nat /\ Cardinality(InFlightAt({t})) <= Global[t]
      BY LimitAssumption DEF LimitsInv
    <3>2. /\ Cardinality(InFlightAt({t}))' \in Nat /\ Cardinality(InFlightAt({t})) \in Nat
          /\ Cardinality(InFlightAt({t}))' <= Cardinality(InFlightAt({t}))
      BY <1>3, LimitsKept
    <3> QED
      BY <3>1, <3>2
  <2>2. ASSUME NEW g \in Groups
        PROVE  Cardinality(InFlightAt({t \in Stages : GroupOf[t] = g}))' <= GroupLimit[g]
    <3> DEFINE T == {t \in Stages : GroupOf[t] = g}
    <3>1. GroupLimit[g] \in Nat /\ Cardinality(InFlightAt(T)) <= GroupLimit[g]
      BY LimitAssumption DEF LimitsInv
    <3>2. /\ Cardinality(InFlightAt(T))' \in Nat /\ Cardinality(InFlightAt(T)) \in Nat
          /\ Cardinality(InFlightAt(T))' <= Cardinality(InFlightAt(T))
      BY <1>3, LimitsKept
    <3> QED
      BY <3>1, <3>2
  <2> QED
    BY <1>1, <1>3, <2>1, <2>2 DEF LimitsInv, SessionsCleared
<1>4. CASE Settles
  BY <1>3, <1>4, EdgesShrink DEF Settles, Quiet, LimitsInv
<1>5. ASSUME NEW r \in Runtimes, NEW q \in SeqIds, NEW A \in SUBSET IngressArtifacts, Pushes(r, q, A)
      PROVE  LimitsInv'
  BY <1>3, <1>5, EdgesPushed DEF Pushes, LimitsInv
<1>6. ASSUME NEW st \in Stages, NEW r \in Runtimes, NEW q \in SeqIds, Admits(st, r, q)
      PROVE  LimitsInv'
  <2>1. shutdown.phase # "done"
    <3>1. \E s \in Sessions : sessions[s] # 0
      BY <1>6 DEF Admits, Running, Current
    <3> QED
      BY <3>1 DEF LimitsInv
  <2>2. EdgesWithinCapacity'
    BY <1>6, EdgesAdmitted DEF LimitsInv
  <2> QED
    BY <1>1, <1>6, <2>1, <2>2, LimitsAdmitted DEF LimitsInv, SessionsCleared
<1>7. ASSUME NEW st \in Stages, NEW r \in Runtimes, NEW q \in SeqIds, Publishes(st, r, q)
      PROVE  LimitsInv'
  <2>1. \A x \in Runtimes : inFlight'[x] \subseteq inFlight[x]
    BY <1>7 DEF Publishes, TypeOK, FlowTypes
  <2> QED
    BY <1>3, <1>7, <2>1, EdgesPublished DEF LimitsInv
<1> QED
  BY <1>4, <1>5, <1>6, <1>7, StepDetails

\* At first nothing takes room.
LEMMA InitLimits == Init => LimitsInv
<1> SUFFICES ASSUME Init PROVE LimitsInv
  OBVIOUS
<1>1. Cardinality({}) = 0
  BY FS_EmptySet
<1>2. \A T \in SUBSET Stages : InFlightAt(T) = {}
  BY DEF Init, InFlightAt
<1>3. \A r \in Runtimes : /\ \A e \in Edges : EdgeOccupancy(r, e) = 0
                          /\ \A a : Reserved(r, a) = 0 /\ OutputOccupancy(r, a) = 0
  <2>1. ASSUME NEW r \in Runtimes
        PROVE  slots[r] = {} /\ inFlight[r] = {} /\ pending[r] = {} /\ outputs[r] = << >>
    BY <2>1 DEF Init
  <2>2. ASSUME NEW r \in Runtimes, NEW a
        PROVE  /\ {t \in inFlight[r] : a \in Produces[t[1]]} = {}
               /\ {q \in SeqIds : <<q, a>> \in pending[r]} = {}
               /\ Len(outputs[r]) = 0
    BY <2>1
  <2>3. ASSUME NEW r \in Runtimes, NEW e \in Edges
        PROVE  {q \in SeqIds : <<q, e.artifact, e.target>> \in slots[r]} = {}
    BY <2>1
  <2>4. ASSUME NEW r \in Runtimes, NEW e \in Edges PROVE EdgeOccupancy(r, e) = 0
    BY <1>1, <2>3 DEF EdgeOccupancy
  <2>5. ASSUME NEW r \in Runtimes, NEW a PROVE Reserved(r, a) = 0 /\ OutputOccupancy(r, a) = 0
    <3>1. Reserved(r, a) = Cardinality({})
      BY <2>2 DEF Reserved
    <3>2. OutputOccupancy(r, a) = 0 + Cardinality({})
      BY <2>2 DEF OutputOccupancy
    <3> QED
      BY <1>1, <3>1, <3>2
  <2> QED
    BY <2>4, <2>5
<1>4. EdgesWithinCapacity
  <2>1. OutputCapacity \in Nat /\ \A e \in Edges : e.capacity \in Nat
    BY EdgeArtifacts
  <2> QED
    BY <1>3, <2>1 DEF EdgesWithinCapacity
<1>5. ASSUME NEW st \in Stages PROVE Cardinality(InFlightAt({st})) <= Global[st]
  <2>1. InFlightAt({st}) = {}
    BY <1>2
  <2> QED
    BY <1>1, <2>1, LimitAssumption
<1>6. \A g \in Groups : Cardinality(InFlightAt({st \in Stages : GroupOf[st] = g})) <= GroupLimit[g]
  BY <1>1, <1>2, LimitAssumption
<1> QED
  BY <1>4, <1>5, <1>6 DEF LimitsInv, Init

\* The invocations the actors of T hold are in flight, each once.
LEMMA HeldAreInFlight ==
    ASSUME TypeOK, LifecycleInv, NEW T \in SUBSET Stages
    PROVE  LET held == UNION {{st} \X Invocations(st) : st \in T}
           IN  /\ IsFiniteSet(held)
               /\ Cardinality(held) \in Nat /\ Cardinality(InFlightAt(T)) \in Nat
               /\ Cardinality(held) <= Cardinality(InFlightAt(T))
<1> DEFINE held == UNION {{st} \X Invocations(st) : st \in T}
           f == [x \in held |-> <<queue[x[1]][x[2]].runtime, <<x[1], queue[x[1]][x[2]].seq>>>>]
<1>1. ASSUME NEW x \in held
      PROVE  /\ x[1] \in T /\ x[1] \in Stages /\ x[2] \in Invocations(x[1])
             /\ x = <<x[1], x[2]>>
             /\ queue[x[1]][x[2]] \in Messages
  <2>1. PICK st \in T : x \in {st} \X Invocations(st)
    OBVIOUS
  <2>2. x[1] = st /\ x[2] \in Invocations(st) /\ x = <<x[1], x[2]>>
    BY <2>1
  <2>3. queue[st][x[2]] \in Messages
    BY <2>2, MailboxMessages DEF Invocations, TypeOK
  <2> QED
    BY <2>2, <2>3
<1>2. ASSUME NEW x \in held PROVE f[x] \in InFlightAt(T)
  <2>1. <<x[1], queue[x[1]][x[2]].seq>> \in inFlight[queue[x[1]][x[2]].runtime]
    BY <1>1 DEF LifecycleInv, MailboxInv
  <2>2. queue[x[1]][x[2]].runtime \in Runtimes /\ queue[x[1]][x[2]].seq \in SeqIds
    BY <1>1 DEF Messages
  <2> QED
    BY <1>1, <2>1, <2>2 DEF InFlightAt
<1>3. ASSUME NEW x \in held, NEW y \in held, f[x] = f[y] PROVE x = y
  <2>1. /\ x[1] = y[1]
        /\ queue[x[1]][x[2]].runtime = queue[y[1]][y[2]].runtime
        /\ queue[x[1]][x[2]].seq = queue[y[1]][y[2]].seq
    BY <1>3
  <2>2. x[1] \in Stages /\ x[2] \in Invocations(x[1]) /\ y[2] \in Invocations(x[1])
    BY <1>1, <2>1
  <2>3. /\ queue[x[1]][y[2]].runtime = queue[x[1]][x[2]].runtime
        /\ queue[x[1]][y[2]].seq = queue[x[1]][x[2]].seq
    BY <2>1
  <2>4. x[2] = y[2]
    BY <2>2, <2>3 DEF LifecycleInv, MailboxInv
  <2> QED
    BY <1>1, <2>1, <2>4
<1>4. f \in Injection(held, InFlightAt(T))
  <2>1. f \in [held -> InFlightAt(T)]
    BY <1>2
  <2> HIDE DEF held, f
  <2> QED
    BY <1>3, <2>1 DEF Injection, IsInjective
<1>5. IsFiniteSet(InFlightAt(T))
  BY InFlightFinite
<1> HIDE DEF held, f
<1>6. IsFiniteSet(held) /\ Cardinality(held) <= Cardinality(InFlightAt(T))
  BY <1>4, <1>5, FS_Injection
<1> QED
  BY <1>5, <1>6, FS_CardinalityType DEF held

\* What the actors hold stays within the limits if what is in flight does.
LEMMA HeldWithinLimits ==
    ASSUME TypeOK, LifecycleInv, LimitsInv
    PROVE  StagesWithinLimits
<1>1. ASSUME NEW st \in Stages PROVE Cardinality(Invocations(st)) <= Global[st]
  <2> DEFINE held == UNION {{t} \X Invocations(t) : t \in {st}}
             f == [i \in Invocations(st) |-> <<st, i>>]
  <2>1. /\ IsFiniteSet(held)
        /\ Cardinality(held) \in Nat /\ Cardinality(InFlightAt({st})) \in Nat
        /\ Cardinality(held) <= Cardinality(InFlightAt({st}))
    BY HeldAreInFlight
  <2>2. f \in Injection(Invocations(st), held)
    <3>1. f \in [Invocations(st) -> held] /\ \A i, j \in Invocations(st) : f[i] = f[j] => i = j
      OBVIOUS
    <3> HIDE DEF f, held
    <3> QED
      BY <3>1 DEF Injection, IsInjective
  <2> HIDE DEF held, f
  <2>3. IsFiniteSet(Invocations(st)) /\ Cardinality(Invocations(st)) <= Cardinality(held)
    BY <2>1, <2>2, FS_Injection
  <2>4. Cardinality(Invocations(st)) \in Nat
    BY <2>3, FS_CardinalityType
  <2>5. Global[st] \in Nat /\ Cardinality(InFlightAt({st})) <= Global[st]
    BY LimitAssumption DEF LimitsInv
  <2> QED
    BY <2>1, <2>3, <2>4, <2>5
<1>2. ASSUME NEW g \in Groups
      PROVE  Cardinality(UNION {{st} \X Invocations(st) : st \in {x \in Stages : GroupOf[x] = g}})
               <= GroupLimit[g]
  <2> DEFINE T == {x \in Stages : GroupOf[x] = g}
             held == UNION {{st} \X Invocations(st) : st \in T}
  <2>1. /\ Cardinality(held) \in Nat /\ Cardinality(InFlightAt(T)) \in Nat
        /\ Cardinality(held) <= Cardinality(InFlightAt(T))
    BY HeldAreInFlight
  <2>2. GroupLimit[g] \in Nat /\ Cardinality(InFlightAt(T)) <= GroupLimit[g]
    BY LimitAssumption DEF LimitsInv
  <2> HIDE DEF T, held
  <2>3. Cardinality(held) <= GroupLimit[g]
    BY <2>1, <2>2
  <2> QED
    BY <2>3 DEF held, T
<1> QED
  BY <1>1, <1>2 DEF StagesWithinLimits

\* For every graph, every limit and every number of sessions: edges and output
\* queues stay within their capacity, promises counted, and the actors never hold
\* more invocations than the stage and its resource group allow.
THEOREM LimitsHold == Spec => []LimitsRespected
<1>1. Init => LimitsInv
  BY InitLimits
<1>2. TypeOK /\ LifecycleInv /\ LimitsInv /\ [Next]_vars => LimitsInv'
  BY StepLimits
<1>3. TypeOK /\ LifecycleInv /\ LimitsInv => LimitsRespected
  BY HeldWithinLimits DEF LimitsInv, LimitsRespected
<1> QED
  BY <1>1, <1>2, <1>3, TypeCorrect, Lifecycle, PTL DEF Spec

--------------------------------------------------------------------------------
(* The last flag.                                                          *)

\* The invocations the actors hold after a step were held before it.
HeldBefore ==
    \A t \in Stages : \A i \in Invocations(t)' : \E j \in Invocations(t) : queue'[t][i] = queue[t][j]

\* A step that adds no invocation and declares no sequence final.
LEMMA LastFrame ==
    ASSUME LastFlagRight, HeldBefore, UNCHANGED final
    PROVE  LastFlagRight'
BY DEF LastFlagRight, HeldBefore

\* A mailbox left alone, or shortened by its head, holds nothing new.
LEMMA MailboxKept ==
    ASSUME TypeOK, \/ UNCHANGED queue
                   \/ \E st \in Stages : /\ queue[st] # << >>
                                         /\ queue' = [queue EXCEPT ![st] = Tail(@)]
    PROVE  HeldBefore
<1>1. CASE UNCHANGED queue
  BY <1>1 DEF HeldBefore, Invocations
<1>2. ASSUME NEW st \in Stages, queue[st] # << >>, queue' = [queue EXCEPT ![st] = Tail(@)]
      PROVE  HeldBefore
  <2>1. queue[st] \in Seq(Messages) /\ queue \in [Stages -> Seq(Messages)]
    BY DEF TypeOK, ActorTypes
  <2>2. queue'[st] = Tail(queue[st]) /\ \A t \in Stages : t # st => queue'[t] = queue[t]
    BY <1>2, <2>1
  <2>3. \A i \in DOMAIN Tail(queue[st]) :
          i + 1 \in DOMAIN queue[st] /\ Tail(queue[st])[i] = queue[st][i + 1]
    BY <1>2, <2>1, TailFacts
  <2>4. \A i \in Invocations(st)' : \E j \in Invocations(st) : queue'[st][i] = queue[st][j]
    BY <2>2, <2>3 DEF Invocations
  <2>5. \A t \in Stages : t # st => Invocations(t)' = Invocations(t)
    BY <2>2 DEF Invocations
  <2> QED
    BY <2>2, <2>4, <2>5 DEF HeldBefore
<1> QED
  BY <1>1, <1>2

\* A new invocation gets the flag its session then has.
LEMMA LastAppended ==
    ASSUME TypeOK, LastFlagRight, UNCHANGED final, NEW st \in Stages, NEW m \in Messages,
           m.kind = "run" => (m.last <=> final[m.runtime] = m.seq),
           queue' = [queue EXCEPT ![st] = Append(@, m)]
    PROVE  LastFlagRight'
<1> DEFINE n == Len(queue[st]) + 1
<1>1. queue[st] \in Seq(Messages) /\ queue \in [Stages -> Seq(Messages)]
  BY DEF TypeOK, ActorTypes
<1>2. /\ queue'[st] = Append(queue[st], m)
      /\ DOMAIN queue'[st] = DOMAIN queue[st] \cup {n}
      /\ queue'[st][n] = m
      /\ \A i \in DOMAIN queue[st] : queue'[st][i] = queue[st][i]
      /\ \A t \in Stages : t # st => queue'[t] = queue[t]
  BY <1>1, AppendFacts
<1> HIDE DEF n
<1>3. \A t \in Stages : \A i \in Invocations(t)' :
        \/ i \in Invocations(t) /\ queue'[t][i] = queue[t][i]
        \/ queue'[t][i] = m /\ m.kind = "run"
  BY <1>2 DEF Invocations
<1> QED
  BY <1>3 DEF LastFlagRight

\* The runtime of a session created now has no invocation, and one whose final
\* sequence is declared has none of that sequence.
LEMMA LastDeclared ==
    ASSUME TypeOK, LifecycleInv, LastFlagRight, UNCHANGED queue,
           NEW r \in Runtimes, NEW f \in {Open} \cup SeqIds,
           final' = [final EXCEPT ![r] = f],
           \/ inFlight[r] = {}
           \/ /\ final[r] \in {Open, f} /\ f # Open
              /\ \A st \in Stages : <<st, f>> \notin inFlight[r]
           \/ final[r] = f
    PROVE  LastFlagRight'
<1>1. final'[r] = f /\ \A x \in Runtimes : x # r => final'[x] = final[x]
  BY DEF TypeOK, FlowTypes
<1>2. ASSUME NEW st \in Stages, NEW i \in Invocations(st)
      PROVE  queue[st][i].last <=> final'[queue[st][i].runtime] = queue[st][i].seq
  <2> DEFINE x == queue[st][i].runtime
             q == queue[st][i].seq
  <2>1. x \in Runtimes /\ q \in SeqIds
    BY MailboxMessages DEF Invocations, Messages
  <2>2. <<st, q>> \in inFlight[x]
    BY DEF LifecycleInv, MailboxInv
  <2>3. queue[st][i].last <=> final[x] = q
    BY DEF LastFlagRight
  <2>4. q # Open
    BY <2>1 DEF SeqIds, Open
  <2> HIDE DEF x, q
  <2>5. final'[x] = q <=> final[x] = q
    BY <1>1, <2>1, <2>2, <2>4
  <2> QED
    BY <2>3, <2>5 DEF x, q
<1>3. \A st \in Stages : Invocations(st)' = Invocations(st)
  BY DEF Invocations
<1> QED
  BY <1>2, <1>3 DEF LastFlagRight

\* Every step keeps the is_last flag right.
LEMMA StepLast ==
    ASSUME TypeOK, LifecycleInv, EmissionInv, LastFlagRight, [Next]_vars
    PROVE  LastFlagRight'
<1>1. ASSUME UNCHANGED <<queue, final>> PROVE LastFlagRight'
  BY <1>1, MailboxKept, LastFrame
<1>2. ASSUME NEW s \in Sessions, NEW f \in Finals, CreateSession(s, f) PROVE LastFlagRight'
  <2>1. epoch + 1 \in Runtimes /\ f \in {Open} \cup SeqIds
    BY <1>2, EnvironmentAssumption DEF CreateSession
  <2>2. inFlight[epoch + 1] = {}
    BY <2>1 DEF LifecycleInv, TablesInv, TypeOK, TableTypes
  <2>3. UNCHANGED queue /\ final' = [final EXCEPT ![epoch + 1] = f]
    BY <1>2 DEF CreateSession, actorVars
  <2> QED
    BY <2>1, <2>2, <2>3, LastDeclared
<1>3. ASSUME NEW s \in Sessions, NEW f \in SeqIds, FinishInputs(s, f) PROVE LastFlagRight'
  <2>1. sessions[s] \in Runtimes
    BY <1>3, RunningRuntimes DEF FinishInputs, TypeOK
  <2>2. /\ final[sessions[s]] \in {Open, f}
        /\ UNCHANGED queue /\ final' = [final EXCEPT ![sessions[s]] = f]
        /\ \A st \in Stages : <<st, f>> \notin admitted[sessions[s]]
    BY <1>3 DEF FinishInputs, actorVars
  <2>3. f # Open
    BY DEF SeqIds, Open
  <2>4. \A st \in Stages : <<st, f>> \notin inFlight[sessions[s]]
    BY <2>1, <2>2 DEF EmissionInv
  <2> QED
    BY <2>1, <2>2, <2>3, <2>4, LastDeclared
<1>4. CASE Client
  BY <1>1, <1>2, <1>3, <1>4 DEF Client, TryPushInputs, PollOutputs, CancelSession, CloseSession,
                                actorVars
<1>5. ASSUME NEW s \in Sessions, NEW st \in Stages, PumpAdmit(s, st) PROVE LastFlagRight'
  <2>1. sessions[s] \in Runtimes /\ UNCHANGED final
    BY <1>5, RunningRuntimes DEF PumpAdmit, TypeOK
  <2>2. PICK q \in Runnable(sessions[s], st) :
          queue' = [queue EXCEPT ![st] = Append(@, Invoke(sessions[s], q))]
    BY <1>5 DEF PumpAdmit
  <2>3. q \in SeqIds
    BY <2>2 DEF Runnable, Candidates
  <2> DEFINE m == Invoke(sessions[s], q)
  <2>4. m \in Messages /\ m.runtime = sessions[s] /\ m.seq = q /\ m.last = (final[sessions[s]] = q)
    BY <2>1, <2>3 DEF Invoke, Messages
  <2> QED
    BY <2>1, <2>2, <2>4, LastAppended
<1>6. CASE PumpTurn
  BY <1>1, <1>5, <1>6 DEF PumpTurn, PumpSkip, PumpFailActor, PumpSubmitError, flowVars, actorVars
<1>7. ASSUME NEW st \in Stages, Complete(st) PROVE LastFlagRight'
  <2>1. queue[st] # << >> /\ queue' = [queue EXCEPT ![st] = Tail(@)]
    BY <1>7 DEF Complete, CompleteAnomalous, CompleteFailed, CompleteDropped, CompletePublished,
                Resolve
  <2>2. UNCHANGED final
    BY <1>7 DEF Complete, CompleteAnomalous, CompleteFailed, CompleteDropped, CompletePublished,
                flowVars
  <2> QED
    BY <2>1, <2>2, MailboxKept, LastFrame
<1>8. ASSUME NEW st \in Stages, NEW ok \in BOOLEAN, CloserDone(st, ok) PROVE LastFlagRight'
  <2>1. /\ queue[st] # << >> /\ queue' = [queue EXCEPT ![st] = Tail(@)]
        /\ UNCHANGED final
    BY <1>8 DEF CloserDone, flowVars
  <2> QED
    BY <2>1, MailboxKept, LastFrame
<1>9. ASSUME NEW st \in Stages, Actor(st) \/ WorkerFail(st) \/ AbandonActor(st) PROVE LastFlagRight'
  BY <1>1, <1>7, <1>8, <1>9 DEF Actor, Start, WorkerFail, AbandonActor, flowVars, actorVars
<1>10. ASSUME NEW r \in Runtimes, NEW st \in Stages, SendClose(r, st) PROVE LastFlagRight'
  <2>1. queue' = [queue EXCEPT ![st] = Append(@, CloseMsg(r))] /\ UNCHANGED final
    BY <1>10 DEF SendClose, flowVars
  <2>2. CloseMsg(r) \in Messages /\ CloseMsg(r).kind # "run"
    BY BoundsAssumption DEF CloseMsg, Messages, SeqIds
  <2> QED
    BY <2>1, <2>2, LastAppended
<1>11. ASSUME NEW r \in Runtimes, StageTimeout(r) PROVE LastFlagRight'
  <2>1. UNCHANGED final
    BY <1>11 DEF StageTimeout, flowVars
  <2>2. \A t \in Stages : /\ DOMAIN queue'[t] = DOMAIN queue[t]
                          /\ \A i \in DOMAIN queue[t] :
                               queue'[t][i] = IF queue[t][i] = CloseMsg(r)
                                              THEN [queue[t][i] EXCEPT !.kind = "late"]
                                              ELSE queue[t][i]
    BY <1>11 DEF StageTimeout
  <2>3. [CloseMsg(r) EXCEPT !.kind = "late"].kind # "run"
    BY DEF CloseMsg
  <2>4. HeldBefore
    BY <2>2, <2>3 DEF HeldBefore, Invocations
  <2> QED
    BY <2>1, <2>4, LastFrame
<1>12. ASSUME NEW r \in Runtimes, Cleanup(r) \/ Timeout(r) PROVE LastFlagRight'
  BY <1>1, <1>10, <1>11, <1>12
     DEF Cleanup, Timeout, AcquireCleanup, Drained, CloseRefused, EndPass, DeleteSession,
         TakeFailed, LockTimeout, DrainTimeout, flowVars, actorVars
<1>13. CASE ShutdownBegin
  BY <1>1, <1>13 DEF ShutdownBegin, actorVars
<1>14. CASE Shutdown \/ UNCHANGED vars
  BY <1>1, <1>14 DEF Shutdown, ShutdownSession, ShutdownStopThread, ShutdownJoin, CloseActor,
                     JoinActor, ShutdownDone, vars, flowVars, actorVars
<1> QED
  BY <1>4, <1>6, <1>9, <1>12, <1>13, <1>14 DEF Next

\* For every graph and every number of sessions: the is_last flag an actor reads
\* is right, whenever finish_inputs was called.
THEOREM LastFlagIsRight == Spec => []LastFlagRight
<1>1. Init => LastFlagRight
  BY DEF Init, LastFlagRight, Invocations
<1>2. Init => EmissionInv
  BY InitFlow
<1>3. TypeOK /\ LifecycleInv /\ EmissionInv /\ [Next]_vars => EmissionInv'
  BY StepEmission
<1>4. TypeOK /\ LifecycleInv /\ EmissionInv /\ LastFlagRight /\ [Next]_vars => LastFlagRight'
  BY StepLast
<1> QED
  BY <1>1, <1>2, <1>3, <1>4, TypeCorrect, Lifecycle, PTL DEF Spec

--------------------------------------------------------------------------------
(* Conservation of artifacts, when every stage is strict.                  *)

\* Two edges with an artifact in common have the same source.
LEMMA OneProducer ==
    ASSUME NEW d \in Edges, NEW e \in Edges, d.artifact = e.artifact, e.source \in Stages
    PROVE  d.source = e.source
<1>1. e.artifact \in Produces[e.source]
  BY GraphAssumption
<1>2. d.source \in Stages
  BY <1>1, EdgeArtifacts, ProducerAssumption
<1>3. d.artifact \in Produces[d.source]
  BY <1>2, GraphAssumption
<1> QED
  BY <1>1, <1>2, <1>3, ProducerAssumption

\* A runtime whose edges, outputs and deliveries stay as they are.
LEMMA ConservedFrame ==
    ASSUME ConservedInv, NEW r \in Runtimes, ~Ended(r),
           Done(r)' = Done(r), admitted'[r] = admitted[r],
           \A e \in Edges : e.source \in Stages => \A q \in SeqIds :
             <<q, e.artifact, e.target>> \in slots'[r] <=> <<q, e.artifact, e.target>> \in slots[r],
           pending'[r] = pending[r], nextEmit'[r] = nextEmit[r]
    PROVE  Conserved(r)'
<1>1. Conserved(r)
  BY DEF ConservedInv
<1>2. ASSUME NEW e \in Edges, e.source \in Stages PROVE EdgeConserved(r, e)'
  BY <1>1, <1>2 DEF Conserved, EdgeConserved
<1>3. ASSUME NEW st \in Stages, NEW a \in Produces[st] \cap OutputArtifacts
      PROVE  OutputConserved(r, st, a)'
  BY <1>1 DEF Conserved, OutputConserved
<1> QED
  BY <1>2, <1>3 DEF Conserved

\* Inputs from outside reach no edge whose source is a stage.
LEMMA ConservedPushed ==
    ASSUME TypeOK, ConservedInv, NEW r \in Runtimes, NEW q \in SeqIds,
           NEW A \in SUBSET IngressArtifacts, Pushes(r, q, A)
    PROVE  ConservedInv'
<1>1. /\ UNCHANGED <<status, admitted, inFlight, pending, nextEmit>>
      /\ \A x \in Runtimes \ {r} : slots'[x] = slots[x]
      /\ slots'[r] = slots[r] \cup
           {<<q, e.artifact, e.target>> : e \in {d \in Edges : d.artifact \in A}}
  BY DEF Pushes, TypeOK, FlowTypes
<1>2. ASSUME NEW x \in Runtimes, NEW e \in Edges, e.source \in Stages, NEW p \in SeqIds
      PROVE  <<p, e.artifact, e.target>> \in slots'[x] <=> <<p, e.artifact, e.target>> \in slots[x]
  <2>1. e.artifact \notin A
    BY <1>2, IngressSources, GraphAssumption
  <2> QED
    BY <1>1, <2>1
<1>3. \A x \in Runtimes : Done(x)' = Done(x) /\ (Ended(x)' <=> Ended(x))
  BY <1>1 DEF Done, Ended
<1> QED
  BY <1>1, <1>2, <1>3, ConservedFrame DEF ConservedInv

\* A step that moves no artifact of a session that goes on conserves them.
LEMMA ConservedSettled ==
    ASSUME ConservedInv, Settles
    PROVE  ConservedInv'
<1>1. ASSUME NEW r \in Runtimes, ~Ended(r)' PROVE Conserved(r)'
  <2>1. /\ ~Ended(r) /\ slots'[r] = slots[r] /\ pending'[r] = pending[r]
        /\ inFlight'[r] = inFlight[r] /\ admitted'[r] = admitted[r] /\ nextEmit'[r] = nextEmit[r]
    BY <1>1 DEF Settles, Quiet
  <2>2. Done(r)' = Done(r)
    BY <2>1 DEF Done
  <2> QED
    BY <2>1, <2>2, ConservedFrame
<1> QED
  BY <1>1 DEF ConservedInv

\* A strict stage takes the artifacts of a sequence it was not given before.
LEMMA ConservedAdmitted ==
    ASSUME TypeOK, FrontierInv, ConservedInv, Strict = Stages,
           NEW st \in Stages, NEW r \in Runtimes, NEW q \in SeqIds, Admits(st, r, q)
    PROVE  ConservedInv'
<1>1. /\ UNCHANGED <<status, pending, nextEmit>>
      /\ \A x \in Runtimes \ {r} : /\ slots'[x] = slots[x] /\ inFlight'[x] = inFlight[x]
                                   /\ admitted'[x] = admitted[x]
      /\ slots'[r] = slots[r] \ {<<q, a, st>> : a \in Consumes[st]}
      /\ inFlight'[r] = inFlight[r] \cup {<<st, q>>}
      /\ admitted'[r] = admitted[r] \cup {<<st, q>>}
      /\ ~Ended(r)
  BY DEF Admits, TypeOK, FlowTypes, Ended
<1>2. <<st, q>> \notin admitted[r]
  <2>1. q = frontier[r][st] /\ <<st, q>> \notin inFlight[r]
    BY DEF Admits
  <2>2. frontier[r][st] \in {p \in SeqIds : <<st, p>> \in admitted[r]}
          <=> <<st, frontier[r][st]>> \in inFlight[r]
    BY <1>1 DEF FrontierInv
  <2> QED
    BY <2>1, <2>2
<1>3. Done(r)' = Done(r)
  BY <1>1, <1>2 DEF Done
<1>4. Conserved(r)
  BY <1>1 DEF ConservedInv
<1>5. ASSUME NEW e \in Edges, e.source \in Stages PROVE EdgeConserved(r, e)'
  <2>1. ASSUME NEW p \in SeqIds, e.target # st \/ p # q
        PROVE  /\ <<p, e.artifact, e.target>> \in slots'[r] <=> <<p, e.artifact, e.target>> \in slots[r]
               /\ <<e.target, p>> \in admitted'[r] <=> <<e.target, p>> \in admitted[r]
    BY <1>1, <2>1
  <2>2. ASSUME e.target = st
        PROVE  /\ <<q, e.artifact, e.target>> \in slots[r]
               /\ <<q, e.artifact, e.target>> \notin slots'[r]
               /\ <<e.target, q>> \in admitted'[r]
    <3>1. e.artifact \in Consumes[st]
      BY <2>2, GraphAssumption
    <3> QED
      BY <1>1, <2>2, <3>1 DEF Admits
  <2>3. EdgeConserved(r, e)
    BY <1>4, <1>5 DEF Conserved
  <2> QED
    BY <1>3, <2>1, <2>2, <2>3 DEF EdgeConserved
<1>6. ASSUME NEW t \in Stages, NEW a \in Produces[t] \cap OutputArtifacts
      PROVE  OutputConserved(r, t, a)'
  BY <1>1, <1>3, <1>4 DEF Conserved, OutputConserved
<1>7. Conserved(r)'
  BY <1>5, <1>6 DEF Conserved
<1>8. ASSUME NEW x \in Runtimes, x # r, ~Ended(x)' PROVE Conserved(x)'
  <2>1. ~Ended(x) /\ Done(x)' = Done(x)
    BY <1>1, <1>8 DEF Ended, Done
  <2> QED
    BY <1>1, <1>8, <2>1, ConservedFrame
<1> QED
  BY <1>7, <1>8 DEF ConservedInv

\* The sequences emitted are exactly the next ones.
LEMMA EmittedIsInterval ==
    ASSUME NEW P, NEW n \in Nat
    PROVE  Emitted(P, n) = n .. n + Cardinality(Emitted(P, n)) - 1
<1> DEFINE E == Emitted(P, n)
           c == Cardinality(E)
           I == n .. n + c - 1
<1>1. c \in Nat /\ I \subseteq E
  BY EmittedIsPrefix
<1>2. IsFiniteSet(E)
  <2>1. E \in SUBSET (n .. MaxSeq)
    BY DEF Emitted
  <2>2. n \in Int /\ MaxSeq \in Int
    BY BoundsAssumption
  <2> QED
    BY <2>1, <2>2, FS_Interval, FS_Subset
<1> HIDE DEF E
<1>3. Cardinality(I) = c
  <2>1. n \in Int /\ n + c - 1 \in Int
    BY <1>1
  <2>2. Cardinality(n .. n + c - 1) = IF n > n + c - 1 THEN 0 ELSE (n + c - 1) - n + 1
    BY <2>1, FS_Interval
  <2> HIDE DEF c
  <2> QED
    BY <1>1, <2>2
<1>4. E = I
  BY <1>1, <1>2, <1>3, FS_Subset
<1> QED
  BY <1>4 DEF E

\* A publication puts each artifact in the slots of its consumers, or among the
\* outputs: what the sequence was not at before.
LEMMA ConservedPublished ==
    ASSUME TypeOK, EmissionInv, ConservedInv,
           NEW st \in Stages, NEW r \in Runtimes, NEW q \in SeqIds, Publishes(st, r, q)
    PROVE  ConservedInv'
<1> DEFINE P == pending[r] \cup {<<q, a>> : a \in Produces[st] \cap OutputArtifacts}
           n == nextEmit[r]
           E == Emitted(P, n)
           c == Cardinality(E)
<1>1. /\ UNCHANGED <<status, admitted>>
      /\ \A x \in Runtimes \ {r} : /\ slots'[x] = slots[x] /\ inFlight'[x] = inFlight[x]
                                   /\ pending'[x] = pending[x] /\ nextEmit'[x] = nextEmit[x]
      /\ slots'[r] = slots[r] \cup
           {<<q, e.artifact, e.target>> : e \in {d \in Edges : d.source = st}}
      /\ <<st, q>> \in inFlight[r]
      /\ inFlight'[r] = inFlight[r] \ {<<st, q>>}
      /\ ~Ended(r)
  BY DEF Publishes, TypeOK, FlowTypes, Ended
<1>2. /\ pending'[r] = {p \in P : p[1] \notin E}
      /\ nextEmit'[r] = n + c
      /\ n \in Nat
  BY DEF Publishes, TypeOK, FlowTypes
<1>3. /\ Done(r)' = Done(r) \cup {<<st, q>>}
      /\ <<st, q>> \notin Done(r)
  BY <1>1 DEF Done, EmissionInv
<1>4. Conserved(r)
  BY <1>1 DEF ConservedInv
<1>5. ASSUME NEW e \in Edges, e.source \in Stages PROVE EdgeConserved(r, e)'
  <2>1. EdgeConserved(r, e)
    BY <1>4, <1>5 DEF Conserved
  <2>2. ASSUME NEW p \in SeqIds, e.source # st \/ p # q
        PROVE  <<p, e.artifact, e.target>> \in slots'[r] <=> <<p, e.artifact, e.target>> \in slots[r]
    BY <1>1, <1>5, <2>2, OneProducer
  <2>3. ASSUME e.source = st
        PROVE  <<q, e.artifact, e.target>> \in slots'[r]
    BY <1>1, <2>3
  <2> QED
    BY <1>1, <1>3, <2>1, <2>2, <2>3 DEF EdgeConserved
<1>6. ASSUME NEW t \in Stages, NEW a \in Produces[t] \cap OutputArtifacts
      PROVE  OutputConserved(r, t, a)'
  <2>1. OutputConserved(r, t, a)
    BY <1>4 DEF Conserved
  <2>2. c \in Nat /\ E = n .. n + c - 1
    BY <1>2, EmittedIsPrefix, EmittedIsInterval
  <2>3. ASSUME NEW p \in SeqIds
        PROVE  <<p, a>> \in P <=> <<p, a>> \in pending[r] \/ (p = q /\ t = st)
    <3>1. a \in Produces[st] => t = st
      BY ProducerAssumption
    <3> QED
      BY <3>1
  <2>4. \A p \in SeqIds : p \in E => <<p, a>> \in P
    BY <1>2 DEF Emitted
  <2>5. \A p \in SeqIds : /\ <<p, a>> \in pending'[r] <=> <<p, a>> \in P /\ p \notin E
                          /\ p < nextEmit'[r] <=> p < n \/ p \in E
    <3>1. \A p \in SeqIds : p \in Nat
      BY BoundsAssumption DEF SeqIds
    <3> HIDE DEF E, P, n, c
    <3>2. \A p \in SeqIds : p < n + c <=> p < n \/ p \in n .. n + c - 1
      BY <1>2, <2>2, <3>1
    <3>3. \A p \in SeqIds : <<p, a>> \in pending'[r] <=> <<p, a>> \in P /\ p \notin E
      BY <1>2
    <3> QED
      BY <1>2, <2>2, <3>2, <3>3
  <2>6. \A p \in SeqIds : p \in E => ~(p < n)
    <3>1. \A p \in SeqIds : p \in Nat
      BY BoundsAssumption DEF SeqIds
    <3> HIDE DEF E, n, c
    <3> QED
      BY <1>2, <2>2, <3>1
  <2>7. /\ \A p \in SeqIds : <<t, p>> \in Done(r)' <=> <<t, p>> \in Done(r) \/ (p = q /\ t = st)
        /\ t = st => <<t, q>> \notin Done(r)
    BY <1>3
  <2> HIDE DEF E, P, c
  <2>8. \A p \in SeqIds : /\ <<t, p>> \in Done(r) <=> <<p, a>> \in pending[r] \/ p < n
                          /\ ~(<<p, a>> \in pending[r] /\ p < n)
    BY <2>1 DEF OutputConserved
  <2> HIDE DEF n
  <2>9. ASSUME NEW p \in SeqIds
        PROVE  /\ <<t, p>> \in Done(r)' <=> <<p, a>> \in pending'[r] \/ p < nextEmit'[r]
               /\ ~(<<p, a>> \in pending'[r] /\ p < nextEmit'[r])
    BY <2>3, <2>4, <2>5, <2>6, <2>7, <2>8
  <2> QED
    BY <2>9 DEF OutputConserved
<1>7. Conserved(r)'
  BY <1>5, <1>6 DEF Conserved
<1>8. ASSUME NEW x \in Runtimes, x # r, ~Ended(x)' PROVE Conserved(x)'
  <2>1. ~Ended(x) /\ Done(x)' = Done(x)
    BY <1>1, <1>8 DEF Ended, Done
  <2> QED
    BY <1>1, <1>8, <2>1, ConservedFrame
<1> QED
  BY <1>7, <1>8 DEF ConservedInv

\* Conservation under each kind of step.
LEMMA StepConserved ==
    ASSUME TypeOK, LifecycleInv, EmissionInv, FrontierInv, ConservedInv, Strict = Stages,
           [Next]_vars
    PROVE  ConservedInv'
BY StepDetails, ConservedSettled, ConservedPushed, ConservedAdmitted, ConservedPublished

\* Nothing was delivered yet.
LEMMA InitConserved == Init => ConservedInv
<1> SUFFICES ASSUME Init, NEW r \in Runtimes PROVE Conserved(r)
  BY DEF ConservedInv
<1>1. /\ slots[r] = {} /\ admitted[r] = {} /\ pending[r] = {} /\ nextEmit[r] = 0
      /\ Done(r) = {}
  BY DEF Init, Done
<1>2. \A q \in SeqIds : ~(q < 0)
  BY BoundsAssumption DEF SeqIds
<1> QED
  BY <1>1, <1>2 DEF Conserved, EdgeConserved, OutputConserved

\* For every graph of strict stages, every limit and every number of sessions: in
\* a running session what a stage delivered is at its consumer or was consumed
\* there, once, and an output is pending or was emitted, once. An unordered stage
\* takes a sequence again that is pushed again, so the hypothesis is needed.
THEOREM NothingLostOrDuplicated ==
    ASSUME Strict = Stages
    PROVE  Spec => []ArtifactsConserved
<1>1. Init => EmissionInv /\ FrontierInv /\ ConservedInv
  BY InitFlow, InitConserved
<1>2. TypeOK /\ LifecycleInv /\ EmissionInv /\ FrontierInv /\ ConservedInv /\ [Next]_vars
        => EmissionInv' /\ FrontierInv' /\ ConservedInv'
  BY StepEmission, StepFrontier, StepConserved
<1>3. ConservedInv => ArtifactsConserved
  BY DEF ConservedInv, ArtifactsConserved, Ended
<1> QED
  BY <1>1, <1>2, <1>3, TypeCorrect, Lifecycle, PTL DEF Spec

================================================================================
