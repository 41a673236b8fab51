---------------------------- MODULE VlaSessionProofs ----------------------------
(***************************************************************************)
(* Proofs about VlaSession, for any number of requests, sequence ids and   *)
(* episodes and any length of the history: every variable keeps its type,  *)
(* the record being inferred is protected, the policy and the session      *)
(* agree on the order of requests, a stateful policy never runs on the     *)
(* history of an inference that was not delivered, a session that lost a   *)
(* request has stopped, and a chunk is delivered only where it is due.     *)
(***************************************************************************)
EXTENDS VlaSession, TLAPS

USE DEF Tickets, Seqs

--------------------------------------------------------------------------------
(* The chunk machine.                                                      *)

Running(m, g) == m.records[g].inference = "running"
Quiet(m) == \A g \in Tickets : ~Running(m, g)
OnePending(m) == \A g \in Tickets : StatusOf(m, g) = "pending" => g = m.pending

LEMMA AbsentIsRecord == Absent \in Records
BY DEF Absent, Records, Statuses, Terminal

\* Trimming drops whole records and none that is being inferred.
LEMMA TrimFacts ==
    ASSUME NEW m \in Machines
    PROVE  /\ Trim(m) \in Machines
           /\ Trim(m).generation = m.generation /\ Trim(m).latest = m.latest
           /\ Trim(m).pending = m.pending /\ Trim(m).ready = m.ready
           /\ Trim(m).episode = m.episode
           /\ \A g \in Tickets : \/ Trim(m).records[g] = m.records[g]
                                 \/ Trim(m).records[g] = Absent /\ ~Running(m, g)
<1> DEFINE Dropped(g) == /\ g \in Removable(m)
                         /\ Cardinality({k \in Removable(m) : k > g}) >= TerminalHistory
           kept == [g \in Tickets |-> IF Dropped(g) THEN Absent ELSE m.records[g]]
<1>1. Trim(m) = [m EXCEPT !.records = kept]
  BY DEF Trim
<1>2. m.records \in [Tickets -> Records]
  BY DEF Machines
<1>3. \A g \in Tickets : kept[g] = m.records[g] \/ (kept[g] = Absent /\ ~Running(m, g))
  BY DEF Removable, Running
<1>4. kept \in [Tickets -> Records]
  BY <1>2, <1>3, AbsentIsRecord
<1> HIDE DEF kept
<1> QED
  BY <1>1, <1>3, <1>4 DEF Machines

\* A settled record changes its status only.
LEMMA SettleFacts ==
    ASSUME NEW R \in [Tickets -> Records], NEW gs, NEW s \in Terminal
    PROVE  /\ Settle(R, gs, s) \in [Tickets -> Records]
           /\ \A g \in Tickets : /\ Settle(R, gs, s)[g].inference = R[g].inference
                                 /\ Settle(R, gs, s)[g].status = IF g \in gs THEN s ELSE R[g].status
BY DEF Settle, Records, Statuses

\* What the completion or the rejection of ticket j leaves.
Follows(m, j, n) ==
  /\ n \in Machines
  /\ n.generation = m.generation /\ n.latest = m.latest /\ n.episode = m.episode
  /\ \A g \in Tickets : StatusOf(n, g) = "pending" => StatusOf(m, g) = "pending"
  /\ \A g \in Tickets : Running(n, g) => Running(m, g) /\ g # j
  /\ OnePending(m) => OnePending(n)

LEMMA FinishedFacts ==
    ASSUME NEW m \in Machines, NEW j \in Tickets
    PROVE  /\ Follows(m, j, Finished(m, j))
           /\ Finished(m, j).pending = m.pending
           /\ \A g \in Tickets : StatusOf(Finished(m, j), g) = StatusOf(m, g)
<1>1. m.records \in [Tickets -> Records] /\ m.records[j] \in Records
  BY DEF Machines
<1>2. [m.records[j] EXCEPT !.inference = "done"] \in Records
  BY <1>1 DEF Records
<1>3. Finished(m, j) = [m EXCEPT !.records = [m.records EXCEPT ![j] = [m.records[j] EXCEPT !.inference = "done"]]]
  BY <1>1 DEF Finished, Machines
<1>4. Finished(m, j) \in Machines
  BY <1>1, <1>2, <1>3 DEF Machines
<1>5. \A g \in Tickets : /\ StatusOf(Finished(m, j), g) = StatusOf(m, g)
                         /\ Running(Finished(m, j), g) => Running(m, g) /\ g # j
  <2>1. Finished(m, j).records = [m.records EXCEPT ![j] = [m.records[j] EXCEPT !.inference = "done"]]
    BY <1>3 DEF Machines
  <2>2. [m.records[j] EXCEPT !.inference = "done"].status = m.records[j].status
    BY <1>1 DEF Records
  <2>3. [m.records[j] EXCEPT !.inference = "done"].inference = "done"
    BY <1>1 DEF Records
  <2>4. \A g \in Tickets : Finished(m, j).records[g] =
          IF g = j THEN [m.records[j] EXCEPT !.inference = "done"] ELSE m.records[g]
    BY <1>1, <2>1
  <2> QED
    BY ONLY <2>2, <2>3, <2>4 DEF StatusOf, Running
<1>6. /\ Finished(m, j).generation = m.generation /\ Finished(m, j).latest = m.latest
      /\ Finished(m, j).episode = m.episode /\ Finished(m, j).pending = m.pending
  BY <1>3 DEF Machines
<1> QED
  BY <1>4, <1>5, <1>6 DEF Follows, OnePending

LEMMA TrimFollows ==
    ASSUME NEW m \in Machines
    PROVE  /\ \A g \in Tickets : StatusOf(Trim(m), g) = "pending" => StatusOf(m, g) = "pending"
           /\ \A g \in Tickets : Running(Trim(m), g) <=> Running(m, g)
           /\ OnePending(m) => OnePending(Trim(m))
BY TrimFacts DEF StatusOf, Running, OnePending, Absent

\* Emptying the pending slot settles its ticket, so nothing is pending.
LEMMA EndPendingFacts ==
    ASSUME NEW m \in Machines, NEW j \in Tickets, NEW s \in Terminal
    PROVE  /\ EndPending(m, j, s) \in Machines
           /\ EndPending(m, j, s).generation = m.generation
           /\ EndPending(m, j, s).latest = m.latest /\ EndPending(m, j, s).episode = m.episode
           /\ \A g \in Tickets : StatusOf(EndPending(m, j, s), g) = "pending"
                                   => StatusOf(m, g) = "pending" /\ g # j
           /\ \A g \in Tickets : Running(EndPending(m, j, s), g) <=> Running(m, g)
<1> DEFINE R == Settle(m.records, {j}, s)
           n == [m EXCEPT !.pending = 0, !.records = R]
<1>1. m.records \in [Tickets -> Records]
  BY DEF Machines
<1>2. R \in [Tickets -> Records] /\ \A g \in Tickets : /\ R[g].inference = m.records[g].inference
                                                       /\ R[g].status = IF g = j THEN s ELSE m.records[g].status
  BY <1>1, SettleFacts
<1>3. 0 \in 0 .. MaxTickets
  BY ChunkAssumption
<1> HIDE DEF R
<1>4. n \in Machines /\ n.generation = m.generation /\ n.latest = m.latest /\ n.episode = m.episode
      /\ n.records = R
  BY <1>2, <1>3 DEF Machines
<1>5. EndPending(m, j, s) = Trim(n)
  BY DEF EndPending, R
<1>6. \A g \in Tickets : /\ StatusOf(n, g) = "pending" => StatusOf(m, g) = "pending" /\ g # j
                         /\ Running(n, g) <=> Running(m, g)
  BY <1>2, <1>4 DEF StatusOf, Running, Terminal
<1> HIDE DEF n
<1> QED
  BY <1>4, <1>5, <1>6, TrimFacts, TrimFollows
\* What the three ends of an inference leave, whoever holds the pending slot.
LEMMA CompleteFollows ==
    ASSUME NEW m \in Machines, NEW j \in Tickets, NEW e \in Episodes, NEW x \in BOOLEAN
    PROVE  Follows(m, j, Complete(m, j, e, x))
<1> DEFINE done == Finished(m, j)
<1>1. /\ Follows(m, j, done) /\ done.pending = m.pending
      /\ \A g \in Tickets : StatusOf(done, g) = StatusOf(m, g)
  BY FinishedFacts
<1>2. done \in Machines
  BY <1>1 DEF Follows
<1> HIDE DEF done
<1>3. CASE Discarded(m, j)
  <2>1. Complete(m, j, e, x) = Trim(done)
    BY <1>3 DEF Complete, done
  <2> QED
    BY <1>1, <1>2, <2>1, TrimFacts, TrimFollows DEF Follows
<1>4. ASSUME NEW s \in Terminal, Complete(m, j, e, x) = EndPending(done, j, s), ~Discarded(m, j)
      PROVE  Follows(m, j, Complete(m, j, e, x))
  <2>1. m.pending = j
    BY <1>4 DEF Discarded
  <2>2. OnePending(m) => \A g \in Tickets : StatusOf(EndPending(done, j, s), g) # "pending"
    BY <1>1, <1>2, <2>1, EndPendingFacts DEF OnePending
  <2> QED
    BY <1>1, <1>2, <1>4, <2>2, EndPendingFacts DEF Follows, OnePending
<1>5. CASE ~Discarded(m, j) /\ (e # m.episode \/ x)
  <2>1. \E s \in Terminal : Complete(m, j, e, x) = EndPending(done, j, s)
    BY <1>5 DEF Complete, done, Terminal
  <2> QED
    BY <1>4, <1>5, <2>1
<1>6. CASE ~Discarded(m, j) /\ e = m.episode /\ ~x
  <2> DEFINE R == [done.records EXCEPT ![j] = [done.records[j] EXCEPT !.status = "ready"]]
             n == [done EXCEPT !.pending = 0, !.ready = j, !.records = R]
  <2>1. Complete(m, j, e, x) = n
    BY <1>2, <1>6 DEF Complete, done, Machines
  <2>2. done.records \in [Tickets -> Records] /\ done.records[j] \in Records
    BY <1>2 DEF Machines
  <2>3. /\ [done.records[j] EXCEPT !.status = "ready"] \in Records
        /\ [done.records[j] EXCEPT !.status = "ready"].status = "ready"
        /\ [done.records[j] EXCEPT !.status = "ready"].inference = done.records[j].inference
    BY <2>2 DEF Records, Statuses
  <2>4. /\ R \in [Tickets -> Records]
        /\ \A g \in Tickets : /\ R[g].inference = done.records[g].inference
                              /\ R[g].status = IF g = j THEN "ready" ELSE done.records[g].status
    BY <2>2, <2>3
  <2> HIDE DEF R
  <2>5. 0 \in 0 .. MaxTickets /\ j \in 0 .. MaxTickets
    BY ChunkAssumption
  <2>6. /\ n \in Machines /\ n.generation = done.generation /\ n.latest = done.latest
        /\ n.episode = done.episode /\ n.records = R
    BY <1>2, <2>4, <2>5 DEF Machines
  <2>7. m.pending = j
    BY <1>6 DEF Discarded
  <2> HIDE DEF n
  <2>8. \A g \in Tickets : /\ StatusOf(n, g) = "pending" => StatusOf(done, g) = "pending" /\ g # j
                           /\ Running(n, g) <=> Running(done, g)
    BY <2>4, <2>6 DEF StatusOf, Running
  <2>9. OnePending(m) => \A g \in Tickets : StatusOf(n, g) # "pending"
    BY <1>1, <2>7, <2>8 DEF OnePending
  <2> QED
    BY <1>1, <2>1, <2>6, <2>8, <2>9 DEF Follows, OnePending
<1> QED
  BY <1>3, <1>5, <1>6

LEMMA RejectFollows ==
    ASSUME NEW m \in Machines, NEW j \in Tickets
    PROVE  Follows(m, j, Reject(m, j))
<1> DEFINE done == Finished(m, j)
<1>1. /\ Follows(m, j, done) /\ done.pending = m.pending
      /\ \A g \in Tickets : StatusOf(done, g) = StatusOf(m, g)
  BY FinishedFacts
<1>2. done \in Machines
  BY <1>1 DEF Follows
<1> HIDE DEF done
<1>3. CASE Discarded(m, j)
  BY <1>1, <1>3 DEF Reject, done
<1>4. CASE ~Discarded(m, j)
  <2>1. m.pending = j /\ Reject(m, j) = EndPending(done, j, "rejected") /\ "rejected" \in Terminal
    BY <1>4 DEF Discarded, Reject, done, Terminal
  <2>2. OnePending(m) => \A g \in Tickets : StatusOf(EndPending(done, j, "rejected"), g) # "pending"
    BY <1>1, <1>2, <2>1, EndPendingFacts DEF OnePending
  <2> QED
    BY <1>1, <1>2, <2>1, <2>2, EndPendingFacts DEF Follows, OnePending
<1> QED
  BY <1>3, <1>4

\* A reset leaves nothing pending and does not touch what is being inferred.
LEMMA ResetFacts ==
    ASSUME NEW m \in Machines, NEW e \in Episodes
    PROVE  /\ Reset(m, e) \in Machines
           /\ Reset(m, e).generation = m.generation /\ Reset(m, e).latest = 0
           /\ \A g \in Tickets : Running(Reset(m, e), g) <=> Running(m, g)
           /\ OnePending(m) => \A g \in Tickets : StatusOf(Reset(m, e), g) # "pending"
<1> DEFINE R == Settle(m.records, {m.pending, m.ready}, "rejected")
           n == [m EXCEPT !.records = R, !.pending = 0, !.ready = 0, !.latest = 0, !.episode = e]
<1>1. m.records \in [Tickets -> Records] /\ "rejected" \in Terminal
  BY DEF Machines, Terminal
<1>2. R \in [Tickets -> Records] /\ \A g \in Tickets :
         /\ R[g].inference = m.records[g].inference
         /\ R[g].status = IF g \in {m.pending, m.ready} THEN "rejected" ELSE m.records[g].status
  BY <1>1, SettleFacts
<1>3. 0 \in 0 .. MaxTickets /\ 0 \in 0 .. MaxSeq
  BY ChunkAssumption
<1> HIDE DEF R
<1>4. n \in Machines /\ n.generation = m.generation /\ n.latest = 0 /\ n.records = R
  BY <1>2, <1>3 DEF Machines
<1>5. Reset(m, e) = Trim(n)
  BY DEF Reset, R
<1>6. /\ \A g \in Tickets : Running(n, g) <=> Running(m, g)
      /\ OnePending(m) => \A g \in Tickets : StatusOf(n, g) # "pending"
  BY <1>2, <1>4 DEF StatusOf, Running, OnePending
<1> HIDE DEF n
<1> QED
  BY <1>4, <1>5, <1>6, TrimFacts, TrimFollows

\* A submission issues the next ticket; only a request in order is admitted.
LEMMA SubmittedFacts ==
    ASSUME NEW m \in Machines, m.generation < MaxTickets, NEW q \in Seqs, NEW a \in Ages
    PROVE  /\ Submitted(m, q, a) \in Machines
           /\ Submitted(m, q, a).generation = m.generation + 1
           /\ OnePending(m) => OnePending(Submitted(m, q, a))
           /\ \A g \in Tickets : Running(Submitted(m, q, a), g) <=> Running(m, g) /\ g # Issued(m)
           /\ Refusal(m, q, a) # "none" =>
                /\ Submitted(m, q, a).latest = m.latest
                /\ \A g \in Tickets : StatusOf(Submitted(m, q, a), g) = "pending" => StatusOf(m, g) = "pending"
           /\ Refusal(m, q, a) = "none" =>
                Submitted(m, q, a).latest = q /\ m.latest < q
<1> DEFINE g0 == Issued(m)
           refusal == Refusal(m, q, a)
           new == [status |-> IF refusal = "none" THEN "pending" ELSE refusal, inference |-> "no"]
           filed == [m.records EXCEPT ![g0] = new]
           superseded == Settle(filed, {m.pending, m.ready}, "superseded")
           refused == [m EXCEPT !.generation = g0, !.records = filed]
           admitted == [m EXCEPT !.generation = g0, !.latest = q, !.pending = g0, !.ready = 0,
                                 !.records = superseded]
<1>1. /\ m.records \in [Tickets -> Records] /\ m.generation \in 0 .. MaxTickets
      /\ m.latest \in 0 .. MaxSeq /\ "superseded" \in Terminal
  BY DEF Machines, Terminal
<1>2. g0 = m.generation + 1 /\ g0 \in Tickets /\ g0 \in 0 .. MaxTickets /\ 0 \in 0 .. MaxTickets
      /\ q \in 0 .. MaxSeq
  BY <1>1, ChunkAssumption DEF Issued
<1>3. refusal \in {"none", "rejected", "expired"} /\ (refusal = "none" => m.latest < q)
  BY <1>1, ChunkAssumption DEF Refusal
<1> HIDE DEF g0, refusal
<1>4. /\ new \in Records /\ new.inference = "no"
      /\ new.status = IF refusal = "none" THEN "pending" ELSE refusal
  BY <1>3 DEF Records, Statuses, Terminal
<1> HIDE DEF new
<1>5. filed \in [Tickets -> Records] /\ \A g \in Tickets : filed[g] = IF g = g0 THEN new ELSE m.records[g]
  BY <1>1, <1>2, <1>4
<1> HIDE DEF filed
<1>6. superseded \in [Tickets -> Records] /\ \A g \in Tickets :
        /\ superseded[g].inference = filed[g].inference
        /\ superseded[g].status = IF g \in {m.pending, m.ready} THEN "superseded" ELSE filed[g].status
  <2>1. filed \in [Tickets -> Records] /\ "superseded" \in Terminal
    BY <1>1, <1>5
  <2> HIDE DEF refused, admitted
  <2> QED
    BY ONLY <2>1 DEF Settle, Records, Statuses, Terminal
<1> HIDE DEF superseded
<1>7. CASE refusal # "none"
  <2>1. /\ refused \in Machines /\ refused.generation = g0 /\ refused.latest = m.latest
        /\ refused.pending = m.pending /\ refused.records = filed
    BY <1>2, <1>5 DEF Machines
  <2>2. Submitted(m, q, a) = Trim(refused)
    BY <1>7 DEF Submitted, refusal, g0, filed, new
  <2> HIDE DEF refused
  <2>3. \A g \in Tickets : /\ StatusOf(refused, g) = "pending" => StatusOf(m, g) = "pending"
                           /\ Running(refused, g) <=> Running(m, g) /\ g # g0
    BY <1>3, <1>4, <1>5, <1>7, <2>1 DEF StatusOf, Running
  <2>4. OnePending(m) => OnePending(refused)
    BY <2>1, <2>3 DEF OnePending
  <2> QED
    BY <1>2, <1>7, <2>1, <2>2, <2>3, <2>4, TrimFacts, TrimFollows DEF refusal, g0
<1>8. CASE refusal = "none"
  <2>1. /\ admitted \in Machines /\ admitted.generation = g0 /\ admitted.latest = q
        /\ admitted.pending = g0 /\ admitted.records = superseded
    BY <1>2, <1>6 DEF Machines
  <2>2. Submitted(m, q, a) = Trim(admitted)
    BY <1>8 DEF Submitted, refusal, g0, filed, new, superseded
  <2> HIDE DEF admitted
  <2>3. \A g \in Tickets : Running(admitted, g) <=> Running(m, g) /\ g # g0
    BY <1>4, <1>5, <1>6, <2>1 DEF Running
  <2>4. OnePending(m) => OnePending(admitted)
    BY <1>5, <1>6, <2>1 DEF OnePending, StatusOf
  <2> QED
    BY <1>2, <1>3, <1>8, <2>1, <2>2, <2>3, <2>4, TrimFacts, TrimFollows DEF refusal, g0
<1> QED
  BY <1>7, <1>8
\* Marking a ticket changes nothing else.
LEMMA MarkStartedFacts ==
    ASSUME NEW m \in Machines, NEW j \in Tickets
    PROVE  /\ MarkStarted(m, j) \in Machines
           /\ MarkStarted(m, j).generation = m.generation /\ MarkStarted(m, j).latest = m.latest
           /\ MarkStarted(m, j).pending = m.pending
           /\ \A g \in Tickets : /\ StatusOf(MarkStarted(m, j), g) = StatusOf(m, g)
                                 /\ Running(MarkStarted(m, j), g) <=> Running(m, g) \/ g = j
<1> DEFINE marked == [m.records[j] EXCEPT !.inference = "running"]
<1>1. m.records \in [Tickets -> Records] /\ m.records[j] \in Records
  BY DEF Machines
<1>2. /\ marked \in Records /\ marked.status = m.records[j].status
      /\ marked.inference = "running"
  BY <1>1 DEF Records
<1>3. MarkStarted(m, j) = [m EXCEPT !.records = [m.records EXCEPT ![j] = marked]]
  BY <1>1 DEF MarkStarted, Machines
<1> HIDE DEF marked
<1>4. \A g \in Tickets : [m.records EXCEPT ![j] = marked][g] = IF g = j THEN marked ELSE m.records[g]
  BY <1>1
<1>5. /\ MarkStarted(m, j) \in Machines
      /\ MarkStarted(m, j).records = [m.records EXCEPT ![j] = marked]
      /\ MarkStarted(m, j).generation = m.generation /\ MarkStarted(m, j).latest = m.latest
      /\ MarkStarted(m, j).pending = m.pending
  BY <1>1, <1>2, <1>3 DEF Machines
<1> QED
  BY <1>2, <1>4, <1>5 DEF StatusOf, Running

--------------------------------------------------------------------------------
(* The session's invariant.                                                *)

Policies == [episode : Episodes, last : 0 .. MaxSeq, history : SUBSET Tickets]
Busy == runner \in {"predict", "late", "discard", "recover"}
Inferring == runner \in {"predict", "late"}

\* The requests in hand were issued and are two.
KnownJobs ==
  /\ waiting # NoJob => waiting.ticket \in 1 .. sm.generation
  /\ Busy => job.ticket \in 1 .. sm.generation
  /\ Busy /\ waiting # NoJob => job.ticket # waiting.ticket

WaitingIsPending == waiting # NoJob /\ StatusOf(sm, waiting.ticket) = "pending"

\* While the session accepts, neither the policy nor the request it runs is
\* ahead of the latest admitted one; a request that will run is ahead of both.
OrderInv ==
  /\ OnePending(sm)
  /\ accepting => policy.last <= sm.latest /\ (Inferring => job.seq <= sm.latest)
  /\ WaitingIsPending => /\ policy.last < waiting.seq
                         /\ Inferring => job.seq < waiting.seq
                         /\ accepting => waiting.seq <= sm.latest

Clean(history, answers) == \A g \in history : answers[g] \in {"chunk", "error"}

\* A barrier is up until the next reset; whenever an inference may start, the
\* history is clean.
CleanInv ==
  /\ accepting => ~barrier
  /\ barrier => waiting = NoJob
  /\ runner = "predict" => answer[job.ticket] = "none"
  /\ waiting # NoJob => answer[waiting.ticket] = "none"
  /\ \A g \in Tickets : g > sm.generation => answer[g] = "none"
  /\ Stateful /\ (runner \in {"predict", "started"} \/ (runner = "none" /\ accepting)) =>
       Clean(policy.history, answer)

SessionInv == KnownJobs /\ InferenceIsProtected /\ OrderInv /\ OrdersAgree /\ CleanInv

\* The ways a step of the runner leaves the loop's variables, from the state
\* (machine, answers) the work before it left.
Ends(machine, answers) ==
  /\ runner' = "none" /\ job' = NoJob /\ waiting' = NoJob /\ sm' = machine
  /\ accepting' \in BOOLEAN /\ (accepting' => accepting)
  /\ \/ answer' = answers
     \/ \E o \in Answers \ {"none"} : answer' = Resolve(answers, waiting.ticket, o)

Takes(machine, answers) ==
  /\ waiting # NoJob /\ StatusOf(machine, waiting.ticket) = "pending"
  /\ runner' = "predict" /\ job' = waiting /\ waiting' = NoJob
  /\ sm' = MarkStarted(machine, waiting.ticket) /\ answer' = answers
  /\ accepting' = accepting

Pauses(machine, answers) ==
  /\ Busy /\ runner' \in {"discard", "recover"}
  /\ sm' = machine /\ answer' = answers
  /\ UNCHANGED <<waiting, job, accepting>>

LEMMA CrashEnds ==
    ASSUME NEW machine, NEW answers, accepting \in BOOLEAN, Crash(machine, answers)
    PROVE  Ends(machine, answers)
BY DEF Crash, Ends, Answers

LEMMA IterateShape ==
    ASSUME NEW machine, NEW answers, accepting \in BOOLEAN, Iterate(machine, answers)
    PROVE  Ends(machine, answers) \/ Takes(machine, answers)
<1>1. CASE TakeWaiting(machine, answers)
  BY <1>1 DEF TakeWaiting, Ends, Takes, Answers
<1>2. CASE waiting = NoJob /\ RunnerEnds(machine, answers)
  BY <1>2 DEF RunnerEnds, Ends
<1> QED
  BY <1>1, <1>2 DEF Iterate

\* Resolving a future changes no answer that was given.
LEMMA ResolveFacts ==
    ASSUME NEW answers \in [Tickets -> Answers], NEW g \in 0 .. MaxTickets, NEW o \in Answers
    PROVE  /\ Resolve(answers, g, o) \in [Tickets -> Answers]
           /\ \A k \in Tickets : Resolve(answers, g, o)[k] =
                IF k = g /\ answers[k] = "none" THEN o ELSE answers[k]
BY ChunkAssumption DEF Resolve
\* What the work of a runner's step must leave for the loop to go on.
WorkDone(machine, answers) ==
  /\ machine \in Machines /\ answers \in [Tickets -> Answers] /\ policy' \in Policies
  /\ machine.generation = sm.generation /\ OnePending(machine) /\ Quiet(machine)
  /\ accepting => policy'.last <= machine.latest
  /\ waiting # NoJob /\ StatusOf(machine, waiting.ticket) = "pending" =>
       policy'.last < waiting.seq /\ (accepting => waiting.seq <= machine.latest)
  /\ \A g \in Tickets : answers[g] = answer[g] \/ (Busy /\ g = job.ticket)
  /\ runner' = "predict" \/ (runner' = "none" /\ accepting') =>
       (Stateful => Clean(policy'.history, answers))
  /\ Ends(machine, answers) \/ Takes(machine, answers) \/ Pauses(machine, answers)
  /\ recovering' \in BOOLEAN
  /\ UNCHANGED <<barrier, control, connection, invalidated>>

LEMMA WorkTypes ==
    ASSUME TypeOK, KnownJobs, NEW machine, NEW answers, WorkDone(machine, answers)
    PROVE  TypeOK' /\ sm'.generation = sm.generation
<1>1. NoJob \in Jobs
  BY ChunkAssumption DEF NoJob, Jobs
<1>2. waiting.ticket \in 0 .. MaxTickets /\ sm.generation \in 0 .. MaxTickets
  BY DEF TypeOK, Jobs, Machines
<1>3. waiting # NoJob => waiting.ticket \in Tickets
  BY <1>2, ChunkAssumption DEF KnownJobs
<1>4. sm' \in Machines /\ sm'.generation = sm.generation
  BY <1>3, MarkStartedFacts DEF WorkDone, Ends, Takes, Pauses
<1>5. answer' \in [Tickets -> Answers]
  BY <1>2, ResolveFacts DEF WorkDone, Ends, Takes, Pauses
<1>6. waiting' \in Jobs /\ job' \in Jobs /\ runner' \in RunnerStates /\ accepting' \in BOOLEAN
  BY <1>1 DEF WorkDone, Ends, Takes, Pauses, TypeOK, RunnerStates
<1> QED
  BY <1>4, <1>5, <1>6 DEF WorkDone, TypeOK, Policies

LEMMA WorkKeepsInv ==
    ASSUME TypeOK, SessionInv, NEW machine, NEW answers, WorkDone(machine, answers)
    PROVE  SessionInv'
<1>1. TypeOK' /\ sm'.generation = sm.generation /\ sm.generation \in 0 .. MaxTickets
  BY WorkTypes DEF SessionInv, TypeOK, Machines
<1>2. waiting \in Jobs /\ job \in Jobs /\ (waiting # NoJob => waiting.ticket \in Tickets)
  BY <1>1, ChunkAssumption DEF TypeOK, SessionInv, KnownJobs
<1>3. KnownJobs'
  BY <1>1 DEF KnownJobs, SessionInv, WorkDone, Ends, Takes, Pauses, Busy
<1>4. InferenceIsProtected'
  <2>1. CASE Ends(machine, answers) \/ Pauses(machine, answers)
    BY <2>1 DEF InferenceIsProtected, WorkDone, Ends, Pauses, Quiet, Running
  <2>2. CASE Takes(machine, answers)
    BY <1>2, <2>2, MarkStartedFacts DEF InferenceIsProtected, WorkDone, Takes, Quiet, Running
  <2> QED
    BY <2>1, <2>2 DEF WorkDone
<1>5. OrderInv' /\ OrdersAgree'
  <2>1. CASE Ends(machine, answers)
    BY <1>2, <2>1 DEF OrderInv, OrdersAgree, WorkDone, Ends, WaitingIsPending, Inferring
  <2>2. CASE Pauses(machine, answers)
    BY <1>2, <2>2 DEF OrderInv, OrdersAgree, WorkDone, Pauses, WaitingIsPending, Inferring
  <2>3. CASE Takes(machine, answers)
    <3>1. /\ sm'.latest = machine.latest /\ sm'.pending = machine.pending
          /\ \A g \in Tickets : StatusOf(sm', g) = StatusOf(machine, g)
      BY <1>2, <2>3, MarkStartedFacts DEF WorkDone, Takes
    <3>2. OnePending(sm')
      BY <3>1 DEF WorkDone, OnePending
    <3>3. waiting' = NoJob /\ job' = waiting /\ runner' = "predict" /\ accepting' = accepting
      BY <2>3 DEF Takes
    <3>4. policy'.last < waiting.seq /\ (accepting => waiting.seq <= machine.latest)
          /\ (accepting => policy'.last <= machine.latest)
      BY <2>3 DEF Takes, WorkDone
    <3> QED
      BY <3>1, <3>2, <3>3, <3>4 DEF OrderInv, OrdersAgree, InOrder, WaitingIsPending
  <2> QED
    BY <2>1, <2>2, <2>3 DEF WorkDone
<1>6. CleanInv'
  <2>1. barrier' = barrier /\ (waiting' = waiting \/ waiting' = NoJob) /\ (accepting' => accepting)
    BY DEF WorkDone, Ends, Takes, Pauses
  <2>2. \A g \in Tickets : \/ answer'[g] = answers[g]
                           \/ answers[g] = "none" /\ waiting # NoJob /\ g = waiting.ticket /\ waiting' = NoJob
    <3>1. CASE answer' = answers
      BY <3>1
    <3>2. ASSUME NEW o \in Answers, answer' = Resolve(answers, waiting.ticket, o), waiting' = NoJob
          PROVE  \A g \in Tickets : \/ answer'[g] = answers[g]
                                    \/ answers[g] = "none" /\ waiting # NoJob /\ g = waiting.ticket
      <4>1. waiting.ticket \in 0 .. MaxTickets /\ (waiting = NoJob => waiting.ticket = 0)
        BY <1>2 DEF Jobs, NoJob
      <4>2. answers \in [Tickets -> Answers]
        BY DEF WorkDone
      <4>3. \A g \in Tickets : answer'[g] = IF g = waiting.ticket /\ answers[g] = "none" THEN o ELSE answers[g]
        BY <3>2, <4>1, <4>2, ResolveFacts
      <4>4. \A g \in Tickets : g = waiting.ticket => waiting # NoJob
        BY <4>1
      <4> QED
        BY <4>3, <4>4
    <3>3. answer' = answers \/ (waiting' = NoJob /\ \E o \in Answers : answer' = Resolve(answers, waiting.ticket, o))
      BY DEF WorkDone, Ends, Takes, Pauses
    <3> QED
      BY <3>1, <3>2, <3>3
  <2>3. \A g \in Tickets : g > sm.generation => answers[g] = "none"
    BY <1>1 DEF WorkDone, SessionInv, KnownJobs, CleanInv
  <2>4. \A g \in Tickets : g > sm.generation => answer'[g] = "none"
    BY <1>1, <2>2, <2>3 DEF SessionInv, KnownJobs
  <2>5. waiting # NoJob => answers[waiting.ticket] = "none"
    BY <1>2 DEF WorkDone, SessionInv, KnownJobs, CleanInv
  <2>6. runner' = "predict" => answer'[job'.ticket] = "none"
    BY <2>5 DEF WorkDone, Ends, Takes, Pauses
  <2>7. waiting' # NoJob => answer'[waiting'.ticket] = "none"
    BY <2>5 DEF WorkDone, Ends, Takes, Pauses
  <2>8. Stateful /\ (runner' \in {"predict", "started"} \/ (runner' = "none" /\ accepting')) =>
          Clean(policy'.history, answer')
    <3>1. runner' # "started"
      BY DEF WorkDone, Ends, Takes, Pauses
    <3>2. policy'.history \subseteq Tickets
      BY DEF WorkDone, Policies
    <3> QED
      BY <2>2, <3>1, <3>2 DEF WorkDone, Clean
  <2> QED
    BY <1>1, <2>1, <2>4, <2>6, <2>7, <2>8 DEF CleanInv, SessionInv
<1> QED
  BY <1>3, <1>4, <1>5, <1>6 DEF SessionInv
--------------------------------------------------------------------------------
(* The steps of the runner.                                                *)

\* What every one of them starts from.
LEMMA BusyFacts ==
    ASSUME TypeOK, SessionInv
    PROVE  /\ sm \in Machines /\ policy \in Policies /\ answer \in [Tickets -> Answers]
           /\ policy.episode \in Episodes /\ policy.last \in 0 .. MaxSeq
           /\ policy.history \subseteq Tickets
           /\ job.seq \in 0 .. MaxSeq /\ waiting.seq \in 0 .. MaxSeq
           /\ Busy => job.ticket \in Tickets
           /\ ~Inferring => Quiet(sm)
           /\ accepting \in BOOLEAN /\ barrier \in BOOLEAN /\ recovering \in BOOLEAN
<1>1. sm.generation \in 0 .. MaxTickets
  BY DEF TypeOK, Machines
<1> QED
  BY <1>1, ChunkAssumption
  DEF TypeOK, SessionInv, KnownJobs, Jobs, Policies, InferenceIsProtected, Inferring, Quiet, Running

LEMMA StartsWork ==
    ASSUME TypeOK, SessionInv, RunnerStarts
    PROVE  WorkDone(sm, answer)
<1>1. Ends(sm, answer) \/ Takes(sm, answer)
  BY IterateShape, BusyFacts DEF RunnerStarts
<1>2. Stateful => Clean(policy.history, answer)
  BY DEF RunnerStarts, SessionInv, CleanInv
<1>3. /\ accepting => policy.last <= sm.latest
      /\ waiting # NoJob /\ StatusOf(sm, waiting.ticket) = "pending" =>
           policy.last < waiting.seq /\ (accepting => waiting.seq <= sm.latest)
      /\ OnePending(sm)
  BY DEF SessionInv, OrderInv, WaitingIsPending
<1>4. Quiet(sm)
  BY BusyFacts DEF RunnerStarts, Inferring
<1>5. UNCHANGED <<recovering, barrier, control, policy, connection, invalidated>>
  BY DEF RunnerStarts
<1> QED
  BY <1>1, <1>2, <1>3, <1>4, <1>5, BusyFacts DEF WorkDone

\* The machine after an inference: quiet, with no new pending ticket.
LEMMA AfterInference ==
    ASSUME TypeOK, SessionInv, Inferring, NEW machine, Follows(sm, job.ticket, machine)
    PROVE  /\ machine \in Machines /\ machine.generation = sm.generation
           /\ machine.latest = sm.latest /\ OnePending(machine) /\ Quiet(machine)
           /\ waiting # NoJob /\ StatusOf(machine, waiting.ticket) = "pending" =>
                /\ policy.last < waiting.seq /\ job.seq < waiting.seq
                /\ accepting => waiting.seq <= machine.latest
           /\ accepting => policy.last <= machine.latest /\ job.seq <= machine.latest
<1>1. \A g \in Tickets : Running(sm, g) => g = job.ticket
  BY DEF SessionInv, InferenceIsProtected, Running
<1>2. waiting # NoJob => waiting.ticket \in Tickets
  BY ChunkAssumption DEF SessionInv, KnownJobs, TypeOK, Machines
<1>3. Quiet(machine)
  BY <1>1 DEF Follows, Quiet
<1> QED
  BY <1>2, <1>3 DEF Follows, SessionInv, OrderInv, WaitingIsPending

LEMMA ReturnsWork ==
    ASSUME TypeOK, SessionInv, NEW x \in BOOLEAN, PredictReturns(x)
    PROVE  \E machine, answers : WorkDone(machine, answers)
<1> DEFINE machine == Complete(sm, job.ticket, policy.episode, x)
           status == StatusOf(machine, job.ticket)
           Outcome == IF status \in {"ready", "expired"}
                        THEN [ready |-> "chunk", expired |-> "expired"][status]
                        ELSE "superseded"
           answers == Resolve(answer, job.ticket, Outcome)
<1>1. Inferring /\ Busy /\ runner = "predict" /\ InOrder
  BY DEF PredictReturns, Inferring, Busy
<1>2. Follows(sm, job.ticket, machine)
  BY <1>1, BusyFacts, CompleteFollows
<1>3. /\ Outcome \in Answers \ {"none"} /\ (status = "ready" => Outcome = "chunk")
  BY DEF Answers
<1>4. /\ answers \in [Tickets -> Answers]
      /\ \A g \in Tickets : answers[g] = answer[g] \/ (Busy /\ g = job.ticket)
      /\ answers[job.ticket] = Outcome
  <2>1. job.ticket \in 0 .. MaxTickets /\ job.ticket \in Tickets
    BY <1>1, BusyFacts DEF TypeOK, Jobs
  <2>2. answer[job.ticket] = "none"
    BY <1>1 DEF SessionInv, CleanInv
  <2> HIDE DEF Outcome
  <2>3. answer \in [Tickets -> Answers] /\ Outcome \in Answers
    BY <1>3, BusyFacts
  <2>4. /\ answers \in [Tickets -> Answers]
        /\ \A k \in Tickets : answers[k] = IF k = job.ticket /\ answer[k] = "none" THEN Outcome ELSE answer[k]
    BY <2>1, <2>3, ResolveFacts
  <2> QED
    BY <1>1, <2>1, <2>2, <2>4
<1>5. policy' = Inferred /\ UNCHANGED <<recovering, barrier, control, connection, invalidated>>
  BY DEF PredictReturns
<1>6. policy' \in Policies /\ policy'.last = job.seq /\ policy'.history = policy.history \cup {job.ticket}
  BY <1>1, <1>5, BusyFacts DEF Inferred, Policies
<1>7. \/ Crash(machine, answer)
      \/ (status = "ready" \/ ~Stateful \/ barrier) /\ Iterate(machine, answers)
      \/ Pauses(machine, answers)
  BY <1>1 DEF PredictReturns, Pauses
<1> HIDE DEF machine, status, answers, Outcome
<1>8. CASE Crash(machine, answer)
  <2>1. Ends(machine, answer) /\ accepting' = FALSE /\ runner' = "none"
    <3>1. accepting \in BOOLEAN
      BY BusyFacts
    <3>2. Ends(machine, answer)
      BY ONLY <1>8, <3>1, CrashEnds
    <3>3. accepting' = FALSE /\ runner' = "none"
      BY <1>8 DEF Crash
    <3> QED
      BY <3>2, <3>3
  <2>2. WorkDone(machine, answer)
    BY <1>1, <1>2, <1>5, <1>6, <2>1, AfterInference, BusyFacts DEF WorkDone
  <2> QED
    BY <2>2
<1>9. CASE (status = "ready" \/ ~Stateful \/ barrier) /\ Iterate(machine, answers)
  <2>1. Ends(machine, answers) \/ Takes(machine, answers)
    BY <1>9, IterateShape, BusyFacts
  <2>2. barrier => waiting = NoJob /\ ~accepting
    BY DEF SessionInv, CleanInv
  <2>3. barrier => ~(runner' = "predict" \/ (runner' = "none" /\ accepting'))
    BY <2>1, <2>2 DEF Ends, Takes
  <2>4. status = "ready" => (Stateful => Clean(policy'.history, answers))
    BY <1>1, <1>3, <1>4, <1>6, BusyFacts DEF SessionInv, CleanInv, Clean
  <2>5. WorkDone(machine, answers)
    BY <1>1, <1>2, <1>4, <1>5, <1>6, <1>9, <2>1, <2>3, <2>4, AfterInference, BusyFacts DEF WorkDone
  <2> QED
    BY <2>5
<1>10. CASE Pauses(machine, answers)
  <2>1. runner' # "predict" /\ runner' # "none"
    BY <1>10 DEF Pauses
  <2>2. WorkDone(machine, answers)
    BY <1>1, <1>2, <1>4, <1>5, <1>6, <1>10, <2>1, AfterInference, BusyFacts DEF WorkDone
  <2> QED
    BY <2>2
<1> QED
  BY <1>7, <1>8, <1>9, <1>10

LEMMA RaisesWork ==
    ASSUME TypeOK, SessionInv, NEW touched \in BOOLEAN, PredictRaises(touched)
    PROVE  \E machine, answers : WorkDone(machine, answers)
<1> DEFINE machine == Reject(sm, job.ticket)
           answers == Resolve(answer, job.ticket, "error")
<1>1. Inferring /\ Busy /\ runner = "predict" /\ job.ticket \in Tickets
  BY BusyFacts DEF PredictRaises, Inferring, Busy
<1>2. Follows(sm, job.ticket, machine)
  BY <1>1, BusyFacts, RejectFollows
<1>3. /\ answers \in [Tickets -> Answers]
      /\ \A g \in Tickets : answers[g] = answer[g] \/ (Busy /\ g = job.ticket)
      /\ answers[job.ticket] = "error"
  <2>1. job.ticket \in 0 .. MaxTickets /\ "error" \in Answers
    BY DEF TypeOK, Jobs, Answers
  <2>2. answer[job.ticket] = "none"
    BY <1>1 DEF SessionInv, CleanInv
  <2> QED
    BY <1>1, <2>1, <2>2, ResolveFacts, BusyFacts
<1>4. /\ policy' = policy \/ policy' = Touched
      /\ UNCHANGED <<recovering, barrier, control, connection, invalidated>>
      /\ Iterate(machine, answers)
  BY DEF PredictRaises
<1>5. /\ policy' \in Policies /\ policy'.last = policy.last
      /\ policy'.history \subseteq policy.history \cup {job.ticket}
  BY <1>1, <1>4, BusyFacts DEF Touched, Policies
<1>6. Ends(machine, answers) \/ Takes(machine, answers)
  BY <1>4, IterateShape, BusyFacts
<1> HIDE DEF machine, answers
<1>7. Stateful => Clean(policy'.history, answers)
  BY <1>1, <1>3, <1>5, BusyFacts DEF SessionInv, CleanInv, Clean
<1>8. WorkDone(machine, answers)
  BY <1>1, <1>2, <1>3, <1>4, <1>5, <1>6, <1>7, AfterInference, BusyFacts DEF WorkDone
<1> QED
  BY <1>8
\* A late inference ends in a pause, under a barrier, or with the session closed.
LEMMA LateWork ==
    ASSUME TypeOK, SessionInv, runner = "late", NEW machine, Follows(sm, job.ticket, machine),
           policy' \in Policies, accepting => policy'.last <= sm.latest,
           waiting # NoJob /\ StatusOf(machine, waiting.ticket) = "pending" => policy'.last < waiting.seq,
           AfterLate(machine) \/ (recovering' = FALSE /\ Crash(machine, answer)),
           UNCHANGED <<barrier, control, connection, invalidated>>
    PROVE  WorkDone(machine, answer)
<1>1. Inferring /\ Busy
  BY DEF Inferring, Busy
<1>2. CASE recovering' = FALSE /\ Crash(machine, answer)
  <2>1. Ends(machine, answer)
    BY <1>2, CrashEnds, BusyFacts
  <2>2. accepting' = FALSE /\ runner' = "none"
    BY <1>2 DEF Crash
  <2> QED
    BY <1>1, <1>2, <2>1, <2>2, AfterInference, BusyFacts DEF WorkDone
<1>3. CASE AfterLate(machine) /\ barrier
  <2>1. recovering' = FALSE /\ (Ends(machine, answer) \/ Takes(machine, answer))
    BY <1>3, IterateShape, BusyFacts DEF AfterLate
  <2>2. waiting = NoJob /\ ~accepting
    BY <1>3 DEF SessionInv, CleanInv
  <2>3. runner' = "none" /\ ~accepting'
    BY <2>1, <2>2 DEF Ends, Takes
  <2> QED
    BY <1>1, <2>1, <2>3, AfterInference, BusyFacts DEF WorkDone
<1>4. CASE AfterLate(machine) /\ ~barrier
  <2>1. Pauses(machine, answer) /\ recovering' = recovering /\ runner' = "recover"
    BY <1>1, <1>4 DEF AfterLate, Pauses
  <2> QED
    BY <1>1, <2>1, AfterInference, BusyFacts DEF WorkDone
<1> QED
  BY <1>2, <1>3, <1>4

LEMMA LateReturnsWork ==
    ASSUME TypeOK, SessionInv, LateReturns
    PROVE  \E machine, answers : WorkDone(machine, answers)
<1> DEFINE machine == Complete(sm, job.ticket, policy.episode, TRUE)
<1>1. runner = "late" /\ Inferring /\ Busy /\ job.ticket \in Tickets
  BY BusyFacts DEF LateReturns, Inferring, Busy
<1>2. Follows(sm, job.ticket, machine)
  BY <1>1, BusyFacts, CompleteFollows
<1>3. /\ AfterLate(machine) \/ (recovering' = FALSE /\ Crash(machine, answer))
      /\ policy' = Inferred /\ UNCHANGED <<barrier, control, connection, invalidated>>
  BY DEF LateReturns
<1>4. policy' \in Policies /\ policy'.last = job.seq
  BY <1>1, <1>3, BusyFacts DEF Inferred, Policies
<1> HIDE DEF machine
<1>5. WorkDone(machine, answer)
  BY <1>1, <1>2, <1>3, <1>4, AfterInference, LateWork DEF Follows
<1> QED
  BY <1>5

LEMMA LateRaisesWork ==
    ASSUME TypeOK, SessionInv, NEW touched \in BOOLEAN, LateRaises(touched)
    PROVE  \E machine, answers : WorkDone(machine, answers)
<1> DEFINE machine == Reject(sm, job.ticket)
<1>1. runner = "late" /\ Inferring /\ Busy /\ job.ticket \in Tickets
  BY BusyFacts DEF LateRaises, Inferring, Busy
<1>2. Follows(sm, job.ticket, machine)
  BY <1>1, BusyFacts, RejectFollows
<1>3. /\ AfterLate(machine)
      /\ policy' = policy \/ policy' = Touched
      /\ UNCHANGED <<barrier, control, connection, invalidated>>
  BY DEF LateRaises
<1>4. policy' \in Policies /\ policy'.last = policy.last
  BY <1>1, <1>3, BusyFacts DEF Touched, Policies
<1> HIDE DEF machine
<1>5. WorkDone(machine, answer)
  BY <1>1, <1>2, <1>3, <1>4, AfterInference, LateWork DEF Follows
<1> QED
  BY <1>5

LEMMA ClearedFacts ==
    ASSUME policy \in Policies
    PROVE  Cleared \in Policies /\ Cleared.last = 0 /\ Cleared.history = {}
<1>1. 0 \in 0 .. MaxSeq /\ {} \in SUBSET Tickets
  BY ChunkAssumption
<1> QED
  BY <1>1 DEF Cleared, Policies

LEMMA DiscardResetWork ==
    ASSUME TypeOK, SessionInv, NEW ok \in BOOLEAN, DiscardReset(ok)
    PROVE  WorkDone(sm, answer)
<1>1. /\ runner = "discard" /\ Quiet(sm)
      /\ UNCHANGED <<recovering, barrier, control, connection, invalidated>>
  BY BusyFacts DEF DiscardReset, Inferring
<1>2. OnePending(sm) /\ (accepting => policy.last <= sm.latest)
      /\ (waiting # NoJob /\ StatusOf(sm, waiting.ticket) = "pending" =>
             policy.last < waiting.seq /\ (accepting => waiting.seq <= sm.latest))
  BY DEF SessionInv, OrderInv, WaitingIsPending
<1>3. CASE ok
  <2>1. policy' = Cleared /\ (Ends(sm, answer) \/ Takes(sm, answer))
    BY <1>3, IterateShape, BusyFacts DEF DiscardReset
  <2>2. policy' \in Policies /\ policy'.last = 0 /\ policy'.history = {}
    BY <2>1, ClearedFacts, BusyFacts
  <2>3. /\ accepting => policy'.last <= sm.latest
        /\ waiting # NoJob /\ StatusOf(sm, waiting.ticket) = "pending" => policy'.last < waiting.seq
    BY <1>2, <2>2, BusyFacts, ChunkAssumption DEF Machines
  <2> QED
    BY <1>1, <1>2, <2>1, <2>2, <2>3, BusyFacts DEF WorkDone, Clean
<1>4. CASE ~ok
  <2>1. policy' = policy /\ Crash(sm, answer)
    BY <1>4 DEF DiscardReset
  <2>2. Ends(sm, answer)
    BY <2>1, CrashEnds, BusyFacts
  <2>3. accepting' = FALSE /\ runner' = "none"
    BY <2>1 DEF Crash
  <2> QED
    BY <1>1, <1>2, <2>1, <2>2, <2>3, BusyFacts DEF WorkDone
<1> QED
  BY <1>3, <1>4

LEMMA RecoverResetWork ==
    ASSUME TypeOK, SessionInv, NEW ok \in BOOLEAN, RecoverReset(ok)
    PROVE  \E machine, answers : WorkDone(machine, answers)
<1>1. /\ runner = "recover" /\ Quiet(sm) /\ recovering' = FALSE
      /\ UNCHANGED <<barrier, control, connection, invalidated>>
  BY BusyFacts DEF RecoverReset, Inferring
<1>2. CASE ok
  <2> DEFINE machine == Reset(sm, sm.episode)
  <2>1. policy' = Cleared /\ Iterate(machine, answer)
    BY <1>2 DEF RecoverReset
  <2>2. policy' \in Policies /\ policy'.last = 0 /\ policy'.history = {}
    BY <2>1, ClearedFacts, BusyFacts
  <2>3. sm.episode \in Episodes /\ OnePending(sm)
    BY BusyFacts DEF Machines, SessionInv, OrderInv
  <2>4. /\ machine \in Machines /\ machine.generation = sm.generation /\ machine.latest = 0
        /\ OnePending(machine) /\ Quiet(machine)
        /\ \A g \in Tickets : StatusOf(machine, g) # "pending"
    <3>1. sm \in Machines
      BY BusyFacts
    <3>2. /\ machine \in Machines /\ machine.generation = sm.generation /\ machine.latest = 0
          /\ \A g \in Tickets : Running(machine, g) <=> Running(sm, g)
          /\ \A g \in Tickets : StatusOf(machine, g) # "pending"
      BY <2>3, <3>1, ResetFacts
    <3> HIDE DEF machine
    <3> QED
      BY <1>1, <3>2 DEF OnePending, Quiet
  <2> HIDE DEF machine
  <2>5. Ends(machine, answer) \/ Takes(machine, answer)
    BY <2>1, IterateShape, BusyFacts
  <2>6. waiting # NoJob => waiting.ticket \in Tickets
    BY BusyFacts, ChunkAssumption DEF SessionInv, KnownJobs, Machines
  <2>7. waiting # NoJob => StatusOf(machine, waiting.ticket) # "pending"
    BY <2>4, <2>6
  <2>8. accepting => policy'.last <= machine.latest
    BY <2>2, <2>4
  <2>9. Clean(policy'.history, answer)
    BY <2>2 DEF Clean
  <2>10. WorkDone(machine, answer)
    BY <1>1, <2>2, <2>4, <2>5, <2>7, <2>8, <2>9, BusyFacts DEF WorkDone
  <2> QED
    BY <2>10
<1>3. CASE ~ok
  <2>1. policy' = policy /\ Crash(sm, answer)
    BY <1>3 DEF RecoverReset
  <2>2. Ends(sm, answer)
    BY <2>1, CrashEnds, BusyFacts
  <2>3. accepting' = FALSE /\ runner' = "none"
    BY <2>1 DEF Crash
  <2>4. OnePending(sm) /\ (accepting => policy.last <= sm.latest)
        /\ (waiting # NoJob /\ StatusOf(sm, waiting.ticket) = "pending" =>
               policy.last < waiting.seq /\ (accepting => waiting.seq <= sm.latest))
    BY DEF SessionInv, OrderInv, WaitingIsPending
  <2>5. WorkDone(sm, answer)
    BY <1>1, <2>1, <2>2, <2>3, <2>4, BusyFacts DEF WorkDone
  <2> QED
    BY <2>5
<1> QED
  BY <1>2, <1>3

LEMMA TimesOutKeepsInv ==
    ASSUME TypeOK, SessionInv, PredictTimesOut
    PROVE  TypeOK' /\ SessionInv'
<1>1. /\ runner = "predict" /\ runner' = "late" /\ recovering' = TRUE
      /\ answer' = Resolve(answer, job.ticket, "timeout")
      /\ UNCHANGED <<sm, waiting, job, accepting, barrier, control, policy, connection, invalidated>>
  BY DEF PredictTimesOut
<1>2. job.ticket \in 0 .. MaxTickets /\ "timeout" \in Answers
  BY DEF TypeOK, Jobs, Answers
<1>3. /\ answer' \in [Tickets -> Answers]
      /\ \A g \in Tickets : g # job.ticket => answer'[g] = answer[g]
  BY <1>1, <1>2, ResolveFacts, BusyFacts
<1>4. TypeOK'
  BY <1>1, <1>3 DEF TypeOK, RunnerStates
<1>5. KnownJobs' /\ InferenceIsProtected' /\ OrdersAgree'
  BY <1>1 DEF SessionInv, KnownJobs, InferenceIsProtected, OrdersAgree, Busy
<1>6. OrderInv'
  BY <1>1 DEF SessionInv, OrderInv, OnePending, WaitingIsPending, Inferring
<1>7. CleanInv'
  <2>1. job.ticket \in 1 .. sm.generation /\ (waiting # NoJob => job.ticket # waiting.ticket)
        /\ (waiting # NoJob => waiting.ticket \in Tickets) /\ sm.generation \in 0 .. MaxTickets
    BY <1>1, BusyFacts, ChunkAssumption DEF SessionInv, KnownJobs, Busy, Machines
  <2> QED
    BY <1>1, <1>3, <2>1 DEF SessionInv, CleanInv
<1> QED
  BY <1>4, <1>5, <1>6, <1>7 DEF SessionInv
--------------------------------------------------------------------------------
(* The steps of the receiver.                                              *)

LEMMA SubmitKeepsInv ==
    ASSUME TypeOK, SessionInv, NEW q \in Seqs, NEW ttl \in BOOLEAN, NEW a \in Ages,
           SubmitRequest(q, ttl, a)
    PROVE  TypeOK' /\ SessionInv'
<1> DEFINE g0 == Issued(sm)
           refusal == Refusal(sm, q, a)
<1>1. /\ accepting /\ sm.generation < MaxTickets /\ sm' = Submitted(sm, q, a)
      /\ UNCHANGED <<job, accepting, recovering, barrier, control, policy, connection, invalidated>>
  BY DEF SubmitRequest
<1>2. /\ sm' \in Machines /\ sm'.generation = sm.generation + 1
      /\ OnePending(sm) => OnePending(sm')
      /\ \A g \in Tickets : Running(sm', g) <=> Running(sm, g) /\ g # g0
      /\ refusal # "none" =>
           /\ sm'.latest = sm.latest
           /\ \A g \in Tickets : StatusOf(sm', g) = "pending" => StatusOf(sm, g) = "pending"
      /\ refusal = "none" => sm'.latest = q /\ sm.latest < q
  BY <1>1, SubmittedFacts, BusyFacts
<1>3. /\ sm.generation \in 0 .. MaxTickets /\ g0 = sm.generation + 1 /\ g0 \in Tickets
      /\ sm.latest \in 0 .. MaxSeq
  BY <1>1, BusyFacts, ChunkAssumption DEF Machines, Issued
<1>4. refusal \in {"none", "rejected", "expired"}
  BY DEF Refusal
<1>5. /\ refusal # "none" => answer' = Resolve(answer, g0, refusal) /\ UNCHANGED <<waiting, runner>>
      /\ refusal = "none" =>
           /\ answer' = Resolve(answer, waiting.ticket, "superseded")
           /\ waiting' = [ticket |-> g0, seq |-> q, ttl |-> ttl]
           /\ runner' = IF runner = "none" THEN "started" ELSE runner
  BY DEF SubmitRequest
<1>6. /\ waiting.ticket \in 0 .. MaxTickets /\ g0 \in 0 .. MaxTickets
      /\ (waiting # NoJob => waiting.ticket \in 1 .. sm.generation)
      /\ (Busy => job.ticket \in 1 .. sm.generation)
      /\ (Busy /\ waiting # NoJob => job.ticket # waiting.ticket)
      /\ (waiting = NoJob => waiting.ticket = 0)
  BY <1>3 DEF TypeOK, Jobs, SessionInv, KnownJobs, NoJob
<1> HIDE DEF g0, refusal
<1>7. /\ answer' \in [Tickets -> Answers]
      /\ refusal # "none" => \A g \in Tickets : g # g0 => answer'[g] = answer[g]
      /\ refusal = "none" => \A g \in Tickets : g # waiting.ticket => answer'[g] = answer[g]
      /\ \A g \in Tickets : answer[g] # "none" => answer'[g] = answer[g]
  <2>1. refusal # "none" => refusal \in Answers
    BY <1>4 DEF Answers
  <2>2. "superseded" \in Answers /\ answer \in [Tickets -> Answers]
    BY BusyFacts DEF Answers
  <2>3. CASE refusal # "none"
    <3>1. /\ Resolve(answer, g0, refusal) \in [Tickets -> Answers]
          /\ \A k \in Tickets : Resolve(answer, g0, refusal)[k] =
               IF k = g0 /\ answer[k] = "none" THEN refusal ELSE answer[k]
      BY <1>6, <2>1, <2>2, <2>3, ResolveFacts
    <3>2. answer' = Resolve(answer, g0, refusal)
      BY <1>5, <2>3
    <3> QED
      BY <2>3, <3>1, <3>2
  <2>4. CASE refusal = "none"
    <3>1. /\ Resolve(answer, waiting.ticket, "superseded") \in [Tickets -> Answers]
          /\ \A k \in Tickets : Resolve(answer, waiting.ticket, "superseded")[k] =
               IF k = waiting.ticket /\ answer[k] = "none" THEN "superseded" ELSE answer[k]
      BY <1>6, <2>2, ResolveFacts
    <3>2. answer' = Resolve(answer, waiting.ticket, "superseded")
      BY <1>5, <2>4
    <3> QED
      BY <2>4, <3>1, <3>2
  <2> QED
    BY <2>3, <2>4
<1>8. waiting' \in Jobs /\ runner' \in RunnerStates
  BY <1>5, <1>6 DEF TypeOK, Jobs, RunnerStates
<1>9. TypeOK'
  BY <1>1, <1>2, <1>7, <1>8 DEF TypeOK
<1>10. (Busy' <=> Busy) /\ (Inferring' <=> Inferring) /\ (runner' = "predict" <=> runner = "predict")
       /\ (runner' = "late" <=> runner = "late")
  BY <1>5 DEF Busy, Inferring
<1>11. KnownJobs'
  BY <1>1, <1>2, <1>3, <1>5, <1>6, <1>10 DEF KnownJobs
<1>12. InferenceIsProtected'
  <2>1. \A g \in Tickets : Running(sm, g) => g # g0
    BY <1>3, <1>6 DEF SessionInv, InferenceIsProtected, Running, Busy
  <2>2. \A g \in Tickets : Running(sm', g) <=> Running(sm, g)
    BY <1>2, <2>1
  <2> QED
    BY <1>1, <1>10, <2>2 DEF SessionInv, InferenceIsProtected, Running
<1>13. OrderInv' /\ OrdersAgree'
  <2>1. OrdersAgree' /\ OnePending(sm')
    BY <1>1, <1>2, <1>10 DEF SessionInv, OrdersAgree, InOrder, OrderInv
  <2>2. policy.last <= sm.latest /\ (Inferring => job.seq <= sm.latest)
    BY <1>1 DEF SessionInv, OrderInv
  <2>3. CASE refusal # "none"
    <3>1. waiting' = waiting /\ sm'.latest = sm.latest
      BY <1>2, <1>5, <2>3
    <3>2. WaitingIsPending' => WaitingIsPending
      BY <1>2, <1>3, <1>6, <2>3, <3>1 DEF WaitingIsPending
    <3> QED
      BY <1>1, <1>10, <2>1, <2>2, <3>1, <3>2 DEF SessionInv, OrderInv
  <2>4. CASE refusal = "none"
    <3>1. waiting'.seq = q /\ sm'.latest = q /\ sm.latest < q
      BY <1>2, <1>5, <2>4
    <3>2. policy.last < q /\ policy.last <= q /\ (Inferring => job.seq < q /\ job.seq <= q) /\ q <= q
      BY <1>3, <2>2, <3>1, BusyFacts, ChunkAssumption
    <3> QED
      BY <1>1, <1>10, <2>1, <3>1, <3>2 DEF OrderInv
  <2> QED
    BY <2>1, <2>3, <2>4
<1>14. CleanInv'
  <2>1. barrier' = FALSE /\ accepting' = TRUE /\ ~barrier
    BY <1>1, BusyFacts DEF SessionInv, CleanInv
  <2>2. runner' = "predict" => answer'[job'.ticket] = "none"
    <3> SUFFICES ASSUME runner' = "predict" PROVE answer'[job'.ticket] = "none"
      OBVIOUS
    <3>1. runner = "predict" /\ job' = job /\ Busy
      BY <1>1, <1>10 DEF Busy
    <3>2. /\ job.ticket \in 1 .. sm.generation /\ job.ticket \in Tickets /\ job.ticket # g0
          /\ answer[job.ticket] = "none"
      BY <1>3, <1>6, <3>1, BusyFacts DEF SessionInv, CleanInv
    <3>3. waiting.ticket # job.ticket
      BY <1>6, <3>1, <3>2
    <3> QED
      BY <1>7, <3>1, <3>2, <3>3
  <2>3. waiting' # NoJob => answer'[waiting'.ticket] = "none"
    <3>1. CASE refusal # "none"
      BY <1>3, <1>5, <1>6, <1>7, <3>1 DEF SessionInv, CleanInv
    <3>2. CASE refusal = "none"
      <4>1. waiting'.ticket = g0 /\ g0 # waiting.ticket /\ answer[g0] = "none"
        BY <1>3, <1>5, <1>6, <3>2 DEF SessionInv, CleanInv
      <4> QED
        BY <1>3, <1>7, <3>2, <4>1
    <3> QED
      BY <3>1, <3>2
  <2>4. \A g \in Tickets : g > sm'.generation => answer'[g] = "none"
    BY <1>2, <1>3, <1>6, <1>7 DEF SessionInv, CleanInv
  <2>5. Stateful /\ (runner' \in {"predict", "started"} \/ runner' = "none") => Clean(policy.history, answer')
    <3>1. runner' \in {"predict", "started", "none"} => runner \in {"predict", "started", "none"}
      BY <1>5
    <3>2. Stateful /\ runner \in {"predict", "started", "none"} => Clean(policy.history, answer)
      BY <1>1 DEF SessionInv, CleanInv
    <3>3. \A g \in policy.history : g \in Tickets
      BY BusyFacts
    <3> QED
      BY <1>7, <3>1, <3>2, <3>3 DEF Clean
  <2> QED
    BY <1>1, <2>1, <2>2, <2>3, <2>4, <2>5 DEF CleanInv
<1> QED
  BY <1>9, <1>11, <1>12, <1>13, <1>14 DEF SessionInv

LEMMA BeginKeepsInv ==
    ASSUME TypeOK, SessionInv, NEW c \in Controls, BeginControl(c)
    PROVE  TypeOK' /\ SessionInv'
<1> DEFINE e == IF c.episode = Keep THEN sm.episode ELSE c.episode
           answers == Resolve(answer, waiting.ticket, "unavailable")
<1>1. /\ control' = c /\ accepting' = FALSE /\ barrier' = TRUE
      /\ sm' = Reset(sm, e) /\ answer' = answers
      /\ waiting' = NoJob /\ invalidated' = 1 .. sm.generation
      /\ UNCHANGED <<job, runner, recovering, policy, connection>>
  BY DEF BeginControl
<1>2. e \in Episodes /\ sm \in Machines /\ sm.generation \in 0 .. MaxTickets
  BY DEF TypeOK, Machines, Controls
<1>3. waiting.ticket \in 0 .. MaxTickets /\ "unavailable" \in Answers
  BY DEF TypeOK, Jobs, Answers
<1>4. /\ answers \in [Tickets -> Answers]
      /\ \A k \in Tickets : answers[k] =
           IF k = waiting.ticket /\ answer[k] = "none" THEN "unavailable" ELSE answer[k]
  BY <1>3, BusyFacts, ResolveFacts
<1> HIDE DEF e, answers
<1>5. /\ sm' \in Machines /\ sm'.generation = sm.generation /\ sm'.latest = 0
      /\ \A g \in Tickets : Running(sm', g) <=> Running(sm, g)
  BY <1>1, <1>2, ResetFacts
<1>6. \A g \in Tickets : StatusOf(sm', g) # "pending"
  BY <1>1, <1>2, ResetFacts DEF SessionInv, OrderInv
<1>7. NoJob \in Jobs
  BY ChunkAssumption DEF NoJob, Jobs
<1>8. TypeOK'
  <2>1. 1 .. sm.generation \in SUBSET Tickets
    BY <1>2, ChunkAssumption
  <2> QED
    BY <1>1, <1>4, <1>5, <1>7, <2>1 DEF TypeOK
<1>9. KnownJobs'
  BY <1>1, <1>5 DEF SessionInv, KnownJobs, Busy
<1>10. InferenceIsProtected'
  BY <1>1, <1>5 DEF SessionInv, InferenceIsProtected, Running
<1>11. OrderInv' /\ OrdersAgree'
  BY <1>1, <1>6 DEF SessionInv, OrderInv, OnePending, WaitingIsPending, OrdersAgree, InOrder
<1>12. CleanInv'
  <2>1. runner' = "predict" => answer'[job'.ticket] = "none"
    <3> SUFFICES ASSUME runner' = "predict" PROVE answer'[job'.ticket] = "none"
      OBVIOUS
    <3>1. Busy /\ job.ticket \in Tickets /\ answer[job.ticket] = "none"
      BY <1>1, BusyFacts DEF SessionInv, CleanInv, Busy
    <3>2. job.ticket # waiting.ticket
      BY <3>1, ChunkAssumption DEF SessionInv, KnownJobs, NoJob
    <3> QED
      BY <1>1, <1>4, <3>1, <3>2
  <2>2. \A g \in Tickets : g > sm'.generation => answer'[g] = "none"
    <3> SUFFICES ASSUME NEW g \in Tickets, g > sm.generation PROVE answer'[g] = "none"
      BY <1>5
    <3>1. answer[g] = "none"
      BY DEF SessionInv, CleanInv
    <3>2. g # waiting.ticket
      BY <1>2, ChunkAssumption DEF SessionInv, KnownJobs, NoJob
    <3> QED
      BY <1>1, <1>4, <3>1, <3>2
  <2>3. Stateful /\ runner' \in {"predict", "started"} => Clean(policy'.history, answer')
    <3>1. Stateful /\ runner \in {"predict", "started"} => Clean(policy.history, answer)
      BY DEF SessionInv, CleanInv
    <3>2. \A g \in policy.history : g \in Tickets
      BY BusyFacts
    <3>3. \A g \in Tickets : answer[g] \in {"chunk", "error"} => answer'[g] = answer[g]
      BY <1>1, <1>4
    <3> QED
      BY <1>1, <3>1, <3>2, <3>3 DEF Clean
  <2> QED
    BY <1>1, <2>1, <2>2, <2>3 DEF CleanInv
<1> QED
  BY <1>8, <1>9, <1>10, <1>11, <1>12 DEF SessionInv

LEMMA EndKeepsInv ==
    ASSUME TypeOK, SessionInv, NEW ok \in BOOLEAN, EndControl(ok)
    PROVE  TypeOK' /\ SessionInv'
<1> DEFINE e == IF control.episode = Keep THEN sm.episode ELSE control.episode
           bound == IF control.episode = Keep THEN Cleared.episode ELSE control.episode
<1>1. /\ control # NoControl /\ runner = "none" /\ control' = NoControl
      /\ UNCHANGED <<answer, waiting, job, runner, recovering, invalidated>>
  BY DEF EndControl
<1>2. CASE /\ UNCHANGED <<policy, sm, barrier, accepting>>
           /\ connection' \in {"open", "closed"}
  <2>1. TypeOK'
    BY <1>1, <1>2 DEF TypeOK
  <2>2. SessionInv'
    BY <1>1, <1>2
    DEF SessionInv, KnownJobs, InferenceIsProtected, OrderInv, OrdersAgree, CleanInv, OnePending,
        WaitingIsPending, Inferring, Busy, InOrder
  <2> QED
    BY <2>1, <2>2
<1>3. CASE /\ control.op = "reset" /\ policy' = [Cleared EXCEPT !.episode = bound]
           /\ sm' = Reset(sm, e)
           /\ barrier' = FALSE /\ accepting' = TRUE /\ UNCHANGED connection
  <2>1. Cleared \in Policies /\ Cleared.last = 0 /\ Cleared.history = {}
    BY BusyFacts, ClearedFacts
  <2>2. e \in Episodes /\ bound \in Episodes /\ sm \in Machines
    BY <1>1, <2>1 DEF TypeOK, Machines, Controls, Policies
  <2> HIDE DEF e, bound
  <2>3. policy' \in Policies /\ policy'.last = 0 /\ policy'.history = {}
    BY <1>3, <2>1, <2>2 DEF Policies
  <2>4. /\ sm' \in Machines /\ sm'.generation = sm.generation /\ sm'.latest = 0
        /\ \A g \in Tickets : Running(sm', g) <=> Running(sm, g)
    BY <1>3, <2>2, ResetFacts
  <2>5. \A g \in Tickets : StatusOf(sm', g) # "pending"
    BY <1>3, <2>2, ResetFacts DEF SessionInv, OrderInv
  <2>6. TypeOK'
    BY <1>1, <1>3, <2>3, <2>4 DEF TypeOK, Policies
  <2>7. KnownJobs'
    BY <1>1, <2>4 DEF SessionInv, KnownJobs, Busy
  <2>8. InferenceIsProtected' /\ OrdersAgree'
    BY <1>1, <2>4 DEF SessionInv, InferenceIsProtected, OrdersAgree, Running
  <2>9. WaitingIsPending' = FALSE
    <3> SUFFICES ASSUME WaitingIsPending' PROVE FALSE
      BY DEF WaitingIsPending
    <3>1. waiting # NoJob /\ waiting.ticket \in 1 .. sm.generation /\ sm.generation \in 0 .. MaxTickets
      BY <1>1, <2>2 DEF WaitingIsPending, SessionInv, KnownJobs, Machines
    <3>2. waiting.ticket \in Tickets
      BY <3>1, ChunkAssumption
    <3> QED
      BY <1>1, <2>5, <3>2 DEF WaitingIsPending
  <2>10. OrderInv'
    BY <1>1, <2>3, <2>4, <2>5, <2>9 DEF OrderInv, OnePending, Inferring
  <2>11. CleanInv'
    BY <1>1, <1>3, <2>3, <2>4 DEF SessionInv, CleanInv, Clean
  <2> QED
    BY <2>6, <2>7, <2>8, <2>10, <2>11 DEF SessionInv
<1>4. connection \in {"open", "closed"}
  BY DEF TypeOK
<1> HIDE DEF e, bound
<1>5. \/ /\ UNCHANGED <<policy, sm, barrier, accepting>>
         /\ connection' \in {"open", "closed"}
      \/ /\ control.op = "reset" /\ policy' = [Cleared EXCEPT !.episode = bound]
         /\ sm' = Reset(sm, e)
         /\ barrier' = FALSE /\ accepting' = TRUE /\ UNCHANGED connection
  BY <1>4 DEF EndControl, e, bound
<1> QED
  BY <1>2, <1>3, <1>5

--------------------------------------------------------------------------------
(* The theorems about the session's invariant.                             *)

LEMMA InitInv == Init => TypeOK /\ SessionInv
<1> SUFFICES ASSUME Init PROVE TypeOK /\ SessionInv
  OBVIOUS
<1>1. PICK e \in Episodes : sm = NewMachine(e) /\ policy = [episode |-> e, last |-> 0, history |-> {}]
  BY DEF Init
<1>2. /\ answer = [g \in Tickets |-> "none"] /\ waiting = NoJob /\ job = NoJob /\ runner = "none"
      /\ accepting = TRUE /\ recovering = FALSE /\ barrier = FALSE
      /\ control = NoControl /\ connection = "open" /\ invalidated = {}
  BY DEF Init
<1>3. 0 \in 0 .. MaxTickets /\ 0 \in 0 .. MaxSeq /\ NoJob \in Jobs /\ {} \in SUBSET Tickets
  BY ChunkAssumption DEF NoJob, Jobs
<1>4. \A g \in Tickets : sm.records[g] = Absent
  BY <1>1 DEF NewMachine
<1>5. sm \in Machines /\ sm.latest = 0 /\ sm.generation = 0
  BY <1>1, <1>3, AbsentIsRecord DEF NewMachine, Machines
<1>6. TypeOK
  BY <1>1, <1>2, <1>3, <1>5 DEF TypeOK, RunnerStates, Answers
<1>7. KnownJobs /\ OrdersAgree
  BY <1>2 DEF KnownJobs, OrdersAgree, Busy
<1>8. InferenceIsProtected /\ OnePending(sm)
  BY <1>2, <1>4 DEF InferenceIsProtected, OnePending, StatusOf, Absent
<1>9. OrderInv
  BY <1>1, <1>2, <1>5, <1>8 DEF OrderInv, Inferring, WaitingIsPending
<1>10. CleanInv
  BY <1>1, <1>2 DEF CleanInv, Clean
<1> QED
  BY <1>6, <1>7, <1>8, <1>9, <1>10 DEF SessionInv

LEMMA StutterKeepsInv == TypeOK /\ SessionInv /\ UNCHANGED vars => TypeOK' /\ SessionInv'
<1> SUFFICES ASSUME TypeOK, SessionInv, UNCHANGED vars PROVE TypeOK' /\ SessionInv'
  OBVIOUS
<1> USE DEF vars, loop
<1>1. TypeOK'
  BY DEF TypeOK
<1>2. KnownJobs' /\ InferenceIsProtected' /\ OrderInv' /\ OrdersAgree'
  BY DEF SessionInv, KnownJobs, InferenceIsProtected, OrderInv, OrdersAgree, OnePending,
         WaitingIsPending, Inferring, Busy, InOrder
<1>3. CleanInv'
  BY DEF SessionInv, CleanInv
<1> QED
  BY <1>1, <1>2, <1>3 DEF SessionInv

LEMMA StepInv == TypeOK /\ SessionInv /\ [Next]_vars => TypeOK' /\ SessionInv'
<1> SUFFICES ASSUME TypeOK, SessionInv, [Next]_vars PROVE TypeOK' /\ SessionInv'
  OBVIOUS
<1>1. ASSUME NEW machine, NEW answers, WorkDone(machine, answers) PROVE TypeOK' /\ SessionInv'
  BY <1>1, WorkTypes, WorkKeepsInv DEF SessionInv
<1>2. CASE Receiver
  BY <1>2, SubmitKeepsInv, BeginKeepsInv DEF Receiver
<1>3. CASE Runner
  <2>1. CASE RunnerStarts
    BY <1>1, <2>1, StartsWork
  <2>2. ASSUME NEW expired \in BOOLEAN, PredictReturns(expired) PROVE TypeOK' /\ SessionInv'
    BY <1>1, <2>2, ReturnsWork
  <2>3. ASSUME NEW touched \in BOOLEAN, PredictRaises(touched) PROVE TypeOK' /\ SessionInv'
    BY <1>1, <2>3, RaisesWork
  <2>4. CASE PredictTimesOut
    BY <2>4, TimesOutKeepsInv
  <2>5. CASE LateReturns
    BY <1>1, <2>5, LateReturnsWork
  <2>6. ASSUME NEW touched \in BOOLEAN, LateRaises(touched) PROVE TypeOK' /\ SessionInv'
    BY <1>1, <2>6, LateRaisesWork
  <2>7. ASSUME NEW ok \in BOOLEAN, DiscardReset(ok) PROVE TypeOK' /\ SessionInv'
    BY <1>1, <2>7, DiscardResetWork
  <2>8. ASSUME NEW ok \in BOOLEAN, RecoverReset(ok) PROVE TypeOK' /\ SessionInv'
    BY <1>1, <2>8, RecoverResetWork
  <2> QED
    BY <1>3, <2>1, <2>2, <2>3, <2>4, <2>5, <2>6, <2>7, <2>8 DEF Runner
<1>4. CASE ControlEnds
  BY <1>4, EndKeepsInv DEF ControlEnds
<1>5. CASE UNCHANGED vars
  BY <1>5, StutterKeepsInv
<1> QED
  BY <1>2, <1>3, <1>4, <1>5 DEF Next

(* Every variable of a session keeps its type, and the session's invariant *)
(* holds in every reachable state (VLASession and _SessionRuntime).        *)
THEOREM SessionIsInvariant == Spec => [](TypeOK /\ SessionInv)
BY InitInv, StepInv, PTL DEF Spec

(* However many requests become terminal while one is inferred, its record *)
(* is never trimmed, and no record stays `inferring' (_trim_history).      *)
THEOREM InferenceStaysProtected == Spec => []InferenceIsProtected
<1>1. TypeOK /\ SessionInv => InferenceIsProtected
  BY DEF SessionInv
<1> QED
  BY <1>1, SessionIsInvariant, PTL

(* A request the runner serves is never refused by the policy session for  *)
(* its order, whatever resets and controls came between (VLASession.predict). *)
THEOREM OrdersAlwaysAgree == Spec => []OrdersAgree
<1>1. TypeOK /\ SessionInv => OrdersAgree
  BY DEF SessionInv
<1> QED
  BY <1>1, SessionIsInvariant, PTL

(* A stateful policy never infers on a history that holds an undelivered   *)
(* inference (the resets of _predict and of reset).                        *)
THEOREM PolicyStaysClean == Spec => []PolicyIsClean
<1>1. TypeOK /\ SessionInv => PolicyIsClean
  BY DEF SessionInv, CleanInv, PolicyIsClean, Clean
<1> QED
  BY <1>1, SessionIsInvariant, PTL
--------------------------------------------------------------------------------
(* The records of the machine, ticket by ticket.                           *)

\* A slot holds a ticket of its status, a ready ticket is not being inferred,
\* whatever came after the pending ticket was refused, and a ticket not issued
\* has no record.
SlotsFit(m) ==
  /\ m.pending # 0 => StatusOf(m, m.pending) = "pending"
  /\ m.ready # 0 => StatusOf(m, m.ready) = "ready"
ReadyIsDone(m) == \A g \in Tickets : StatusOf(m, g) = "ready" => ~Running(m, g)
PendingIsNewest(m) ==
  \A g, k \in Tickets : StatusOf(m, g) = "pending" /\ k > g =>
    StatusOf(m, k) \in {"absent", "rejected", "expired"}
Unissued(m) == \A g \in Tickets : g > m.generation => StatusOf(m, g) = "absent"
Sound(m) ==
  SlotsFit(m) /\ OnePending(m) /\ ReadyIsDone(m) /\ PendingIsNewest(m) /\ Unissued(m)

\* A ticket does not become pending, and one that was refused or forgotten
\* stays so.
Fades(m, n, g) ==
  /\ StatusOf(n, g) = "pending" => StatusOf(m, g) = "pending"
  /\ StatusOf(m, g) \in {"absent", "rejected"} => StatusOf(n, g) \in {"absent", "rejected"}

\* Trimming forgets terminal tickets only.
LEMMA SoundTrim ==
    ASSUME NEW m \in Machines, Sound(m)
    PROVE  /\ Sound(Trim(m))
           /\ \A g \in Tickets :
                \/ StatusOf(Trim(m), g) = StatusOf(m, g)
                \/ StatusOf(Trim(m), g) = "absent" /\ StatusOf(m, g) \in Terminal
<1> DEFINE n == Trim(m)
<1>1. \A g \in Tickets : \/ n.records[g] = m.records[g]
                         \/ n.records[g] = Absent /\ StatusOf(m, g) \in Terminal
  BY DEF Trim, Removable, Machines
<1>2. /\ n.pending = m.pending /\ n.ready = m.ready /\ n.generation = m.generation
      /\ m.pending \in 0 .. MaxTickets /\ m.ready \in 0 .. MaxTickets
      /\ \A g \in Tickets : Running(n, g) <=> Running(m, g)
  BY TrimFacts, TrimFollows DEF Machines
<1> HIDE DEF n
<1>3. \A g \in Tickets : \/ StatusOf(n, g) = StatusOf(m, g)
                         \/ StatusOf(n, g) = "absent" /\ StatusOf(m, g) \in Terminal
  BY <1>1 DEF StatusOf, Absent
<1>4. SlotsFit(n)
  BY <1>2, <1>3, ChunkAssumption DEF Sound, SlotsFit, Terminal
<1>5. OnePending(n) /\ ReadyIsDone(n) /\ PendingIsNewest(n) /\ Unissued(n)
  BY <1>2, <1>3 DEF Sound, OnePending, ReadyIsDone, PendingIsNewest, Unissued, Terminal
<1> QED
  BY <1>3, <1>4, <1>5 DEF Sound, n

\* The end of an inference alone changes no status.
LEMMA SoundFinished ==
    ASSUME NEW m \in Machines, NEW j \in Tickets, Sound(m)
    PROVE  Sound(Finished(m, j))
<1>1. Finished(m, j).ready = m.ready
  BY DEF Finished, Machines
<1>2. m.pending \in 0 .. MaxTickets /\ m.ready \in 0 .. MaxTickets
  BY DEF Machines
<1>3. /\ Finished(m, j).generation = m.generation /\ Finished(m, j).pending = m.pending
      /\ \A g \in Tickets : /\ StatusOf(Finished(m, j), g) = StatusOf(m, g)
                            /\ Running(Finished(m, j), g) => Running(m, g)
  BY FinishedFacts DEF Follows
<1>4. SlotsFit(Finished(m, j))
  BY <1>1, <1>2, <1>3, ChunkAssumption DEF Sound, SlotsFit
<1>5. OnePending(Finished(m, j)) /\ ReadyIsDone(Finished(m, j))
  BY <1>3 DEF Sound, OnePending, ReadyIsDone
<1>6. PendingIsNewest(Finished(m, j)) /\ Unissued(Finished(m, j))
  BY <1>3 DEF Sound, PendingIsNewest, Unissued
<1> QED
  BY <1>4, <1>5, <1>6 DEF Sound

\* The ticket of the pending slot gets its terminal status or is forgotten.
LEMMA SoundEndPending ==
    ASSUME NEW m \in Machines, NEW j \in Tickets, NEW s \in Terminal, Sound(m), m.pending = j
    PROVE  /\ Sound(EndPending(m, j, s))
           /\ StatusOf(EndPending(m, j, s), j) \in {s, "absent"}
           /\ \A g \in Tickets : Fades(m, EndPending(m, j, s), g)
<1> DEFINE R == Settle(m.records, {j}, s)
           n == [m EXCEPT !.pending = 0, !.records = R]
<1>1. m.records \in [Tickets -> Records] /\ m.ready \in 0 .. MaxTickets /\ 0 \in 0 .. MaxTickets
  BY ChunkAssumption DEF Machines
<1>2. R \in [Tickets -> Records] /\ \A g \in Tickets : /\ R[g].inference = m.records[g].inference
                                                       /\ R[g].status = IF g = j THEN s ELSE m.records[g].status
  BY <1>1, SettleFacts
<1> HIDE DEF R
<1>3. /\ n \in Machines /\ n.pending = 0 /\ n.ready = m.ready /\ n.generation = m.generation
      /\ n.records = R
  BY <1>1, <1>2 DEF Machines
<1>4. EndPending(m, j, s) = Trim(n)
  BY DEF EndPending, R
<1> HIDE DEF n
<1>5. \A g \in Tickets : /\ StatusOf(n, g) = IF g = j THEN s ELSE StatusOf(m, g)
                         /\ Running(n, g) <=> Running(m, g)
  BY <1>2, <1>3 DEF StatusOf, Running
<1>6. j # 0 /\ StatusOf(m, j) = "pending" /\ \A g \in Tickets : StatusOf(n, g) # "pending"
  BY <1>5, ChunkAssumption DEF Sound, SlotsFit, OnePending, Terminal
<1>7. SlotsFit(n)
  BY <1>1, <1>3, <1>5, <1>6 DEF Sound, SlotsFit
<1>8. OnePending(n) /\ ReadyIsDone(n) /\ PendingIsNewest(n) /\ Unissued(n)
  BY <1>3, <1>5, <1>6 DEF Sound, OnePending, ReadyIsDone, PendingIsNewest, Unissued, Terminal
<1>9. Sound(Trim(n)) /\ \A g \in Tickets :
        \/ StatusOf(Trim(n), g) = StatusOf(n, g)
        \/ StatusOf(Trim(n), g) = "absent" /\ StatusOf(n, g) \in Terminal
  BY <1>3, <1>7, <1>8, SoundTrim DEF Sound
<1> QED
  BY <1>4, <1>5, <1>6, <1>9 DEF Fades, Terminal

\* What a completion leaves. A running ticket becomes ready only from the
\* pending slot and with a chunk of the session's episode.
LEMMA SoundComplete ==
    ASSUME NEW m \in Machines, NEW j \in Tickets, NEW e \in Episodes, NEW x \in BOOLEAN, Sound(m)
    PROVE  /\ Sound(Complete(m, j, e, x))
           /\ \A g \in Tickets : Fades(m, Complete(m, j, e, x), g)
           /\ Misfit(m, j, e) => StatusOf(Complete(m, j, e, x), j) \in {"absent", "rejected"}
           /\ Running(m, j) /\ StatusOf(Complete(m, j, e, x), j) = "ready" =>
                StatusOf(m, j) = "pending" /\ e = m.episode
<1> DEFINE done == Finished(m, j)
<1>1. /\ done \in Machines /\ done.pending = m.pending /\ done.generation = m.generation
      /\ \A g \in Tickets : StatusOf(done, g) = StatusOf(m, g)
      /\ ~Running(done, j) /\ \A g \in Tickets : Running(done, g) => Running(m, g)
      /\ Sound(done)
  BY FinishedFacts, SoundFinished DEF Follows
<1> HIDE DEF done
<1>2. CASE Discarded(m, j)
  <2>1. Complete(m, j, e, x) = Trim(done) /\ ~Misfit(m, j, e)
    BY <1>2 DEF Complete, done, Misfit
  <2>2. Sound(Trim(done)) /\ \A g \in Tickets :
          \/ StatusOf(Trim(done), g) = StatusOf(done, g)
          \/ StatusOf(Trim(done), g) = "absent" /\ StatusOf(done, g) \in Terminal
    BY <1>1, SoundTrim
  <2>3. \A g \in Tickets : Fades(m, Trim(done), g)
    BY <1>1, <2>2 DEF Fades
  <2>4. Running(m, j) => StatusOf(Trim(done), j) # "ready"
    BY <1>1, <2>2 DEF Sound, ReadyIsDone
  <2> QED
    BY <2>1, <2>2, <2>3, <2>4
<1>3. ASSUME NEW s \in Terminal, Complete(m, j, e, x) = EndPending(done, j, s), ~Discarded(m, j)
      PROVE  /\ Sound(Complete(m, j, e, x))
             /\ StatusOf(Complete(m, j, e, x), j) \in {s, "absent"}
             /\ \A g \in Tickets : Fades(m, Complete(m, j, e, x), g)
  <2>1. done.pending = j
    BY <1>1, <1>3 DEF Discarded
  <2>2. /\ Sound(EndPending(done, j, s)) /\ StatusOf(EndPending(done, j, s), j) \in {s, "absent"}
        /\ \A g \in Tickets : Fades(done, EndPending(done, j, s), g)
    BY <1>1, <2>1, SoundEndPending
  <2> QED
    BY <1>1, <1>3, <2>2 DEF Fades
<1>4. CASE ~Discarded(m, j) /\ e # m.episode
  <2>1. Complete(m, j, e, x) = EndPending(done, j, "rejected") /\ "rejected" \in Terminal
    BY <1>4 DEF Complete, done, Terminal
  <2> QED
    BY <1>3, <1>4, <2>1
<1>5. CASE ~Discarded(m, j) /\ e = m.episode /\ x
  <2>1. Complete(m, j, e, x) = EndPending(done, j, "expired") /\ "expired" \in Terminal
    BY <1>5 DEF Complete, done, Terminal
  <2> QED
    BY <1>3, <1>5, <2>1 DEF Misfit
<1>6. CASE ~Discarded(m, j) /\ e = m.episode /\ ~x
  <2> DEFINE R == [done.records EXCEPT ![j] = [done.records[j] EXCEPT !.status = "ready"]]
             n == [done EXCEPT !.pending = 0, !.ready = j, !.records = R]
  <2>1. Complete(m, j, e, x) = n
    BY <1>1, <1>6 DEF Complete, done, Machines
  <2>2. done.records \in [Tickets -> Records] /\ done.records[j] \in Records
    BY <1>1 DEF Machines
  <2>3. /\ [done.records[j] EXCEPT !.status = "ready"].status = "ready"
        /\ [done.records[j] EXCEPT !.status = "ready"].inference = done.records[j].inference
    BY <2>2 DEF Records
  <2>4. \A g \in Tickets : /\ R[g].inference = done.records[g].inference
                           /\ R[g].status = IF g = j THEN "ready" ELSE done.records[g].status
    BY <2>2, <2>3
  <2> HIDE DEF R
  <2>5. n.pending = 0 /\ n.ready = j /\ n.generation = done.generation /\ n.records = R
    BY <1>1 DEF Machines
  <2> HIDE DEF n
  <2>6. \A g \in Tickets : /\ StatusOf(n, g) = IF g = j THEN "ready" ELSE StatusOf(done, g)
                           /\ Running(n, g) <=> Running(done, g)
    BY <2>4, <2>5 DEF StatusOf, Running
  <2>7. StatusOf(m, j) = "pending" /\ m.pending = j
    BY <1>6 DEF Discarded
  <2>8. \A g \in Tickets : StatusOf(n, g) # "pending"
    BY <1>1, <2>6, <2>7 DEF Sound, OnePending
  <2>9. SlotsFit(n) /\ OnePending(n) /\ ReadyIsDone(n) /\ PendingIsNewest(n) /\ Unissued(n)
    BY <1>1, <2>5, <2>6, <2>7, <2>8
    DEF Sound, SlotsFit, OnePending, ReadyIsDone, PendingIsNewest, Unissued
  <2>10. \A g \in Tickets : Fades(m, n, g)
    BY <1>1, <2>6, <2>7 DEF Fades
  <2> QED
    BY <1>6, <2>1, <2>7, <2>9, <2>10 DEF Sound, Misfit
<1> QED
  BY <1>2, <1>4, <1>5, <1>6

\* What a failed inference leaves.
LEMMA SoundReject ==
    ASSUME NEW m \in Machines, NEW j \in Tickets, Sound(m)
    PROVE  Sound(Reject(m, j)) /\ \A g \in Tickets : Fades(m, Reject(m, j), g)
<1> DEFINE done == Finished(m, j)
<1>1. /\ done \in Machines /\ done.pending = m.pending
      /\ \A g \in Tickets : StatusOf(done, g) = StatusOf(m, g)
      /\ Sound(done)
  BY FinishedFacts, SoundFinished DEF Follows
<1> HIDE DEF done
<1>2. CASE Discarded(m, j)
  BY <1>1, <1>2 DEF Reject, done, Fades
<1>3. CASE ~Discarded(m, j)
  <2>1. done.pending = j /\ Reject(m, j) = EndPending(done, j, "rejected") /\ "rejected" \in Terminal
    BY <1>1, <1>3 DEF Discarded, Reject, done, Terminal
  <2>2. /\ Sound(EndPending(done, j, "rejected"))
        /\ \A g \in Tickets : Fades(done, EndPending(done, j, "rejected"), g)
    BY <1>1, <2>1, SoundEndPending
  <2> QED
    BY <1>1, <2>1, <2>2 DEF Fades
<1> QED
  BY <1>2, <1>3

\* What a reset leaves.
LEMMA SoundReset ==
    ASSUME NEW m \in Machines, NEW e \in Episodes, Sound(m)
    PROVE  Sound(Reset(m, e)) /\ \A g \in Tickets : Fades(m, Reset(m, e), g)
<1> DEFINE R == Settle(m.records, {m.pending, m.ready}, "rejected")
           n == [m EXCEPT !.records = R, !.pending = 0, !.ready = 0, !.latest = 0, !.episode = e]
<1>1. m.records \in [Tickets -> Records] /\ "rejected" \in Terminal
  BY DEF Machines, Terminal
<1>2. R \in [Tickets -> Records] /\ \A g \in Tickets :
         /\ R[g].inference = m.records[g].inference
         /\ R[g].status = IF g \in {m.pending, m.ready} THEN "rejected" ELSE m.records[g].status
  BY <1>1, SettleFacts
<1>3. 0 \in 0 .. MaxTickets /\ 0 \in 0 .. MaxSeq
  BY ChunkAssumption
<1> HIDE DEF R
<1>4. n \in Machines /\ n.pending = 0 /\ n.ready = 0 /\ n.generation = m.generation /\ n.records = R
  BY <1>2, <1>3 DEF Machines
<1>5. Reset(m, e) = Trim(n)
  BY DEF Reset, R
<1> HIDE DEF n
<1>6. \A g \in Tickets :
        /\ StatusOf(n, g) = IF g \in {m.pending, m.ready} THEN "rejected" ELSE StatusOf(m, g)
        /\ Running(n, g) <=> Running(m, g)
  BY <1>2, <1>4 DEF StatusOf, Running
<1>7. \A g \in Tickets : StatusOf(n, g) # "pending"
  BY <1>6 DEF Sound, OnePending
<1>8. \A g \in Tickets : g # 0
  BY ChunkAssumption
<1>9. SlotsFit(n) /\ OnePending(n) /\ ReadyIsDone(n) /\ PendingIsNewest(n) /\ Unissued(n)
  BY <1>4, <1>6, <1>7, <1>8
  DEF Sound, SlotsFit, OnePending, ReadyIsDone, PendingIsNewest, Unissued
<1>10. Sound(Trim(n)) /\ \A g \in Tickets :
         \/ StatusOf(Trim(n), g) = StatusOf(n, g)
         \/ StatusOf(Trim(n), g) = "absent" /\ StatusOf(n, g) \in Terminal
  BY <1>4, <1>9, SoundTrim DEF Sound
<1> QED
  BY <1>5, <1>6, <1>7, <1>10 DEF Fades

\* What a submission leaves: the new ticket, if it is admitted, is the one that
\* is pending.
LEMMA SoundSubmitted ==
    ASSUME NEW m \in Machines, m.generation < MaxTickets, NEW q \in Seqs, NEW a \in Ages, Sound(m)
    PROVE  /\ Sound(Submitted(m, q, a))
           /\ \A g \in Tickets : g # Issued(m) => Fades(m, Submitted(m, q, a), g)
<1> DEFINE g0 == Issued(m)
           refusal == Refusal(m, q, a)
           new == [status |-> IF refusal = "none" THEN "pending" ELSE refusal, inference |-> "no"]
           filed == [m.records EXCEPT ![g0] = new]
           superseded == Settle(filed, {m.pending, m.ready}, "superseded")
           refused == [m EXCEPT !.generation = g0, !.records = filed]
           admitted == [m EXCEPT !.generation = g0, !.latest = q, !.pending = g0, !.ready = 0,
                                 !.records = superseded]
<1>1. /\ m.records \in [Tickets -> Records] /\ m.generation \in 0 .. MaxTickets
      /\ m.pending \in 0 .. MaxTickets /\ m.ready \in 0 .. MaxTickets
  BY DEF Machines
<1>2. g0 = m.generation + 1 /\ g0 \in Tickets /\ g0 \in 0 .. MaxTickets /\ 0 \in 0 .. MaxTickets
      /\ q \in 0 .. MaxSeq /\ g0 # 0
  BY <1>1, ChunkAssumption DEF Issued
<1>3. refusal \in {"none", "rejected", "expired"}
  BY DEF Refusal
<1> HIDE DEF g0, refusal
<1>4. /\ new \in Records /\ new.inference = "no"
      /\ new.status = IF refusal = "none" THEN "pending" ELSE refusal
  BY <1>3 DEF Records, Statuses, Terminal
<1> HIDE DEF new
<1>5. filed \in [Tickets -> Records] /\ \A g \in Tickets : filed[g] = IF g = g0 THEN new ELSE m.records[g]
  BY <1>1, <1>2, <1>4
<1> HIDE DEF filed
<1>6. superseded \in [Tickets -> Records] /\ \A g \in Tickets :
        /\ superseded[g].inference = filed[g].inference
        /\ superseded[g].status = IF g \in {m.pending, m.ready} THEN "superseded" ELSE filed[g].status
  <2>1. filed \in [Tickets -> Records] /\ "superseded" \in Terminal
    BY <1>5 DEF Terminal
  <2> HIDE DEF refused, admitted
  <2> QED
    BY ONLY <2>1 DEF Settle, Records, Statuses, Terminal
<1> HIDE DEF superseded
<1>7. /\ StatusOf(m, g0) = "absent" /\ g0 # m.pending /\ g0 # m.ready
      /\ \A g \in Tickets : g > g0 => StatusOf(m, g) = "absent"
      /\ \A g \in Tickets : g # 0
  BY <1>1, <1>2, ChunkAssumption DEF Sound, SlotsFit, Unissued
<1>8. CASE refusal # "none"
  <2>1. /\ refused \in Machines /\ refused.generation = g0 /\ refused.ready = m.ready
        /\ refused.pending = m.pending /\ refused.records = filed
    BY <1>2, <1>5 DEF Machines
  <2>2. Submitted(m, q, a) = Trim(refused)
    BY <1>8 DEF Submitted, refusal, g0, filed, new
  <2> HIDE DEF refused
  <2>3. \A g \in Tickets : /\ StatusOf(refused, g) = IF g = g0 THEN refusal ELSE StatusOf(m, g)
                           /\ Running(refused, g) => Running(m, g) /\ g # g0
    BY <1>4, <1>5, <1>8, <2>1 DEF StatusOf, Running
  <2>4. SlotsFit(refused)
    BY <1>1, <1>7, <2>1, <2>3 DEF Sound, SlotsFit
  <2>5. OnePending(refused) /\ ReadyIsDone(refused)
    BY <1>3, <1>8, <2>1, <2>3 DEF Sound, OnePending, ReadyIsDone
  <2>6. PendingIsNewest(refused)
    BY <1>3, <1>8, <2>3 DEF Sound, PendingIsNewest
  <2>7. Unissued(refused)
    BY <1>2, <1>7, <2>1, <2>3 DEF Unissued
  <2>8. Sound(Trim(refused)) /\ \A g \in Tickets :
          \/ StatusOf(Trim(refused), g) = StatusOf(refused, g)
          \/ StatusOf(Trim(refused), g) = "absent" /\ StatusOf(refused, g) \in Terminal
    BY <2>1, <2>4, <2>5, <2>6, <2>7, SoundTrim DEF Sound
  <2> QED
    BY <2>2, <2>3, <2>8 DEF Fades, g0
<1>9. CASE refusal = "none"
  <2>1. /\ admitted \in Machines /\ admitted.generation = g0 /\ admitted.ready = 0
        /\ admitted.pending = g0 /\ admitted.records = superseded
    BY <1>2, <1>6 DEF Machines
  <2>2. Submitted(m, q, a) = Trim(admitted)
    BY <1>9 DEF Submitted, refusal, g0, filed, new, superseded
  <2> HIDE DEF admitted
  <2>3. \A g \in Tickets :
          /\ StatusOf(admitted, g) = IF g = g0 THEN "pending"
                                     ELSE IF g \in {m.pending, m.ready} THEN "superseded"
                                     ELSE StatusOf(m, g)
          /\ Running(admitted, g) => Running(m, g) /\ g # g0
    BY <1>4, <1>5, <1>6, <1>7, <1>9, <2>1 DEF StatusOf, Running
  <2>4. \A g \in Tickets : StatusOf(admitted, g) = "pending" => g = g0
    BY <2>3 DEF Sound, OnePending
  <2>5. SlotsFit(admitted) /\ OnePending(admitted) /\ ReadyIsDone(admitted)
    BY <1>2, <2>1, <2>3, <2>4 DEF Sound, SlotsFit, OnePending, ReadyIsDone
  <2>6. \A g \in Tickets : g > g0 => StatusOf(admitted, g) = "absent"
    <3>1. \A g \in Tickets : g \in {m.pending, m.ready} => StatusOf(m, g) # "absent"
      BY <1>7 DEF Sound, SlotsFit
    <3> QED
      BY <1>2, <1>7, <2>3, <3>1
  <2>7. PendingIsNewest(admitted) /\ Unissued(admitted)
    BY <2>1, <2>4, <2>6 DEF PendingIsNewest, Unissued
  <2>8. Sound(Trim(admitted)) /\ \A g \in Tickets :
          \/ StatusOf(Trim(admitted), g) = StatusOf(admitted, g)
          \/ StatusOf(Trim(admitted), g) = "absent" /\ StatusOf(admitted, g) \in Terminal
    BY <2>1, <2>5, <2>7, SoundTrim DEF Sound
  <2>9. \A g \in Tickets : StatusOf(m, g) \in {"absent", "rejected"} => g \notin {m.pending, m.ready}
    BY <1>7 DEF Sound, SlotsFit
  <2> QED
    BY <2>2, <2>3, <2>8, <2>9 DEF Fades, g0
<1> QED
  BY <1>8, <1>9

\* Starting a pending ticket changes no status.
LEMMA SoundMarkStarted ==
    ASSUME NEW m \in Machines, NEW j \in Tickets, Sound(m), StatusOf(m, j) = "pending"
    PROVE  Sound(MarkStarted(m, j)) /\ \A g \in Tickets : Fades(m, MarkStarted(m, j), g)
<1>1. MarkStarted(m, j).ready = m.ready
  BY DEF MarkStarted, Machines
<1>2. m.pending \in 0 .. MaxTickets /\ m.ready \in 0 .. MaxTickets
  BY DEF Machines
<1> QED
  BY <1>1, <1>2, MarkStartedFacts, ChunkAssumption
  DEF Sound, SlotsFit, OnePending, ReadyIsDone, PendingIsNewest, Unissued, Fades

--------------------------------------------------------------------------------
(* The answers given for the tickets.                                      *)

\* Nothing a barrier is up for or a control has invalidated is pending, a request
\* whose inference timed out or was discarded is answered, and a session that lost
\* a request has stopped.
LedgerInv ==
  /\ Sound(sm)
  /\ Busy \/ job.ticket = 0
  /\ \A g \in Tickets : barrier \/ g \in invalidated => StatusOf(sm, g) # "pending"
  /\ invalidated \subseteq 1 .. sm.generation
  /\ control # NoControl => invalidated = 1 .. sm.generation
  /\ runner \in {"late", "discard", "recover"} => answer[job.ticket] # "none"
  /\ LossStopsSession

\* What DeliveryRespectsBarriers asks of one step.
Delivered ==
  \A g \in Tickets :
    answer[g] = "none" /\ answer'[g] = "chunk" =>
      /\ ~barrier /\ g \notin invalidated
      /\ \A k \in Tickets : k > g => StatusOf(sm, k) \in {"absent", "rejected", "expired"}
      /\ policy.episode = sm.episode

\* The runner stops: the waiting request is answered, or it was forgotten and
\* the session stops too.
Drops(machine, answers) ==
  /\ runner' = "none" /\ job' = NoJob /\ waiting' = NoJob /\ sm' = machine
  /\ accepting' => accepting
  /\ waiting # NoJob =>
       \/ answer'[waiting.ticket] # "none"
       \/ ~accepting' /\ StatusOf(machine, waiting.ticket) = "absent"
  /\ \A g \in Tickets : \/ answer'[g] = answers[g]
                        \/ answers[g] = "none" /\ answer'[g] \notin {"none", "chunk"}

\* What is known of the requests in hand.
LEMMA HandFacts ==
    ASSUME TypeOK, SessionInv, LedgerInv
    PROVE  /\ sm.generation \in 0 .. MaxTickets /\ sm \in Machines
           /\ waiting.ticket \in 0 .. MaxTickets /\ (waiting = NoJob => waiting.ticket = 0)
           /\ waiting # NoJob => waiting.ticket \in Tickets /\ waiting.ticket \in 1 .. sm.generation
           /\ job.ticket \in 0 .. MaxTickets /\ (Busy => job.ticket \in Tickets)
           /\ job.ticket # 0 => Busy /\ runner # "none"
           /\ NoJob.ticket = 0 /\ 0 \notin Tickets
           /\ 1 .. sm.generation \subseteq Tickets
<1>1. sm.generation \in 0 .. MaxTickets /\ sm \in Machines
  BY DEF TypeOK, Machines
<1>2. 1 .. sm.generation \subseteq Tickets /\ 0 \notin Tickets
  BY <1>1, ChunkAssumption
<1>3. waiting.ticket \in 0 .. MaxTickets /\ job.ticket \in 0 .. MaxTickets /\ NoJob.ticket = 0
  BY DEF TypeOK, Jobs, NoJob
<1>4. (waiting # NoJob => waiting.ticket \in 1 .. sm.generation) /\ (Busy => job.ticket \in 1 .. sm.generation)
  BY DEF SessionInv, KnownJobs
<1>5. job.ticket # 0 => Busy /\ runner # "none"
  BY DEF LedgerInv, Busy
<1> QED
  BY <1>1, <1>2, <1>3, <1>4, <1>5

\* The exception path of the runner drops its requests.
LEMMA CrashDrops ==
    ASSUME TypeOK, SessionInv, LedgerInv, NEW machine, NEW answers \in [Tickets -> Answers],
           Crash(machine, answers)
    PROVE  Drops(machine, answers) /\ ~accepting'
<1>1. /\ answer' = Resolve(answers, waiting.ticket, "error") /\ "error" \in Answers
      /\ waiting.ticket \in 0 .. MaxTickets /\ (waiting # NoJob => waiting.ticket \in Tickets)
  BY HandFacts DEF Crash, Answers
<1>2. \A k \in Tickets : answer'[k] =
        IF k = waiting.ticket /\ answers[k] = "none" THEN "error" ELSE answers[k]
  BY <1>1, ResolveFacts
<1> QED
  BY <1>1, <1>2 DEF Crash, Drops

\* An iteration of the loop drops its requests or takes the waiting one.
LEMMA IterateDrops ==
    ASSUME TypeOK, SessionInv, LedgerInv, NEW machine, NEW answers \in [Tickets -> Answers],
           Iterate(machine, answers)
    PROVE  Drops(machine, answers) \/ Takes(machine, answers)
<1>1. /\ "superseded" \in Answers
      /\ waiting.ticket \in 0 .. MaxTickets /\ (waiting # NoJob => waiting.ticket \in Tickets)
  BY HandFacts DEF Answers
<1>2. \A k \in Tickets : Resolve(answers, waiting.ticket, "superseded")[k] =
        IF k = waiting.ticket /\ answers[k] = "none" THEN "superseded" ELSE answers[k]
  BY <1>1, ResolveFacts
<1>3. CASE waiting = NoJob /\ RunnerEnds(machine, answers)
  BY <1>3 DEF RunnerEnds, Drops
<1>4. CASE TakeWaiting(machine, answers)
  <2>1. CASE /\ StatusOf(machine, waiting.ticket) = "absent"
             /\ sm' = machine /\ answer' = answers
             /\ accepting' = FALSE
             /\ job' = NoJob /\ runner' = "none"
    BY <1>4, <2>1 DEF TakeWaiting, Drops
  <2>2. CASE /\ sm' = machine /\ answer' = Resolve(answers, waiting.ticket, "superseded")
             /\ job' = NoJob /\ runner' = "none"
             /\ UNCHANGED accepting
    BY <1>1, <1>2, <1>4, <2>2 DEF TakeWaiting, Drops
  <2>3. CASE /\ StatusOf(machine, waiting.ticket) = "pending"
             /\ sm' = MarkStarted(machine, waiting.ticket) /\ answer' = answers
             /\ job' = waiting /\ runner' = "predict"
             /\ UNCHANGED accepting
    BY <1>4, <2>3 DEF TakeWaiting, Takes
  <2> QED
    BY <1>4, <2>1, <2>2, <2>3 DEF TakeWaiting
<1> QED
  BY <1>3, <1>4 DEF Iterate

\* A session that takes requests again has lost none, if only the requests a
\* step drops itself are new among the lost ones.
LEMMA LossFrame ==
    ASSUME TypeOK, LossStopsSession, sm'.generation = sm.generation,
           \A g \in invalidated : g \in invalidated',
           \A g \in Tickets : Fades(sm, sm', g),
           accepting' => accepting,
           \A g \in Lost' : \/ g \in Lost
                            \/ StatusOf(sm', g) \in {"absent", "rejected"} /\ ~accepting'
    PROVE  LossStopsSession'
<1>1. sm.generation \in 0 .. MaxTickets
  BY DEF TypeOK, Machines
<1>2. \A g \in Lost' : g \in Tickets
  BY <1>1, ChunkAssumption DEF Lost
<1> QED
  BY <1>2 DEF LossStopsSession, Fades

\* A step of the runner after which the work left (machine, answers).
LEMMA RunnerLedger ==
    ASSUME TypeOK, SessionInv, LedgerInv, runner # "none",
           NEW machine \in Machines, NEW answers \in [Tickets -> Answers],
           Sound(machine), machine.generation = sm.generation,
           \A g \in Tickets : Fades(sm, machine, g),
           \A g \in Tickets : \/ answers[g] = answer[g]
                              \/ Busy /\ g = job.ticket /\ answers[g] # "none",
           UNCHANGED <<barrier, control, invalidated>>,
           \/ /\ Crash(machine, answers)
              /\ Busy => \/ answers[job.ticket] # "none"
                         \/ StatusOf(machine, job.ticket) \in {"absent", "rejected"}
           \/ Iterate(machine, answers) /\ (Busy => answers[job.ticket] # "none")
           \/ Pauses(machine, answers) /\ answers[job.ticket] # "none"
    PROVE  /\ LedgerInv'
           /\ \A g \in Tickets : answer[g] = "none" /\ answer'[g] = "chunk" =>
                Busy /\ g = job.ticket /\ answers[g] = "chunk"
<1>1. /\ sm'.generation = sm.generation /\ Sound(sm')
      /\ \A g \in Tickets : Fades(sm, sm', g) /\ StatusOf(sm', g) = StatusOf(machine, g)
      /\ accepting' => accepting
      /\ \A g \in Tickets : \/ answer'[g] = answers[g]
                            \/ answers[g] = "none" /\ answer'[g] \notin {"none", "chunk"}
  <2>1. CASE Drops(machine, answers) \/ Pauses(machine, answers)
    <3>1. sm' = machine /\ (accepting' => accepting)
      BY <2>1 DEF Drops, Pauses
    <3>2. \A g \in Tickets : \/ answer'[g] = answers[g]
                             \/ answers[g] = "none" /\ answer'[g] \notin {"none", "chunk"}
      BY <2>1 DEF Drops, Pauses
    <3>3. Sound(sm') /\ \A g \in Tickets : Fades(sm, sm', g) /\ StatusOf(sm', g) = StatusOf(machine, g)
      BY <3>1
    <3> QED
      BY <3>1, <3>2, <3>3
  <2>2. CASE Takes(machine, answers)
    <3>1. /\ waiting.ticket \in Tickets /\ StatusOf(machine, waiting.ticket) = "pending"
          /\ sm' = MarkStarted(machine, waiting.ticket) /\ answer' = answers /\ accepting' = accepting
      BY <2>2, HandFacts DEF Takes
    <3>2. /\ Sound(sm') /\ sm'.generation = machine.generation
          /\ \A g \in Tickets : StatusOf(sm', g) = StatusOf(machine, g)
      BY <3>1, SoundMarkStarted, MarkStartedFacts
    <3> QED
      BY <3>1, <3>2 DEF Fades
  <2> QED
    BY <2>1, <2>2, CrashDrops, IterateDrops
<1>2. \A g \in Tickets : answer[g] # "none" => answer'[g] # "none"
  BY <1>1
<1>3. \A g \in Lost' : \/ g \in Lost
                       \/ StatusOf(sm', g) \in {"absent", "rejected"} /\ ~accepting'
  <2> SUFFICES ASSUME NEW g \in Lost', g \notin Lost
               PROVE  StatusOf(sm', g) \in {"absent", "rejected"} /\ ~accepting'
    OBVIOUS
  <2>1. /\ g \in 1 .. sm.generation /\ g \in Tickets /\ answer'[g] = "none" /\ g # 0
        /\ g # waiting'.ticket /\ (runner' = "none" \/ g # job'.ticket)
    BY <1>1, HandFacts DEF Lost
  <2>2. answer[g] = "none" /\ answers[g] = "none"
    BY <1>1, <1>2, <2>1
  <2>3. (g = waiting.ticket /\ waiting # NoJob) \/ (g = job.ticket /\ Busy)
    BY <2>1, <2>2, HandFacts DEF Lost
  <2>4. CASE Crash(machine, answers)
    <3>1. Drops(machine, answers) /\ ~accepting' /\ sm' = machine
      BY <2>4, CrashDrops DEF Drops
    <3>2. Busy => \/ answers[job.ticket] # "none"
                  \/ StatusOf(machine, job.ticket) \in {"absent", "rejected"}
      BY <2>4
    <3> QED
      BY <2>1, <2>2, <2>3, <3>1, <3>2 DEF Drops
  <2>5. CASE Iterate(machine, answers) /\ (Busy => answers[job.ticket] # "none")
    <3>1. g = waiting.ticket /\ waiting # NoJob
      BY <2>2, <2>3, <2>5
    <3>2. CASE Takes(machine, answers)
      BY <2>1, <3>1, <3>2 DEF Takes
    <3>3. CASE Drops(machine, answers)
      BY <2>1, <3>1, <3>3 DEF Drops
    <3> QED
      BY <2>5, <3>2, <3>3, IterateDrops
  <2>6. CASE Pauses(machine, answers)
    BY <2>1, <2>3, <2>6 DEF Pauses
  <2> QED
    BY <2>4, <2>5, <2>6
<1>4. LossStopsSession'
  BY <1>1, <1>3, LossFrame DEF LedgerInv
<1>5. Busy' \/ job'.ticket = 0
  <2>1. Drops(machine, answers) \/ Takes(machine, answers) \/ Pauses(machine, answers)
    BY CrashDrops, IterateDrops
  <2> QED
    BY <2>1, HandFacts DEF Drops, Takes, Pauses, Busy
<1>6. runner' \in {"late", "discard", "recover"} => answer'[job'.ticket] # "none"
  <2>1. CASE Drops(machine, answers) \/ Takes(machine, answers)
    BY <2>1 DEF Drops, Takes
  <2>2. CASE Pauses(machine, answers) /\ answers[job.ticket] # "none"
    BY <2>2 DEF Pauses
  <2> QED
    BY <2>1, <2>2, CrashDrops, IterateDrops
<1>7. \A g \in Tickets : barrier' \/ g \in invalidated' => StatusOf(sm', g) # "pending"
  BY <1>1 DEF LedgerInv, Fades
<1>8. /\ invalidated' \subseteq 1 .. sm'.generation
      /\ control' # NoControl => invalidated' = 1 .. sm'.generation
  BY <1>1 DEF LedgerInv
<1>9. \A g \in Tickets : answer[g] = "none" /\ answer'[g] = "chunk" =>
        Busy /\ g = job.ticket /\ answers[g] = "chunk"
  BY <1>1
<1> QED
  BY <1>1, <1>4, <1>5, <1>6, <1>7, <1>8, <1>9 DEF LedgerInv

\* A step of the runner that delivers nothing.
LEMMA SilentLedger ==
    ASSUME TypeOK, SessionInv, LedgerInv, runner # "none",
           NEW machine \in Machines, NEW answers \in [Tickets -> Answers],
           Sound(machine), machine.generation = sm.generation,
           \A g \in Tickets : Fades(sm, machine, g),
           \A g \in Tickets : \/ answers[g] = answer[g]
                              \/ Busy /\ g = job.ticket /\ answers[g] \notin {"none", "chunk"},
           UNCHANGED <<barrier, control, invalidated>>,
           Busy => answers[job.ticket] # "none",
           Crash(machine, answers) \/ Iterate(machine, answers) \/ Pauses(machine, answers)
    PROVE  LedgerInv' /\ Delivered
<1>1. Pauses(machine, answers) => Busy
  BY DEF Pauses
<1>2. /\ LedgerInv'
      /\ \A g \in Tickets : answer[g] = "none" /\ answer'[g] = "chunk" =>
           Busy /\ g = job.ticket /\ answers[g] = "chunk"
  BY <1>1, RunnerLedger
<1> QED
  BY <1>2 DEF Delivered

\* The runner starts: it serves no request yet.
LEMMA StartsLedger ==
    ASSUME TypeOK, SessionInv, LedgerInv, RunnerStarts
    PROVE  LedgerInv' /\ Delivered
<1>1. ~Busy /\ runner # "none" /\ Iterate(sm, answer) /\ UNCHANGED <<barrier, control, invalidated>>
  BY DEF RunnerStarts, Busy
<1>2. sm \in Machines /\ answer \in [Tickets -> Answers] /\ Sound(sm)
  BY BusyFacts DEF LedgerInv
<1>3. \A g \in Tickets : Fades(sm, sm, g)
  BY DEF Fades
<1> QED
  BY <1>1, <1>2, <1>3, SilentLedger

\* The answer of the request being served, which it has not got yet.
LEMMA AnswerServed ==
    ASSUME TypeOK, SessionInv, LedgerInv, runner = "predict", NEW o \in Answers
    PROVE  /\ Busy /\ job.ticket \in Tickets /\ answer[job.ticket] = "none"
           /\ Running(sm, job.ticket)
           /\ Resolve(answer, job.ticket, o) \in [Tickets -> Answers]
           /\ \A g \in Tickets : Resolve(answer, job.ticket, o)[g] =
                IF g = job.ticket THEN o ELSE answer[g]
<1>1. Busy /\ job.ticket \in Tickets /\ job.ticket \in 0 .. MaxTickets
  BY HandFacts DEF Busy
<1>2. answer[job.ticket] = "none" /\ Running(sm, job.ticket)
  BY <1>1 DEF SessionInv, CleanInv, InferenceIsProtected, Running
<1> QED
  BY <1>1, <1>2, ResolveFacts, BusyFacts

\* The one step that delivers: the ticket was pending, so no barrier is up, it
\* is not invalidated and nothing newer was admitted.
LEMMA ReturnsLedger ==
    ASSUME TypeOK, SessionInv, LedgerInv, NEW x \in BOOLEAN, PredictReturns(x)
    PROVE  LedgerInv' /\ Delivered
<1> DEFINE machine == Complete(sm, job.ticket, policy.episode, x)
           status == StatusOf(machine, job.ticket)
           Outcome == IF status \in {"ready", "expired"}
                        THEN [ready |-> "chunk", expired |-> "expired"][status]
                        ELSE "superseded"
           answers == Resolve(answer, job.ticket, Outcome)
           misfit == Misfit(sm, job.ticket, policy.episode)
<1>1. /\ runner = "predict" /\ UNCHANGED <<barrier, control, invalidated>>
      /\ \/ (misfit \/ status = "absent") /\ Crash(machine, answer)
         \/ Iterate(machine, answers)
         \/ /\ sm' = machine /\ answer' = answers
            /\ runner' = "discard"
            /\ UNCHANGED <<waiting, job, accepting>>
  BY DEF PredictReturns
<1>2. /\ Outcome \in Answers \ {"none"} /\ (Outcome = "chunk" => status = "ready")
  BY DEF Answers
<1>3. /\ job.ticket \in Tickets /\ Busy /\ Running(sm, job.ticket)
      /\ answer[job.ticket] = "none"
  BY <1>1, AnswerServed DEF Answers
<1>4. answers \in [Tickets -> Answers] /\ \A g \in Tickets : answers[g] = IF g = job.ticket THEN Outcome ELSE answer[g]
  <2> HIDE DEF Outcome
  <2> QED
    BY <1>1, <1>2, AnswerServed
<1>5. sm \in Machines /\ policy.episode \in Episodes /\ answer \in [Tickets -> Answers] /\ Sound(sm)
  BY BusyFacts DEF LedgerInv
<1>6. /\ machine \in Machines /\ machine.generation = sm.generation
  BY <1>3, <1>5, CompleteFollows DEF Follows
<1>7. /\ Sound(machine) /\ \A g \in Tickets : Fades(sm, machine, g)
      /\ misfit => status \in {"absent", "rejected"}
      /\ status = "ready" => StatusOf(sm, job.ticket) = "pending" /\ policy.episode = sm.episode
  BY <1>3, <1>5, SoundComplete
<1> HIDE DEF machine, status, Outcome, answers, misfit
<1>8. CASE (misfit \/ status = "absent") /\ Crash(machine, answer)
  <2>1. StatusOf(machine, job.ticket) \in {"absent", "rejected"}
    BY <1>7, <1>8 DEF status
  <2>2. /\ LedgerInv'
        /\ \A g \in Tickets : answer[g] = "none" /\ answer'[g] = "chunk" =>
             Busy /\ g = job.ticket /\ answer[g] = "chunk"
    BY <1>1, <1>3, <1>5, <1>6, <1>7, <1>8, <2>1, RunnerLedger
  <2> QED
    BY <2>2 DEF Delivered
<1>9. CASE Iterate(machine, answers) \/ Pauses(machine, answers)
  <2>1. answers[job.ticket] # "none"
    BY <1>2, <1>3, <1>4
  <2>2. \A g \in Tickets : answers[g] = answer[g] \/ (Busy /\ g = job.ticket /\ answers[g] # "none")
    BY <1>2, <1>3, <1>4
  <2>3. /\ LedgerInv'
        /\ \A g \in Tickets : answer[g] = "none" /\ answer'[g] = "chunk" =>
             Busy /\ g = job.ticket /\ answers[g] = "chunk"
    BY <1>1, <1>4, <1>6, <1>7, <1>9, <2>1, <2>2, RunnerLedger
  <2>4. ASSUME NEW g \in Tickets, answer[g] = "none", answer'[g] = "chunk"
        PROVE  /\ g = job.ticket /\ StatusOf(sm, g) = "pending" /\ policy.episode = sm.episode
    BY <1>2, <1>4, <1>7, <2>3, <2>4
  <2> QED
    BY <2>3, <2>4 DEF Delivered, LedgerInv, Sound, PendingIsNewest
<1>10. \/ (misfit \/ status = "absent") /\ Crash(machine, answer)
       \/ Iterate(machine, answers) \/ Pauses(machine, answers)
  BY <1>1, <1>3 DEF Pauses
<1> QED
  BY <1>8, <1>9, <1>10

\* A failed inference answers its request with the error.
LEMMA RaisesLedger ==
    ASSUME TypeOK, SessionInv, LedgerInv, NEW touched \in BOOLEAN, PredictRaises(touched)
    PROVE  LedgerInv' /\ Delivered
<1> DEFINE machine == Reject(sm, job.ticket)
           answers == Resolve(answer, job.ticket, "error")
<1>1. /\ runner = "predict" /\ UNCHANGED <<barrier, control, invalidated>>
      /\ Iterate(machine, answers)
  BY DEF PredictRaises
<1>2. /\ Busy /\ job.ticket \in Tickets /\ answers \in [Tickets -> Answers]
      /\ \A g \in Tickets : answers[g] = IF g = job.ticket THEN "error" ELSE answer[g]
  BY <1>1, AnswerServed DEF Answers
<1>3. sm \in Machines /\ Sound(sm)
  BY BusyFacts DEF LedgerInv
<1>4. /\ machine \in Machines /\ machine.generation = sm.generation /\ Sound(machine)
      /\ \A g \in Tickets : Fades(sm, machine, g)
  BY <1>2, <1>3, RejectFollows, SoundReject DEF Follows
<1> HIDE DEF machine, answers
<1> QED
  BY <1>1, <1>2, <1>4, SilentLedger

\* A timeout answers its request; the call goes on.
LEMMA TimesOutLedger ==
    ASSUME TypeOK, SessionInv, LedgerInv, PredictTimesOut
    PROVE  LedgerInv' /\ Delivered
<1>1. /\ runner = "predict" /\ runner' = "late"
      /\ answer' = Resolve(answer, job.ticket, "timeout")
      /\ UNCHANGED <<sm, waiting, job, accepting, barrier, control, invalidated>>
  BY DEF PredictTimesOut
<1>2. /\ Busy /\ job.ticket \in Tickets
      /\ \A g \in Tickets : answer'[g] = IF g = job.ticket THEN "timeout" ELSE answer[g]
  BY <1>1, AnswerServed DEF Answers
<1>3. \A g \in Tickets : Fades(sm, sm', g)
  BY <1>1 DEF Fades
<1>4. \A g \in Lost' : g \in Lost
  <2> SUFFICES ASSUME NEW g \in Lost' PROVE g \in Lost
    OBVIOUS
  <2>1. g \in 1 .. sm.generation /\ g \in Tickets /\ answer'[g] = "none" /\ g # waiting.ticket
    BY <1>1, HandFacts DEF Lost
  <2> QED
    BY <1>2, <2>1 DEF Lost
<1>5. LossStopsSession'
  BY <1>1, <1>3, <1>4, LossFrame DEF LedgerInv
<1>6. LedgerInv'
  BY <1>1, <1>2, <1>5 DEF LedgerInv, Busy
<1> QED
  BY <1>2, <1>6 DEF Delivered

\* The late call ended: its request was answered when it timed out.
LEMMA LateLedger ==
    ASSUME TypeOK, SessionInv, LedgerInv, runner = "late",
           NEW machine \in Machines, Sound(machine), machine.generation = sm.generation,
           \A g \in Tickets : Fades(sm, machine, g),
           AfterLate(machine) \/ Crash(machine, answer),
           UNCHANGED <<barrier, control, invalidated>>
    PROVE  LedgerInv' /\ Delivered
<1>1. Busy /\ answer[job.ticket] # "none" /\ answer \in [Tickets -> Answers]
  BY BusyFacts DEF LedgerInv, Busy
<1>2. Crash(machine, answer) \/ Iterate(machine, answer) \/ Pauses(machine, answer)
  BY <1>1 DEF AfterLate, Pauses
<1> QED
  BY <1>1, <1>2, SilentLedger

\* A late result is completed as expired.
LEMMA LateReturnsLedger ==
    ASSUME TypeOK, SessionInv, LedgerInv, LateReturns
    PROVE  LedgerInv' /\ Delivered
<1> DEFINE machine == Complete(sm, job.ticket, policy.episode, TRUE)
<1>1. /\ runner = "late" /\ UNCHANGED <<barrier, control, invalidated>>
      /\ AfterLate(machine) \/ Crash(machine, answer)
  BY DEF LateReturns
<1>2. job.ticket \in Tickets /\ policy.episode \in Episodes /\ sm \in Machines /\ Sound(sm)
  BY <1>1, BusyFacts DEF LedgerInv, Busy
<1>3. /\ machine \in Machines /\ machine.generation = sm.generation /\ Sound(machine)
      /\ \A g \in Tickets : Fades(sm, machine, g)
  <2>1. /\ Follows(sm, job.ticket, machine) /\ Sound(machine)
        /\ \A g \in Tickets : Fades(sm, machine, g)
    BY <1>2, CompleteFollows, SoundComplete, TRUE \in BOOLEAN
  <2> HIDE DEF machine
  <2> QED
    BY <2>1 DEF Follows
<1> HIDE DEF machine
<1> QED
  BY <1>1, <1>3, LateLedger

\* A late failure is rejected.
LEMMA LateRaisesLedger ==
    ASSUME TypeOK, SessionInv, LedgerInv, NEW touched \in BOOLEAN, LateRaises(touched)
    PROVE  LedgerInv' /\ Delivered
<1> DEFINE machine == Reject(sm, job.ticket)
<1>1. runner = "late" /\ UNCHANGED <<barrier, control, invalidated>> /\ AfterLate(machine)
  BY DEF LateRaises
<1>2. job.ticket \in Tickets /\ sm \in Machines /\ Sound(sm)
  BY <1>1, BusyFacts DEF LedgerInv, Busy
<1>3. /\ machine \in Machines /\ machine.generation = sm.generation /\ Sound(machine)
      /\ \A g \in Tickets : Fades(sm, machine, g)
  BY <1>2, RejectFollows, SoundReject DEF Follows
<1> HIDE DEF machine
<1> QED
  BY <1>1, <1>3, LateLedger

\* Both resets of the backend: the request was answered before.
LEMMA ResetLedger ==
    ASSUME TypeOK, SessionInv, LedgerInv, NEW ok \in BOOLEAN, DiscardReset(ok) \/ RecoverReset(ok)
    PROVE  LedgerInv' /\ Delivered
<1>1. /\ runner \in {"discard", "recover"} /\ Busy /\ answer[job.ticket] # "none"
      /\ answer \in [Tickets -> Answers] /\ sm \in Machines /\ Sound(sm) /\ sm.episode \in Episodes
  BY BusyFacts DEF DiscardReset, RecoverReset, LedgerInv, Busy, Machines
<1>2. UNCHANGED <<barrier, control, invalidated>>
  BY DEF DiscardReset, RecoverReset
<1>3. \/ Crash(sm, answer) \/ Iterate(sm, answer)
      \/ Iterate(Reset(sm, sm.episode), answer)
  BY DEF DiscardReset, RecoverReset
<1>4. CASE Crash(sm, answer) \/ Iterate(sm, answer)
  <2>1. \A g \in Tickets : Fades(sm, sm, g)
    BY DEF Fades
  <2> QED
    BY <1>1, <1>2, <1>4, <2>1, SilentLedger
<1>5. CASE Iterate(Reset(sm, sm.episode), answer)
  <2> DEFINE machine == Reset(sm, sm.episode)
  <2>1. /\ machine \in Machines /\ machine.generation = sm.generation /\ Sound(machine)
        /\ \A g \in Tickets : Fades(sm, machine, g)
    BY <1>1, ResetFacts, SoundReset
  <2>2. Iterate(machine, answer)
    BY <1>5
  <2> HIDE DEF machine
  <2> QED
    BY <1>1, <1>2, <2>1, <2>2, SilentLedger
<1> QED
  BY <1>3, <1>4, <1>5

\* A refused request is answered at once; an admitted one takes the place of the
\* waiting one, which is answered.
LEMMA SubmitLedger ==
    ASSUME TypeOK, SessionInv, LedgerInv, NEW q \in Seqs, NEW ttl \in BOOLEAN, NEW a \in Ages,
           SubmitRequest(q, ttl, a)
    PROVE  LedgerInv' /\ Delivered
<1> DEFINE g0 == Issued(sm)
           refusal == Refusal(sm, q, a)
<1>1. /\ accepting /\ sm.generation < MaxTickets /\ sm' = Submitted(sm, q, a) /\ control = NoControl
      /\ UNCHANGED <<job, accepting, barrier, control, policy, invalidated>>
  BY DEF SubmitRequest
<1>2. /\ sm.generation \in 0 .. MaxTickets /\ g0 = sm.generation + 1 /\ g0 \in Tickets
      /\ g0 \in 0 .. MaxTickets
  BY <1>1, HandFacts, ChunkAssumption DEF Issued
<1>3. /\ sm'.generation = g0 /\ Sound(sm')
      /\ \A g \in Tickets : g # g0 => Fades(sm, sm', g)
  BY <1>1, <1>2, HandFacts, SubmittedFacts, SoundSubmitted DEF LedgerInv
<1>4. refusal \in {"none", "rejected", "expired"} /\ answer[g0] = "none"
  BY <1>2 DEF Refusal, SessionInv, CleanInv
<1>5. \/ /\ refusal # "none" /\ answer' = Resolve(answer, g0, refusal) /\ UNCHANGED <<waiting, runner>>
      \/ /\ refusal = "none" /\ answer' = Resolve(answer, waiting.ticket, "superseded")
         /\ waiting'.ticket = g0
         /\ runner' = IF runner = "none" THEN "started" ELSE runner
  BY DEF SubmitRequest
<1> HIDE DEF g0, refusal
<1>6. /\ \A g \in Tickets : answer'[g] = answer[g] \/ answer'[g] \notin {"none", "chunk"}
      /\ refusal # "none" => answer'[g0] # "none"
      /\ refusal = "none" => \A g \in Tickets : g = waiting.ticket => answer'[g] # "none"
  <2>1. waiting.ticket \in 0 .. MaxTickets /\ answer \in [Tickets -> Answers] /\ "superseded" \in Answers
    BY HandFacts, BusyFacts DEF Answers
  <2>2. CASE refusal # "none"
    <3>1. refusal \in Answers
      BY <1>4, <2>2 DEF Answers
    <3>2. \A k \in Tickets : Resolve(answer, g0, refusal)[k] =
            IF k = g0 /\ answer[k] = "none" THEN refusal ELSE answer[k]
      BY <1>2, <2>1, <3>1, ResolveFacts
    <3>3. answer' = Resolve(answer, g0, refusal)
      BY <1>5, <2>2
    <3> QED
      BY <1>2, <1>4, <2>2, <3>2, <3>3
  <2>3. CASE refusal = "none"
    <3>1. \A k \in Tickets : Resolve(answer, waiting.ticket, "superseded")[k] =
            IF k = waiting.ticket /\ answer[k] = "none" THEN "superseded" ELSE answer[k]
      BY <2>1, ResolveFacts
    <3>2. answer' = Resolve(answer, waiting.ticket, "superseded")
      BY <1>5, <2>3
    <3> QED
      BY <2>3, <3>1, <3>2
  <2> QED
    BY <2>2, <2>3
<1>7. Busy' \/ job'.ticket = 0
  BY <1>1, <1>5 DEF LedgerInv, Busy
<1>8. runner' \in {"late", "discard", "recover"} => answer'[job'.ticket] # "none"
  <2> SUFFICES ASSUME runner' \in {"late", "discard", "recover"} PROVE answer'[job.ticket] # "none"
    BY <1>1
  <2>1. runner = runner' /\ job.ticket \in Tickets
    BY <1>5, HandFacts DEF Busy
  <2> QED
    BY <1>6, <2>1 DEF LedgerInv
<1>9. \A g \in Lost' : g \in Lost /\ g # g0
  <2> SUFFICES ASSUME NEW g \in Lost' PROVE g \in Lost /\ g # g0
    OBVIOUS
  <2>1. /\ g \in 1 .. g0 /\ answer'[g] = "none" /\ g # waiting'.ticket
        /\ runner' = "none" \/ g # job.ticket
    BY <1>1, <1>3 DEF Lost
  <2>2. g \in Tickets
    BY <1>2, <2>1, ChunkAssumption
  <2>3. g # g0 /\ g # waiting.ticket /\ answer[g] = "none"
    BY <1>4, <1>5, <1>6, <2>1, <2>2
  <2>4. runner = "none" \/ g # job.ticket
    BY <1>5, <2>1
  <2> QED
    BY <1>2, <2>1, <2>3, <2>4 DEF Lost
<1>10. LossStopsSession'
  <2>1. \A g \in Lost : g \in Tickets
    BY HandFacts DEF Lost
  <2> QED
    BY <1>1, <1>3, <1>9, <2>1 DEF LedgerInv, LossStopsSession, Fades
<1>11. \A g \in Tickets : barrier' \/ g \in invalidated' => StatusOf(sm', g) # "pending"
  <2>1. ~barrier
    BY <1>1 DEF SessionInv, CleanInv
  <2>2. g0 \notin invalidated
    BY <1>2 DEF LedgerInv
  <2> QED
    BY <1>1, <1>3, <2>1, <2>2 DEF LedgerInv, Fades
<1>12. invalidated' \subseteq 1 .. sm'.generation
  BY <1>1, <1>2, <1>3 DEF LedgerInv
<1>13. LedgerInv'
  BY <1>1, <1>3, <1>7, <1>8, <1>10, <1>11, <1>12 DEF LedgerInv
<1> QED
  BY <1>6, <1>13 DEF Delivered

\* A control rejects what is pending and answers what is waiting.
LEMMA BeginLedger ==
    ASSUME TypeOK, SessionInv, LedgerInv, NEW c \in Controls, BeginControl(c)
    PROVE  LedgerInv' /\ Delivered
<1> DEFINE e == IF c.episode = Keep THEN sm.episode ELSE c.episode
<1>1. /\ sm' = Reset(sm, e) /\ answer' = Resolve(answer, waiting.ticket, "unavailable")
      /\ accepting' = FALSE /\ waiting' = NoJob /\ invalidated' = 1 .. sm.generation
      /\ UNCHANGED <<job, runner>>
  BY DEF BeginControl
<1>2. e \in Episodes /\ sm \in Machines /\ Sound(sm)
  BY DEF TypeOK, Machines, Controls, LedgerInv
<1> HIDE DEF e
<1>3. /\ sm'.generation = sm.generation /\ Sound(sm')
      /\ \A g \in Tickets : Fades(sm, sm', g) /\ StatusOf(sm', g) # "pending"
  BY <1>1, <1>2, ResetFacts, SoundReset DEF SessionInv, OrderInv
<1>4. waiting.ticket \in 0 .. MaxTickets /\ answer \in [Tickets -> Answers] /\ "unavailable" \in Answers
  BY HandFacts, BusyFacts DEF Answers
<1>5. \A k \in Tickets : answer'[k] =
        IF k = waiting.ticket /\ answer[k] = "none" THEN "unavailable" ELSE answer[k]
  BY <1>1, <1>4, ResolveFacts
<1>6. \A g \in Lost' : g \in Lost
  <2> SUFFICES ASSUME NEW g \in Lost' PROVE g \in Lost
    OBVIOUS
  <2>1. g \in 1 .. sm.generation /\ g \in Tickets /\ answer'[g] = "none"
        /\ (runner = "none" \/ g # job.ticket)
    BY <1>1, <1>3, HandFacts DEF Lost
  <2> QED
    BY <1>5, <2>1 DEF Lost
<1>7. LossStopsSession'
  <2>1. \A g \in invalidated : g \in invalidated'
    BY <1>1 DEF LedgerInv
  <2> QED
    BY <1>1, <1>3, <1>6, <2>1, LossFrame DEF LedgerInv
<1>8. runner' \in {"late", "discard", "recover"} => answer'[job'.ticket] # "none"
  <2> SUFFICES ASSUME runner \in {"late", "discard", "recover"} PROVE answer'[job.ticket] # "none"
    BY <1>1
  <2>1. job.ticket \in Tickets
    BY HandFacts DEF Busy
  <2> QED
    BY <1>5, <2>1 DEF LedgerInv
<1>9. LedgerInv'
  BY <1>1, <1>3, <1>7, <1>8 DEF LedgerInv, Busy
<1> QED
  BY <1>5, <1>9 DEF Delivered

\* A RESET that ends makes the session accept again: every request lost before
\* it is invalidated.
LEMMA EndLedger ==
    ASSUME TypeOK, SessionInv, LedgerInv, NEW ok \in BOOLEAN, EndControl(ok)
    PROVE  LedgerInv' /\ Delivered
<1> DEFINE e == IF control.episode = Keep THEN sm.episode ELSE control.episode
<1>1. /\ control # NoControl /\ runner = "none" /\ control' = NoControl
      /\ UNCHANGED <<answer, waiting, job, runner, invalidated>>
      /\ \/ UNCHANGED <<sm, barrier, accepting>>
         \/ control.op = "reset" /\ sm' = Reset(sm, e) /\ barrier' = FALSE
  BY DEF EndControl
<1>2. Delivered
  BY <1>1 DEF Delivered
<1>3. CASE UNCHANGED <<sm, barrier, accepting>>
  <2>1. Lost' = Lost
    BY <1>1, <1>3 DEF Lost
  <2>2. LossStopsSession'
    BY <1>1, <1>3, <2>1 DEF LedgerInv, LossStopsSession
  <2> QED
    BY <1>1, <1>2, <1>3, <2>2 DEF LedgerInv, Busy
<1>4. CASE control.op = "reset" /\ sm' = Reset(sm, e) /\ barrier' = FALSE
  <2>1. e \in Episodes /\ sm \in Machines /\ Sound(sm)
    BY <1>1 DEF TypeOK, Machines, Controls, LedgerInv
  <2> HIDE DEF e
  <2>2. /\ sm'.generation = sm.generation /\ Sound(sm')
        /\ \A g \in Tickets : Fades(sm, sm', g)
    BY <1>4, <2>1, ResetFacts, SoundReset
  <2>3. Lost' = Lost
    BY <1>1, <2>2 DEF Lost
  <2>4. \A g \in Lost : g \in Tickets /\ g \in invalidated
    BY <1>1, HandFacts DEF Lost, LedgerInv
  <2>5. LossStopsSession'
    BY <1>1, <2>2, <2>3, <2>4 DEF LedgerInv, LossStopsSession, Fades
  <2>6. \A g \in Tickets : barrier' \/ g \in invalidated' => StatusOf(sm', g) # "pending"
    BY <1>1, <1>4, <2>2 DEF LedgerInv, Fades
  <2> QED
    BY <1>1, <1>2, <2>2, <2>5, <2>6 DEF LedgerInv, Busy
<1> QED
  BY <1>1, <1>3, <1>4

\* A new session has lost nothing.
LEMMA InitLedger == Init => LedgerInv
<1> SUFFICES ASSUME Init PROVE LedgerInv
  OBVIOUS
<1>1. PICK e \in Episodes : sm = NewMachine(e)
  BY DEF Init
<1>2. /\ job = NoJob /\ runner = "none" /\ barrier = FALSE /\ control = NoControl /\ invalidated = {}
  BY DEF Init
<1>3. /\ sm.generation = 0 /\ sm.pending = 0 /\ sm.ready = 0
      /\ \A g \in Tickets : StatusOf(sm, g) = "absent"
  BY <1>1 DEF NewMachine, StatusOf, Absent
<1>4. Sound(sm)
  BY <1>3 DEF Sound, SlotsFit, OnePending, ReadyIsDone, PendingIsNewest, Unissued
<1>5. Lost = {}
  BY <1>3 DEF Lost
<1> QED
  BY <1>2, <1>3, <1>4, <1>5 DEF LedgerInv, LossStopsSession, NoJob

\* Every step keeps the ledger and delivers only what is due.
LEMMA StepLedger ==
    ASSUME TypeOK, SessionInv, LedgerInv, [Next]_vars
    PROVE  LedgerInv' /\ Delivered
<1>1. CASE Receiver
  BY <1>1, SubmitLedger, BeginLedger DEF Receiver
<1>2. CASE Runner
  BY <1>2, StartsLedger, ReturnsLedger, RaisesLedger, TimesOutLedger, LateReturnsLedger,
     LateRaisesLedger, ResetLedger DEF Runner
<1>3. CASE ControlEnds
  BY <1>3, EndLedger DEF ControlEnds
<1>4. CASE UNCHANGED vars
  <2>1. /\ UNCHANGED <<sm, answer, waiting, job, runner, accepting, barrier, control, invalidated>>
    BY <1>4 DEF vars, loop
  <2>2. Lost' = Lost
    BY <2>1 DEF Lost
  <2>3. LossStopsSession'
    BY <2>1, <2>2 DEF LedgerInv, LossStopsSession
  <2> QED
    BY <2>1, <2>3 DEF LedgerInv, Delivered, Busy
<1> QED
  BY <1>1, <1>2, <1>3, <1>4 DEF Next

--------------------------------------------------------------------------------
(* The theorems about the ledger.                                          *)

(* A session that left a request unanswered takes no request before a      *)
(* RESET invalidates the lost one (the lookups of _predict and _run).      *)
THEOREM LossStopsTheSession == Spec => []LossStopsSession
<1>1. LedgerInv => LossStopsSession
  BY DEF LedgerInv
<1>2. TypeOK /\ SessionInv /\ LedgerInv /\ [Next]_vars => LedgerInv'
  BY StepLedger
<1> QED
  BY <1>1, <1>2, InitLedger, SessionIsInvariant, PTL DEF Spec

(* A chunk goes only to the newest admitted request, issued since the last *)
(* RESET, with no barrier up and the episodes agreeing (complete and the   *)
(* status lookup of _predict).                                             *)
THEOREM DeliveriesRespectBarriers == Spec => DeliveryRespectsBarriers
<1>1. TypeOK /\ SessionInv /\ LedgerInv /\ [Next]_vars => LedgerInv'
  BY StepLedger
<1>2. TypeOK /\ SessionInv /\ LedgerInv /\ [Next]_vars => [Delivered]_vars
  BY StepLedger
<1>3. DeliveryRespectsBarriers <=> [][Delivered]_vars
  BY DEF DeliveryRespectsBarriers, Delivered
<1> QED
  BY <1>1, <1>2, <1>3, InitLedger, SessionIsInvariant, PTL DEF Spec
================================================================================
