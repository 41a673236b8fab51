----------------------------- MODULE VlaSession -----------------------------
(***************************************************************************)
(* One VLA session of a WebSocket connection: _SessionRuntime and its      *)
(* connection handler (telefuser/service/vla_session.py), the policy       *)
(* session behind it (VLASession, telefuser/vla/session.py) and the        *)
(* request lifecycle of ActionChunks.                                      *)
(*                                                                         *)
(* Everything but the backend calls runs on one event loop, so an action   *)
(* is the code between two awaits.  Three parties interleave: the          *)
(* connection's receiver (requests, then RESET, CLOSE or the disconnect,   *)
(* which it awaits to their end before it reads on), the runner task and   *)
(* the replica that executes one backend call at a time.                   *)
(***************************************************************************)
EXTENDS ActionChunks

CONSTANT Stateful   \* whether the policy keeps a history between inferences

ASSUME StatefulAssumption == Stateful \in BOOLEAN

VARIABLES
  sm,           \* the ActionChunkStateMachine
  answer,       \* the outcome of each ticket's response future
  waiting,      \* _waiting: the admitted request no runner has taken
  job,          \* the request the runner is serving
  runner,       \* where the runner task stands
  accepting,    \* _accepting
  recovering,   \* _recovering
  barrier,      \* _barrier_active
  control,      \* the RESET, CLOSE or disconnect the receiver is awaiting
  policy,       \* the backend session: episode, last sequence id, inferences in its history
  connection,   \* "open" until the session is closed or the client is gone
  invalidated   \* ghost: tickets issued before the last RESET, CLOSE or disconnect

loop == <<waiting, job, runner, accepting>>
vars == <<sm, answer, loop, recovering, barrier, control, policy, connection,
          invalidated>>

\* A _PredictionJob: the ticket and what the message asked for.
Jobs == [ticket : 0 .. MaxTickets, seq : 0 .. MaxSeq, ttl : BOOLEAN]
NoJob == [ticket |-> 0, seq |-> 0, ttl |-> FALSE]

Keep == "keep"      \* a RESET without an episode id
NoControl == [op |-> "none", episode |-> Keep]
Controls == [op : {"reset", "close", "disconnect"}, episode : Episodes \cup {Keep}]
Answers == {"none", "chunk", "superseded", "expired", "rejected", "timeout", "error",
            "unavailable"}
RunnerStates == {"none", "started", "predict", "late", "discard", "recover"}

Init ==
  /\ \E e \in Episodes : /\ sm = NewMachine(e)
                         /\ policy = [episode |-> e, last |-> 0, history |-> {}]
  /\ answer = [g \in Tickets |-> "none"]
  /\ waiting = NoJob /\ job = NoJob /\ runner = "none"
  /\ accepting = TRUE /\ recovering = FALSE /\ barrier = FALSE
  /\ control = NoControl
  /\ connection = "open"
  /\ invalidated = {}

\* Resolve g's future unless it is already done: _succeed and _fail.
Resolve(answers, g, outcome) ==
  IF g # 0 /\ answers[g] = "none" THEN [answers EXCEPT ![g] = outcome] ELSE answers

-----------------------------------------------------------------------------
(* The runner's loop.                                                      *)

\* Mutant: the exception path forgets to stop admission.
M_CrashKeepsAccepting(machine, answers) ==
  /\ sm' = machine
  /\ answer' = Resolve(answers, waiting.ticket, "error")
  /\ waiting' = NoJob /\ job' = NoJob /\ runner' = "none"
  /\ UNCHANGED accepting

\* An exception left _predict or the status lookup: the session stops
\* accepting and the waiting request, if any, gets the error.
Crash(machine, answers) ==
  /\ sm' = machine
  /\ answer' = Resolve(answers, waiting.ticket, "error")
  /\ accepting' = FALSE
  /\ waiting' = NoJob /\ job' = NoJob /\ runner' = "none"

\* The loop takes the waiting request.  The lookup of a trimmed ticket raises
\* KeyError after the job left the waiting slot.
TakeWaiting(machine, answers) ==
  /\ waiting # NoJob /\ waiting' = NoJob
  /\ \/ /\ StatusOf(machine, waiting.ticket) = "absent"
        /\ sm' = machine /\ answer' = answers
        /\ accepting' = FALSE
        /\ job' = NoJob /\ runner' = "none"
     \/ /\ StatusOf(machine, waiting.ticket) \notin {"absent", "pending"}
        /\ sm' = machine /\ answer' = Resolve(answers, waiting.ticket, "superseded")
        /\ job' = NoJob /\ runner' = "none"
        /\ UNCHANGED accepting
     \/ /\ StatusOf(machine, waiting.ticket) = "pending"
        /\ sm' = MarkStarted(machine, waiting.ticket) /\ answer' = answers
        /\ job' = waiting /\ runner' = "predict"
        /\ UNCHANGED accepting

RunnerEnds(machine, answers) ==
  /\ sm' = machine /\ answer' = answers
  /\ job' = NoJob /\ runner' = "none"
  /\ UNCHANGED <<waiting, accepting>>

\* Mutant: the runner serves one request, `if' for `while'.
M_IterateOnce(machine, answers) ==
  IF runner = "started" THEN TakeWaiting(machine, answers) ELSE RunnerEnds(machine, answers)

\* The next iteration of `while self._waiting is not None', from the state
\* the last one left.
Iterate(machine, answers) ==
  \/ TakeWaiting(machine, answers)
  \/ waiting = NoJob /\ RunnerEnds(machine, answers)

RunnerStarts ==
  /\ runner = "started"
  /\ Iterate(sm, answer)
  /\ UNCHANGED <<recovering, barrier, control, policy, connection, invalidated>>

-----------------------------------------------------------------------------
(* The replica's side of a call (VLASession).                              *)

\* predict refuses a sequence id that does not increase before it runs the policy.
InOrder == policy.last < job.seq
Inferred == [policy EXCEPT !.last = job.seq, !.history = @ \cup {job.ticket}]
\* A failing predict may have run the policy already (validation, decoding).
Touched == [policy EXCEPT !.history = @ \cup {job.ticket}]
\* Mutant: VLASession.reset keeps the ordering state.
M_ClearedKeepsOrder == [policy EXCEPT !.history = {}]

Cleared == [policy EXCEPT !.last = 0, !.history = {}]

-----------------------------------------------------------------------------
(* submit.  A request that arrives while the session is not accepting or   *)
(* is recovering is answered `unavailable' and changes nothing.            *)
SubmitRequest(seq, ttl, age) ==
  LET g == Issued(sm)
      refusal == Refusal(sm, seq, age)
  IN  /\ connection = "open" /\ control = NoControl
      /\ accepting /\ ~recovering
      /\ sm.generation < MaxTickets
      /\ sm' = Submitted(sm, seq, age)
      /\ IF refusal # "none"
           THEN answer' = Resolve(answer, g, refusal) /\ UNCHANGED <<waiting, runner>>
           ELSE /\ answer' = Resolve(answer, waiting.ticket, "superseded")
                /\ waiting' = [ticket |-> g, seq |-> seq, ttl |-> ttl]
                /\ runner' = IF runner = "none" THEN "started" ELSE runner
      /\ UNCHANGED <<job, accepting, recovering, barrier, control, policy, connection,
                     invalidated>>

\* backend.predict returns within the request's TTL, if it has one.  The
\* deadline runs from admission and the wait from the start of the call, so
\* a request that waited can be `expired' all the same.
PredictReturns(expired) ==
  LET machine == Complete(sm, job.ticket, policy.episode, expired)
      status == StatusOf(machine, job.ticket)
      Outcome == IF status \in {"ready", "expired"}
                   THEN [ready |-> "chunk", expired |-> "expired"][status]
                   ELSE "superseded"
      answers == Resolve(answer, job.ticket, Outcome)
  IN  /\ runner = "predict" /\ InOrder
      /\ expired => job.ttl
      /\ policy' = Inferred
      /\ \/ /\ Misfit(sm, job.ticket, policy.episode) \/ status = "absent"
            /\ Crash(machine, answer)
         \/ /\ ~Misfit(sm, job.ticket, policy.episode) /\ status # "absent"
            /\ status = "ready" \/ ~Stateful \/ barrier
            /\ Iterate(machine, answers)
         \/ /\ ~Misfit(sm, job.ticket, policy.episode) /\ status \notin {"absent", "ready"}
            /\ Stateful /\ ~barrier
            /\ sm' = machine /\ answer' = answers
            /\ runner' = "discard"
            /\ UNCHANGED <<waiting, job, accepting>>
      /\ UNCHANGED <<recovering, barrier, control, connection, invalidated>>

\* backend.predict raises within the TTL, before or after the policy ran.
PredictRaises(touched) ==
  /\ runner = "predict"
  /\ touched => InOrder
  /\ policy' = IF touched THEN Touched ELSE policy
  /\ Iterate(Reject(sm, job.ticket), Resolve(answer, job.ticket, "error"))
  /\ UNCHANGED <<recovering, barrier, control, connection, invalidated>>

\* The TTL elapses first; the shielded call goes on.
PredictTimesOut ==
  /\ runner = "predict" /\ job.ttl
  /\ recovering' = TRUE
  /\ answer' = Resolve(answer, job.ticket, "timeout")
  /\ runner' = "late"
  /\ UNCHANGED <<sm, waiting, job, accepting, barrier, control, policy, connection,
                 invalidated>>

\* Mutants: no reset after a late result; a runner that waits for the barrier.
M_AfterLateNoReset(machine) == recovering' = FALSE /\ Iterate(machine, answer)
M_AfterLateWaits(machine) ==
  /\ ~barrier
  /\ runner' = "recover"
  /\ sm' = machine
  /\ UNCHANGED <<answer, waiting, job, accepting, recovering>>

\* The late call ends: under a barrier the runner goes on, otherwise it resets
\* the backend first.
AfterLate(machine) ==
  IF barrier
    THEN recovering' = FALSE /\ Iterate(machine, answer)
    ELSE /\ runner' = "recover"
         /\ sm' = machine
         /\ UNCHANGED <<answer, waiting, job, accepting, recovering>>

LateReturns ==
  LET machine == Complete(sm, job.ticket, policy.episode, TRUE)
  IN  /\ runner = "late" /\ InOrder
      /\ policy' = Inferred
      /\ IF Misfit(sm, job.ticket, policy.episode)
           THEN recovering' = FALSE /\ Crash(machine, answer)
           ELSE AfterLate(machine)
      /\ UNCHANGED <<barrier, control, connection, invalidated>>

LateRaises(touched) ==
  /\ runner = "late"
  /\ touched => InOrder
  /\ policy' = IF touched THEN Touched ELSE policy
  /\ AfterLate(Reject(sm, job.ticket))
  /\ UNCHANGED <<barrier, control, connection, invalidated>>

\* The reset after a discarded inference of a stateful policy ends.
DiscardReset(ok) ==
  /\ runner = "discard"
  /\ IF ok THEN policy' = Cleared /\ Iterate(sm, answer)
           ELSE policy' = policy /\ Crash(sm, answer)
  /\ UNCHANGED <<recovering, barrier, control, connection, invalidated>>

\* The reset after a timed-out inference ends; it resets the machine as well.
RecoverReset(ok) ==
  /\ runner = "recover"
  /\ recovering' = FALSE
  /\ IF ok THEN policy' = Cleared /\ Iterate(Reset(sm, sm.episode), answer)
           ELSE policy' = policy /\ Crash(sm, answer)
  /\ UNCHANGED <<barrier, control, connection, invalidated>>

-----------------------------------------------------------------------------
(* reset and close, up to the await of the runner: the barrier goes up and *)
(* the earlier tickets are invalidated.                                    *)
BeginControl(c) ==
  /\ connection = "open" /\ control = NoControl
  /\ c.op # "reset" => c.episode = Keep
  /\ control' = c
  /\ accepting' = FALSE /\ barrier' = TRUE
  /\ sm' = Reset(sm, IF c.episode = Keep THEN sm.episode ELSE c.episode)
  /\ answer' = Resolve(answer, waiting.ticket, "unavailable")
  /\ waiting' = NoJob
  /\ invalidated' = 1 .. sm.generation
  /\ UNCHANGED <<job, runner, recovering, policy, connection>>

\* The runner is done and the backend's RESET or CLOSE answers.  A failure
\* leaves the barrier up and the session closed to requests; the client may
\* send RESET or CLOSE again.
EndControl(ok) ==
  /\ control # NoControl /\ runner = "none"
  /\ control' = NoControl
  /\ \/ /\ control.op = "reset" /\ ok
        /\ policy' = [Cleared EXCEPT !.episode =
                        IF control.episode = Keep THEN @ ELSE control.episode]
        /\ sm' = Reset(sm, IF control.episode = Keep THEN sm.episode ELSE control.episode)
        /\ barrier' = FALSE /\ accepting' = TRUE
        /\ UNCHANGED connection
     \/ /\ control.op = "disconnect" \/ (control.op = "close" /\ ok)
        /\ connection' = "closed"
        /\ UNCHANGED <<policy, sm, barrier, accepting>>
     \/ /\ control.op # "disconnect" /\ ~ok
        /\ UNCHANGED <<policy, sm, barrier, accepting, connection>>
  /\ UNCHANGED <<answer, waiting, job, runner, recovering, invalidated>>

-----------------------------------------------------------------------------
Receiver ==
  \/ \E seq \in Seqs, ttl \in BOOLEAN, age \in Ages : SubmitRequest(seq, ttl, age)
  \/ \E c \in Controls : BeginControl(c)

Runner ==
  \/ RunnerStarts
  \/ \E expired \in BOOLEAN : PredictReturns(expired)
  \/ \E touched \in BOOLEAN : PredictRaises(touched)
  \/ PredictTimesOut
  \/ LateReturns
  \/ \E touched \in BOOLEAN : LateRaises(touched)
  \/ \E ok \in BOOLEAN : DiscardReset(ok) \/ RecoverReset(ok)

ControlEnds == \E ok \in BOOLEAN : EndControl(ok)

Next == Receiver \/ Runner \/ ControlEnds

Spec == Init /\ [][Next]_vars

(* The runner is a task of the event loop and every backend call ends, by  *)
(* a result or an error; nothing makes the client send or disconnect.      *)
FairSpec == Spec /\ WF_vars(Runner) /\ WF_vars(ControlEnds)

-----------------------------------------------------------------------------
(* Properties.                                                             *)

(* Every variable keeps its type.                                          *)
TypeOK ==
  /\ sm \in Machines
  /\ answer \in [Tickets -> Answers]
  /\ waiting \in Jobs /\ job \in Jobs
  /\ runner \in RunnerStates
  /\ accepting \in BOOLEAN /\ recovering \in BOOLEAN /\ barrier \in BOOLEAN
  /\ control \in Controls \cup {NoControl}
  /\ policy \in [episode : Episodes, last : 0 .. MaxSeq, history : SUBSET Tickets]
  /\ connection \in {"open", "closed"}
  /\ invalidated \in SUBSET Tickets

(* While a stateful policy runs an inference, its history holds only       *)
(* inferences whose chunk was delivered or whose caller saw the policy     *)
(* fail: a superseded, expired, timed-out or reset inference is wiped out  *)
(* before the next one runs, in whatever order completions, timeouts and   *)
(* controls come (the resets of _predict and of reset).                    *)
PolicyIsClean ==
  Stateful /\ runner = "predict" =>
    \A g \in policy.history : answer[g] \in {"chunk", "error"}

(* The two sequence counters agree: whenever a request runs, the policy    *)
(* session accepts its sequence id, although each side resets its counter  *)
(* at its own moments (VLASession.predict's check never fires).            *)
OrdersAgree == runner = "predict" => InOrder

(* The record of the request being inferred is never trimmed, however many *)
(* later requests became terminal meanwhile (_trim_history's protection);  *)
(* and a session that is not inferring has no record stuck as `inferring', *)
(* which trimming could never remove.                                      *)
InferenceIsProtected ==
  \A g \in Tickets : sm.records[g].inference = "running"
                       <=> (runner \in {"predict", "late"} /\ g = job.ticket)

\* Tickets whose future is unresolved although nobody holds it any more.
Lost == {g \in 1 .. sm.generation : /\ answer[g] = "none" /\ g # waiting.ticket
                                    /\ runner = "none" \/ g # job.ticket}

(* A request is left unanswered only by the two lookups that raise: its    *)
(* record was trimmed, or its chunk belonged to an episode the policy and  *)
(* the session disagree on.  Such a session takes no request again before  *)
(* a RESET invalidates the lost one.                                       *)
LossStopsSession ==
  \A g \in Lost : /\ StatusOf(sm, g) \in {"absent", "rejected"}
                  /\ g \in invalidated \/ ~accepting

(* A chunk is delivered only to the newest admitted request, of a ticket   *)
(* issued after the last RESET, while no barrier is up and the policy and  *)
(* the session are in the same episode.                                    *)
DeliveryRespectsBarriers ==
  [][\A g \in Tickets :
       answer[g] = "none" /\ answer'[g] = "chunk" =>
         /\ ~barrier /\ g \notin invalidated
         /\ \A k \in Tickets : k > g => StatusOf(sm, k) \in {"absent", "rejected", "expired"}
         /\ policy.episode = sm.episode]_vars

(* Every admitted request is answered in the end, unless a raising lookup  *)
(* lost it: no order of supersession, timeout, recovery and control leaves *)
(* a response pending for ever.                                            *)
RequestsSettle ==
  \A g \in Tickets : (g <= sm.generation /\ answer[g] = "none")
                       ~> (answer[g] # "none" \/ g \in Lost)

(* A RESET, CLOSE or disconnect that waits for the runner is not left      *)
(* waiting.                                                                *)
ControlsEnd == (control # NoControl) ~> (control = NoControl)
=============================================================================
