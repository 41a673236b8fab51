---------------------------- MODULE ActionChunks ----------------------------
(***************************************************************************)
(* The lifecycle of the prediction requests of one VLA session, as kept by *)
(* ActionChunkStateMachine (telefuser/vla/runtime/chunk_state.py).  Every  *)
(* method runs under the machine's lock, so each is one operator from the  *)
(* machine's state to its next state.                                      *)
(*                                                                         *)
(* A machine is a record: the retained `records' by generation, the last   *)
(* `generation' issued, the `latest' admitted sequence id, the generation  *)
(* `pending' inference, the one whose chunk is `ready' (0 stands for       *)
(* Python's None in the three slots) and the bound `episode'.  The server  *)
(* never executes a chunk and leaves the recovery callback unset, so the   *)
(* executing slot and the callback are not here.                           *)
(*                                                                         *)
(* Observation timestamps are abstracted to what admission tells apart: a  *)
(* request is `fresh', `stale' (older than the allowed age) or `backwards' *)
(* (older than an observation already admitted).                           *)
(***************************************************************************)
EXTENDS Integers, FiniteSets

CONSTANTS MaxTickets,       \* bound: requests one session submits to the machine
          MaxSeq,           \* bound: the largest sequence id a client uses
          Episodes,         \* the episode ids a client uses
          TerminalHistory   \* terminal records the machine retains (128 in the code)

ASSUME ChunkAssumption ==
  /\ MaxTickets \in Nat \ {0}
  /\ MaxSeq \in Nat \ {0}
  /\ TerminalHistory \in Nat \ {0}

Tickets == 1 .. MaxTickets
Seqs == 1 .. MaxSeq
Ages == {"fresh", "stale", "backwards"}

Terminal == {"superseded", "expired", "rejected"}
Statuses == {"absent", "pending", "ready"} \cup Terminal

\* A record is `absent' before its ticket is issued and after it is trimmed.
Records == [status : Statuses, inference : {"no", "running", "done"}]
Absent == [status |-> "absent", inference |-> "no"]

Machines == [records : [Tickets -> Records], generation : 0 .. MaxTickets,
             latest : 0 .. MaxSeq, pending : 0 .. MaxTickets,
             ready : 0 .. MaxTickets, episode : Episodes]

NewMachine(episode) ==
  [records |-> [g \in Tickets |-> Absent], generation |-> 0, latest |-> 0,
   pending |-> 0, ready |-> 0, episode |-> episode]

StatusOf(sm, g) == sm.records[g].status

\* Mutant: the records being inferred are not protected.
M_RemovableUnprotected(sm) ==
  {g \in Tickets : StatusOf(sm, g) \in Terminal /\ g \notin {sm.pending, sm.ready}}

\* The records _trim_history may drop: terminal, in no slot, not being inferred.
Removable(sm) ==
  {g \in Tickets : /\ StatusOf(sm, g) \in Terminal
                   /\ g \notin {sm.pending, sm.ready}
                   /\ sm.records[g].inference # "running"}

\* It drops all but the TerminalHistory youngest of them.
Trim(sm) ==
  LET removable == Removable(sm)
      Newer(g) == {k \in removable : k > g}
      Dropped(g) == g \in removable /\ Cardinality(Newer(g)) >= TerminalHistory
  IN  [sm EXCEPT !.records =
         [g \in Tickets |-> IF Dropped(g) THEN Absent ELSE sm.records[g]]]

\* Give every ticket of gs the terminal status s.
Settle(records, gs, s) ==
  [g \in Tickets |-> IF g \in gs THEN [records[g] EXCEPT !.status = s] ELSE records[g]]

-----------------------------------------------------------------------------
(* submit: the next ticket is issued whatever becomes of it.               *)
Issued(sm) == sm.generation + 1

Refusal(sm, seq, age) ==
  IF sm.latest # 0 /\ seq <= sm.latest THEN "rejected"
  ELSE IF age = "stale" THEN "expired"
  ELSE IF sm.latest # 0 /\ age = "backwards" THEN "rejected"
  ELSE "none"

Submitted(sm, seq, age) ==
  LET g == Issued(sm)
      refusal == Refusal(sm, seq, age)
      new == [status |-> IF refusal = "none" THEN "pending" ELSE refusal, inference |-> "no"]
      filed == [sm.records EXCEPT ![g] = new]
  IN  Trim(IF refusal # "none"
             THEN [sm EXCEPT !.generation = g, !.records = filed]
             ELSE [sm EXCEPT !.generation = g, !.latest = seq, !.pending = g, !.ready = 0,
                             !.records = Settle(filed, {sm.pending, sm.ready}, "superseded")])

MarkStarted(sm, g) == [sm EXCEPT !.records[g].inference = "running"]

\* The result of g arrived after its ticket left the pending slot.
Discarded(sm, g) == StatusOf(sm, g) # "pending" \/ sm.pending # g

Finished(sm, g) == [sm EXCEPT !.records[g].inference = "done"]

\* Empty the pending slot and give its ticket a terminal status.
EndPending(sm, g, s) ==
  Trim([sm EXCEPT !.pending = 0, !.records = Settle(sm.records, {g}, s)])

(* complete: discard the chunk, refuse it because it is of another episode *)
(* (the caller then sees an exception), expire it or make it ready.        *)
Complete(sm, g, chunkEpisode, expired) ==
  LET done == Finished(sm, g)
  IN  IF Discarded(sm, g) THEN Trim(done)
      ELSE IF chunkEpisode # sm.episode THEN EndPending(done, g, "rejected")
      ELSE IF expired THEN EndPending(done, g, "expired")
      ELSE [done EXCEPT !.pending = 0, !.ready = g, !.records[g].status = "ready"]

Misfit(sm, g, chunkEpisode) == ~Discarded(sm, g) /\ chunkEpisode # sm.episode

(* reject: the inference failed.                                           *)
Reject(sm, g) ==
  IF Discarded(sm, g) THEN Finished(sm, g) ELSE EndPending(Finished(sm, g), g, "rejected")

\* Mutant: reset restarts the order and keeps the pending ticket.
M_ResetKeepsPending(sm, episode) == [sm EXCEPT !.latest = 0, !.ready = 0, !.episode = episode]

(* reset: every slot is emptied and sequence numbers start again.          *)
Reset(sm, episode) ==
  Trim([sm EXCEPT !.records = Settle(sm.records, {sm.pending, sm.ready}, "rejected"),
                  !.pending = 0, !.ready = 0, !.latest = 0, !.episode = episode])
=============================================================================
