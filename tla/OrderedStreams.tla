----------------------------- MODULE OrderedStreams -----------------------------
(***************************************************************************)
(* What a streaming pipeline promises the clients of its sessions, with    *)
(* the stages, the actors, the pump and the cleanup taken away.  Each      *)
(* stream works on sequences in any order and any number of times; what it *)
(* hands out is 0, 1, 2, ... without a gap, only of sequences it worked    *)
(* on, until it is over.  From then on it holds and hands out nothing and  *)
(* never begins again.  Streams are independent, so a step is a step of    *)
(* each: an actor that fails ends many of them at once.                    *)
(***************************************************************************)
EXTENDS Naturals, Sequences

CONSTANT Streams

VARIABLES
    over,     \* the streams that have ended
    worked,   \* the sequences each stream worked on
    out,      \* what each has ready for its client
    next      \* the first sequence each has not emitted

vars == <<over, worked, out, next>>

Init ==
    /\ over = {}
    /\ worked = [x \in Streams |-> {}]
    /\ out = [x \in Streams |-> << >>]
    /\ next = [x \in Streams |-> 0]

Stay(x) == worked'[x] = worked[x] /\ out'[x] = out[x] /\ next'[x] = next[x]

\* The stream works on sequence q.
Work(x) ==
    /\ x \notin over'
    /\ \E q \in worked'[x] : worked'[x] = worked[x] \cup {q}
    /\ out'[x] = out[x] /\ next'[x] = next[x]

\* The sequences up to the new `next' are ready for the client.
Emit(x) ==
    /\ x \notin over'
    /\ next'[x] > next[x]
    /\ next[x] .. next'[x] - 1 \subseteq worked[x]
    /\ out'[x] = out[x] \o [i \in 1 .. next'[x] - next[x] |-> next[x] + i - 1]
    /\ worked'[x] = worked[x]

\* The client takes all there is.
Take(x) == x \notin over' /\ out'[x] = << >> /\ worked'[x] = worked[x] /\ next'[x] = next[x]

\* The stream is cancelled, closed or failed.
End(x) == x \in over' /\ out'[x] = << >> /\ worked'[x] = worked[x] /\ next'[x] = next[x]

Next ==
    /\ over \subseteq over'
    /\ \A x \in Streams : Stay(x) \/ Work(x) \/ Emit(x) \/ Take(x) \/ End(x)

Spec == Init /\ [][Next]_vars
================================================================================
