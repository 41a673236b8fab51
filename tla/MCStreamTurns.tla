----------------------------- MODULE MCStreamTurns -----------------------------
(***************************************************************************)
(* The instance of MCStreamPipe with a history variable that counts, for   *)
(* each session and stage, how often another session was admitted to the   *)
(* stage while this one had work ready for it.                             *)
(***************************************************************************)
EXTENDS MCStreamPipe

VARIABLE passedOver

Admits(st) == {r \in Runtimes : \E q \in SeqIds : <<st, q>> \in inFlight'[r] \ inFlight[r]}
Waits(r, st) == r \in Running /\ Runnable(r, st) # {} /\ HasOutputCapacity(r, st)

TurnsInit == Init /\ passedOver = [r \in Runtimes |-> [st \in Stages |-> 0]]

TurnsNext ==
    /\ Next
    /\ passedOver' = [r \in Runtimes |-> [st \in Stages |->
          IF r \in Admits(st) \/ ~Waits(r, st) THEN 0
          ELSE passedOver[r][st] + Cardinality(Admits(st))]]

TurnsSpec == TurnsInit /\ [][TurnsNext]_<<vars, passedOver>>

\* _pump_all: "Admit ready work round-robin across all active sessions".  While
\* a session has work ready for a stage, the stage takes at most one piece of
\* work of each other session.
RoundRobin ==
    \A r \in Runtimes, st \in Stages : passedOver[r][st] < Cardinality(Sessions)
================================================================================
