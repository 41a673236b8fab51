--------------------------- MODULE MCPoolSessions ---------------------------
(* Instances of PoolSessions: two connections that may use each other's     *)
(* session id, beside one ordinary caller.                                 *)
EXTENDS PoolSessions

MCCallers == {"task"}
MCSessions == {"s1", "s2"}
=============================================================================
