--------------------------- MODULE MCBatchService ---------------------------
(* Instances of BatchService: two workers over two replicas.                *)
EXTENDS BatchService

MCWorkers == {"w1", "w2"}
=============================================================================
