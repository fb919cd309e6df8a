--------------------------- MODULE MCWorkerHealth ---------------------------
(* WorkerHealth for TLC. *)
EXTENDS WorkerHealth
=============================================================================
