--------------------------- MODULE MCTaThreadPool ---------------------------
(* Instances of the thread pool for TLC. *)
EXTENDS TaThreadPool, TLC
=============================================================================
