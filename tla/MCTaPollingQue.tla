--------------------------- MODULE MCTaPollingQue ---------------------------
(* Instances of the polling queue for TLC. *)
EXTENDS TaPollingQue, TLC
=============================================================================
