--------------------------- MODULE MCTaDoubleQue ----------------------------
(* Instances of the double queue for TLC. *)
EXTENDS TaDoubleQue, TLC
=============================================================================
