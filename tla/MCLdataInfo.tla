---------------------------- MODULE MCLdataInfo -----------------------------
(* LdataInfo on small instances; the other constants are given in the cfg.   *)
EXTENDS LdataInfo, TLC

(* Seconds tell files apart; the queue is read without them. *)
SecondsByMode == [m \in Modes |-> IF m = "xml" THEN 2 ELSE 1]

(* Two slots are few enough for the queue to be cleared, which takes one     *)
(* fault; three let a reader that has lost its place pass over a message     *)
(* while the one before it is still there, which takes two.                  *)
FaultsByInstance ==
  [m \in Modes |-> [n \in FmqNSlots |->
     IF m = "queue" /\ n = 3 THEN 2 ELSE 1]]
=============================================================================
