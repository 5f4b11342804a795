----------------------------- MODULE MCFmqQueue -----------------------------
(* Instances of the write side for TLC: one or two writers, a ring of three  *)
(* slots over a buffer of seven words, so that both the ring and the buffer  *)
(* wrap, in either order.                                                    *)
EXTENDS FmqQueueInv, TLC

(* Lengths that all fit. *)
FittingLens == {2, 3, 7}

(* One length that the buffer cannot hold. *)
LensWithTooLarge == {2, 3, 8}
=============================================================================
