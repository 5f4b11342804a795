------------------------------ MODULE MCFmqOpen -----------------------------
(* Instances of the opening of a queue for TLC. *)
EXTENDS FmqOpen, TLC

(* Of four words only one fits beside a message of two: a write may have to  *)
(* free every message there is.                                              *)
UnevenLens == {2, 4}
=============================================================================
