----------------------------- MODULE MCFmqReader ----------------------------
(* Instances of the queue with readers for TLC. *)
EXTENDS FmqReader, TLC

MixedLens == {2, 3}
=============================================================================
