----------------------------- MODULE MCDsServer -----------------------------
(* Instances of the data servers for TLC. *)
EXTENDS DsServer, TLC

=============================================================================
