-------------------------- MODULE MCStreamChannel --------------------------
(* Small instances of StreamChannel for TLC. *)
EXTENDS StreamChannel, TLC
=============================================================================
