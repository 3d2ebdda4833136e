------------------------------ MODULE MCChannel ------------------------------
(* Small instances of Channel for TLC. *)
EXTENDS Channel, TLC
=============================================================================
