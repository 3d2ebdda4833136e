-------------------------- MODULE MCLambdaService --------------------------
(* Small instances of LambdaService for TLC. *)
EXTENDS LambdaService, TLC
=============================================================================
