---------------------------- MODULE MCResetButton ----------------------------
(* Instances of ResetButton for TLC. *)
EXTENDS ResetButton
=============================================================================
