---------------------------- MODULE MCIrCapture ----------------------------
(* Instances of IrCapture for TLC. *)
EXTENDS IrCapture
=============================================================================
