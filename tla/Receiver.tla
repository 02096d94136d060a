------------------------------- MODULE Receiver -------------------------------
(***************************************************************************)
(* The receiver as the study state machine uses it: prepareStudyIR opens it *)
(* in one step, which drops whatever was captured before; while it is open  *)
(* it may complete a frame, made of edges seen since then, and holds it     *)
(* until decode takes it; disableIRIn closes it, but an edge that slipped   *)
(* in may still complete one frame.  IrCapture is shown to implement this;  *)
(* StudyControl builds on it.                                               *)
(***************************************************************************)

VARIABLES
    mode,  \* "on", "off", or "tail": closed, with the timer of a last edge armed
    frame  \* the complete frame, if any: "none" or "fresh"

vars == <<mode, frame>>

Init == mode = "off" /\ frame = "none"

Open == mode' = "on" /\ frame' = "none"

Complete ==
    /\ mode # "off" /\ frame = "none"
    /\ frame' = "fresh"
    /\ mode' = IF mode = "tail" THEN "off" ELSE mode

Take ==
    /\ frame = "fresh"
    /\ frame' = "none"
    /\ UNCHANGED mode

Close ==
    /\ \/ mode' = "off"
       \/ mode = "on" /\ frame = "none" /\ mode' = "tail"
    /\ UNCHANGED frame

Next == Open \/ Complete \/ Take \/ Close

Spec == Init /\ [][Next]_vars
=============================================================================
