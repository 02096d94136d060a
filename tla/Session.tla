------------------------------- MODULE Session --------------------------------
(***************************************************************************)
(* An MQTT session as the rest of the firmware and the server see it.  One  *)
(* that connectIot has opened is heard, or dead by the time connectIot      *)
(* returns; one that the SDK reopens by itself lives without hearing; a     *)
(* session may die unnoticed, and never comes back to life; the kit leaves  *)
(* dead sessions only.  A living one is lost under strain alone: the other  *)
(* side closes it, the power fails, a callback keeps the loop for too long. *)
(*                                                                         *)
(* MqttSession (without a clock) and KeepAlive (with one) are both shown to *)
(* implement this, which is what lets the former do without the latter.     *)
(***************************************************************************)

VARIABLES
    opener,   \* "none", "begin": connectIot, or "loop": AliyunIoTSDK::loop
    line,     \* "closed", "live": heard too, "deaf": not subscribed, or "dead"
    strained  \* may a living session be lost at once

vars == <<opener, line, strained>>

Lines == {"live", "deaf", "dead"}

Init == opener = "none" /\ line = "closed" /\ strained \in BOOLEAN

Open ==
    /\ line = "closed"
    /\ \/ opener' = "begin" /\ line' \in {"live", "dead"}
       \/ opener' = "loop" /\ line' = "deaf"

Die ==
    /\ line \in {"live", "deaf"}
    /\ line' = "dead"
    /\ UNCHANGED opener

Leave ==
    /\ line = "dead" \/ (strained /\ line \in Lines)
    /\ line' = "closed"
    /\ opener' = "none"

Strain == UNCHANGED <<opener, line>>

Next == strained' \in BOOLEAN /\ (Open \/ Die \/ Leave \/ Strain)

Spec == Init /\ [][Next]_vars
=============================================================================
