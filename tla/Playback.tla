------------------------------ MODULE Playback ------------------------------
(***************************************************************************)
(* What a console may rely on when it asks a kit to emit: the kit is silent *)
(* or plays one signal, interval by interval and in order, each at least as *)
(* long as asked and at most Late longer, and stops after the last one and  *)
(* not before, unless it goes down.  Emission is shown to implement this.   *)
(***************************************************************************)
EXTENDS Naturals, Sequences

CONSTANTS
    Signals, \* the signals a kit may be asked to play
    Late     \* by how much an interval may be longer than asked

VARIABLES
    up,      \* does the kit run
    playing, \* the signal that is played, or <<>>
    out      \* the lengths of the intervals that went out

vars == <<up, playing, out>>

Silent == playing = <<>>

Init == up \in BOOLEAN /\ Silent /\ out = <<>>

Begin ==
    /\ up /\ Silent
    /\ playing' \in Signals
    /\ UNCHANGED <<up, out>>

PlayNext ==
    /\ up /\ Len(out) < Len(playing)
    /\ LET asked == playing[Len(out) + 1]
       IN  \E length \in asked .. asked + Late : out' = Append(out, length)
    /\ UNCHANGED <<up, playing>>

End ==
    /\ up /\ Len(out) = Len(playing)
    /\ playing' = <<>> /\ out' = <<>>
    /\ UNCHANGED up

GoDown ==
    /\ up' = FALSE
    /\ playing' = <<>> /\ out' = <<>>

ComeUp ==
    /\ ~up /\ up' = TRUE
    /\ UNCHANGED <<playing, out>>

Next == Begin \/ PlayNext \/ End \/ GoDown \/ ComeUp

Spec == Init /\ [][Next]_vars
=============================================================================
