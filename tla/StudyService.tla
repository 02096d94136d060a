---------------------------- MODULE StudyService ----------------------------
(***************************************************************************)
(* What the IRIS server may rely on when it asks a kit to study a remote    *)
(* control: the kit has one slot for a study, and keeps at most one frame   *)
(* of each remote.  Opening a study discards what is kept of its remote;    *)
(* only a frame of the open study, under its own remote, is kept after      *)
(* that.  The answer to a request goes to the console that made it.  The    *)
(* only answer nobody asked for is the outcome of the open study: it goes   *)
(* to the console that opened it, and closes the slot.  An outcome carries  *)
(* the frame that is kept of its remote, and is an error if there is none.  *)
(* StudyControl is shown to implement this.                                 *)
(***************************************************************************)
EXTENDS Integers

CONSTANTS Consoles, NoConsole, Remotes, NoRemote, Sizes, MaxStudies

VARIABLES
    asked,    \* the request the kit deals with: {} or {c}
    slot,     \* the open study, or NoStudy
    opened,   \* how many studies were opened
    kept,     \* the frame kept of each remote, or NoFrame
    report    \* the last answer

vars == <<asked, slot, opened, kept, report>>

NoStudy == [id |-> 0, console |-> NoConsole, remote |-> NoRemote]

NoFrame == [study |-> 0, remote |-> NoRemote, size |-> "none"]

NothingKept == [r \in Remotes |-> NoFrame]

Requests == [console : Consoles \cup {NoConsole}, remote : Remotes \cup {NoRemote}]

\* What can be answered to a request that names r: nothing if it names none
Held(r) == IF r = NoRemote THEN NoFrame ELSE kept[r]

Answer(resp, console, remote, payload) ==
    \E sent \in BOOLEAN :
        report' = [resp |-> resp, console |-> console, remote |-> remote,
                   payload |-> payload, sent |-> sent]

\* The kit answers c.console with what it holds of c.remote.  A frame too
\* large for the message is left out of it.
Outcome(c) ==
    \/ /\ Held(c.remote) = NoFrame
       /\ Answer("study_error", c.console, c.remote, NoFrame)
    \/ /\ Held(c.remote) # NoFrame
       /\ Held(c.remote).size # "overDoc"
       /\ Answer("study_completed", c.console, c.remote, Held(c.remote))
    \/ /\ Held(c.remote).size = "overDoc"
       /\ Answer("study_completed", c.console, c.remote, NoFrame)

Init ==
    /\ asked = {}
    /\ slot = NoStudy
    /\ opened = 0
    /\ kept = NothingKept
    /\ report = [resp |-> "none", console |-> NoConsole, remote |-> NoRemote,
                 payload |-> NoFrame, sent |-> FALSE]

\* A request opens the slot, and replaces the study that held it.
Open(c) ==
    /\ opened < MaxStudies
    /\ opened' = opened + 1
    /\ slot' = [id |-> opened + 1, console |-> c.console, remote |-> c.remote]
    /\ kept' = [r \in Remotes |-> IF r = c.remote THEN NoFrame ELSE kept[r]]
    /\ Answer("study_prepared", c.console, c.remote, NoFrame)

\* A frame of the open study is kept, or its remote's file is left empty.
Capture ==
    /\ slot # NoStudy /\ slot.remote # NoRemote
    /\ \E f \in [study : {slot.id}, remote : {slot.remote}, size : Sizes] \cup {NoFrame} :
          kept' = [kept EXCEPT ![slot.remote] = f]
    /\ UNCHANGED <<slot, opened, report>>

\* The outcome of the open study, to the console that opened it.
Conclude ==
    /\ slot # NoStudy
    /\ Outcome(slot)
    /\ slot' = NoStudy
    /\ UNCHANGED <<opened, kept>>

\* The server asks for what the kit holds of a remote; a study ends with it.
Reload(c) ==
    /\ Outcome(c)
    /\ slot' = NoStudy
    /\ UNCHANGED <<opened, kept>>

\* The server cancels or tests; both close the slot.
Close(c) ==
    /\ \/ Answer("study_cancelled", c.console, c.remote, NoFrame)
       \/ Answer("test_ok", c.console, NoRemote, NoFrame)
    /\ slot' = NoStudy
    /\ UNCHANGED <<opened, kept>>

\* An emission or a restart loses the study, and formatting also what is
\* kept; nobody is told.
Lose ==
    /\ slot' = NoStudy
    /\ kept' \in {kept, NothingKept}
    /\ UNCHANGED <<opened, report>>

\* The request has been dealt with.
Done == UNCHANGED <<slot, opened, kept, report>>

Next ==
    \/ \E c \in Requests :
          /\ asked = {} /\ asked' = {c}
          /\ Open(c) \/ Reload(c) \/ Close(c)
    \/ asked = {} /\ asked' = {} /\ (Capture \/ Conclude)
    \/ asked' = {} /\ (Lose \/ Done)

Spec == Init /\ [][Next]_vars
=============================================================================
