----------------------------- MODULE ResetButton -----------------------------
(***************************************************************************)
(* factoryReset of iris_kit.cpp: the level interrupt of the reset button,   *)
(* which the hardware calls again and again while the button is down.       *)
(*                                                                         *)
(* millis() is an unsigned counter that wraps; it ticks between any two     *)
(* reads of the handler, at most once in a call. Calls no more than Gap     *)
(* apart belong to one press, which bridges the bouncing of the contact.    *)
(* The reads that initialise the static variables in the very first call    *)
(* are one step with the read of interrupt_time.                            *)
(***************************************************************************)
EXTENDS Integers

CONSTANTS
    Gap,      \* 10 ms
    Hold,     \* 3000 ms
    Wrap,     \* 2^32 ms
    QuietMax, \* bound: how long the button is left alone
    HeldMax   \* bound: how far the length of a press is counted

\* The longest press that a call may return from, and the next call reset, is
\* shorter than a turn of the clock: 3011 ms against 49.7 days
ASSUME ButtonAssumption ==
    /\ {Gap, Hold, Wrap, QuietMax, HeldMax} \subseteq Nat
    /\ 0 < Gap /\ Gap < Hold /\ Hold + Gap + 1 < Wrap /\ Hold + 1 < HeldMax

VARIABLES
    now,    \* millis()
    down,   \* is the contact closed
    pc,     \* the next read of the handler
    called, \* are the static variables initialised
    last,   \* last_interrupt_time
    start,  \* start_time
    int,    \* interrupt_time
    end,    \* end_time
    quiet,  \* history: ms since the last call
    held,   \* history: ms since the first call of this press
    raced,  \* history: the clock ticked between the reads of end and start
    stale   \* history: the press came after a whole turn of the clock

code == <<called, last, start, int, end>>
past == <<held, raced, stale>>
vars == <<now, down, pc, code, quiet, past>>

-----------------------------------------------------------------------------
\* Mutant: the difference does not wrap
Since_Signed(t, u) == t - u

\* Unsigned subtraction
Since(t, u) == (t - u) % Wrap

\* interrupt_time - last_interrupt_time > 10
NewPress == Since(int, last) > Gap

\* The call begins: the static variables are set the first time only.
Enter ==
    /\ pc = "out" /\ down
    /\ int' = now
    /\ last' = IF called THEN last ELSE now
    /\ start' = IF called THEN start ELSE now
    /\ called' = TRUE
    /\ pc' = "end"
    /\ quiet' = 0
    /\ IF ~called \/ quiet > Gap
         THEN held' = 0 /\ raced' = FALSE /\ stale' = (called /\ quiet % Wrap <= Gap)
         ELSE UNCHANGED past
    /\ UNCHANGED <<now, down, end>>

ReadEnd ==
    /\ pc = "end"
    /\ end' = now
    /\ pc' = "start"
    /\ UNCHANGED <<now, down, called, last, start, int, quiet, past>>

\* Mutant: every call begins a press
ReadStart_Always ==
    /\ pc = "start"
    /\ start' = now
    /\ last' = int
    /\ raced' = (raced \/ end # now)
    /\ pc' = "decide"
    /\ UNCHANGED <<now, down, called, int, end, quiet, held, stale>>

\* Mutant: no call begins a press
ReadStart_Never ==
    /\ pc = "start"
    /\ last' = int
    /\ pc' = "decide"
    /\ UNCHANGED <<now, down, called, start, int, end, quiet, past>>

ReadStart ==
    /\ pc = "start"
    /\ IF NewPress
         THEN start' = now /\ raced' = (end # now)
         ELSE UNCHANGED <<start, raced>>
    /\ last' = int
    /\ pc' = "decide"
    /\ UNCHANGED <<now, down, called, int, end, quiet, held, stale>>

Decide ==
    /\ pc = "decide"
    /\ pc' = IF Since(end, start) > Hold THEN "reset" ELSE "out"
    /\ UNCHANGED <<now, down, code, quiet, past>>

\* wifiReset ends in a restart; the clock begins at 0
Restarted ==
    /\ pc = "reset"
    /\ pc' = "out" /\ now' = 0 /\ called' = FALSE /\ held' = 0
    /\ last' = 0 /\ start' = 0 /\ int' = 0 /\ end' = 0
    /\ raced' = FALSE /\ stale' = FALSE
    /\ UNCHANGED <<down, quiet>>

-----------------------------------------------------------------------------
(* The button and the clock.                                                *)

Press == ~down /\ down' = TRUE /\ UNCHANGED <<now, pc, code, quiet, past>>
Release == down /\ down' = FALSE /\ UNCHANGED <<now, pc, code, quiet, past>>

\* Mutant: the clock does not wrap
Tick_NoWrap ==
    /\ pc # "reset"
    /\ IF pc = "out" THEN down => quiet < Gap ELSE quiet = 0
    /\ quiet < QuietMax
    /\ now' = now + 1
    /\ quiet' = quiet + 1
    /\ held' = IF held < HeldMax THEN held + 1 ELSE held
    /\ UNCHANGED <<down, pc, code, raced, stale>>

\* While the button is down the hardware calls in time.
Tick ==
    /\ pc # "reset"
    /\ IF pc = "out" THEN down => quiet < Gap ELSE quiet = 0
    /\ quiet < QuietMax
    /\ now' = (now + 1) % Wrap
    /\ quiet' = quiet + 1
    /\ held' = IF held < HeldMax THEN held + 1 ELSE held
    /\ UNCHANGED <<down, pc, code, raced, stale>>

-----------------------------------------------------------------------------
Init ==
    /\ now = 0 /\ down \in BOOLEAN /\ pc = "out"
    /\ called = FALSE /\ last = 0 /\ start = 0 /\ int = 0 /\ end = 0
    /\ quiet = 0 /\ held = 0 /\ raced = FALSE /\ stale = FALSE

Handler == Enter \/ ReadEnd \/ ReadStart \/ Decide \/ Restarted

Next == Handler \/ Press \/ Release \/ Tick

Spec == Init /\ [][Next]_vars

\* The interrupt is served and time passes.
FairSpec == Spec /\ WF_vars(Handler) /\ WF_vars(Tick)

-----------------------------------------------------------------------------
(* Properties.                                                              *)

Times == 0 .. Wrap - 1

\* The types of the variables; in a call the clock ticks at most once.
TypeOK ==
    /\ now \in Times /\ last \in Times /\ start \in Times
    /\ int \in Times /\ end \in Times
    /\ down \in BOOLEAN /\ called \in BOOLEAN /\ raced \in BOOLEAN /\ stale \in BOOLEAN
    /\ pc \in {"out", "end", "start", "decide", "reset"}
    /\ quiet \in 0 .. QuietMax /\ held \in 0 .. HeldMax
    /\ pc \in {"end", "start", "decide"} => quiet <= 1

\* A short press erases nothing, across every wrap of the clock, but for two
\* coincidences: the clock ticks between the reads of end and start in the
\* first call of a press, so that end - start wraps; or the press comes within
\* Gap ms of a whole number of turns of the clock after the last one, and is
\* taken for its continuation.
OnlyLongPresses == pc = "reset" => held > Hold \/ raced \/ stale

\* A press is not overlooked: when a call returns without a reset, the press
\* it belongs to has not lasted longer than Hold and the tick that start_time
\* may come late.
LongPressSeen == pc = "out" /\ called /\ quiet = 0 /\ ~stale => held <= Hold + 1

\* A button that stays down resets the kit, clock wraps and stale start times
\* included.
HeldResets == [](down /\ pc = "out" => <>(pc = "reset" \/ ~down))

\* What the code takes for the length of the press
Age == Since(now, start)

\* Is this the first call of a press that start_time does not know yet
Beginning == pc \in {"end", "start"} /\ NewPress

\* Is start_time of the press that is going on
Known == called /\ ~stale /\ ~Beginning /\ (pc = "out" => quiet <= Gap)

\* The time stamps tell the time, but for turns of the clock.
StampsAgree ==
    /\ pc # "out" => called
    /\ called /\ pc = "out" => Since(now, last) = quiet % Wrap
    /\ pc \in {"end", "start", "decide"} => Since(now, int) = quiet
    /\ pc \in {"start", "decide"} => Since(now, end) <= quiet
    /\ pc = "decide" => last = int

\* start_time is late by at most one tick, and too old by no more than a call
\* that should have reset the kit.
AgeAgrees ==
    /\ Beginning /\ ~stale => held = quiet
    /\ Known /\ pc # "reset" =>
         /\ held <= Age + 1 /\ (held >= Age \/ held = HeldMax)
         /\ Age <= Hold + quiet + (IF pc = "out" THEN 0 ELSE Gap)
         /\ pc \in {"end", "start"} => quiet <= Age
         /\ pc = "decide" /\ ~raced => Since(now, end) <= Age

\* A race is over before the call is.
RaceSeen ==
    /\ raced => pc \in {"decide", "reset"}
    /\ raced /\ pc = "decide" => Since(end, start) = Wrap - 1

\* The inductive invariant.
ButtonInv == StampsAgree /\ AgeAgrees /\ RaceSeen /\ OnlyLongPresses
=============================================================================
