----------------------------- MODULE KeepAlive ------------------------------
(***************************************************************************)
(* The keep-alive of PubSubClient, in time: loop() with its ping timer,     *)
(* the packets that wait in the socket, the callback that blocks the main   *)
(* loop, and the broker at the other end.                                   *)
(*                                                                         *)
(* A time stamp of the code is kept as its age, the unsigned difference     *)
(* t - lastInActivity loop() computes.  loop() samples t once, so since is  *)
(* also now - t while loop() runs: a packet that took long to read is       *)
(* stamped with the time at which loop() was entered.                       *)
(*                                                                         *)
(* The kit subscribes with QoS 0, so the PUBACK branch of loop() is never   *)
(* taken.  Of the packets that wait, only the place of the PINGRESP among   *)
(* them matters: how many are ahead of it, and how many came later.         *)
(***************************************************************************)
EXTENDS Integers

CONSTANTS
    Keep,          \* MQTT_KEEPALIVE
    SocketTimeout, \* MQTT_SOCKET_TIMEOUT
    Cycle,         \* the longest way from one call of loop() to the next
    Overrun,       \* by how much a download may exceed Cycle
    Answer,        \* the longest a live broker takes to answer a ping
    Backlog,       \* the most PUBLISH packets that wait in the socket
    Patience       \* the silence after which the broker drops a client

ASSUME TimesAssumption ==
    /\ Keep \in Nat /\ SocketTimeout \in Nat /\ Cycle \in Nat /\ Overrun \in Nat
    /\ Answer \in Nat /\ Backlog \in Nat /\ Patience \in Nat
    /\ Cycle > 0
    /\ SocketTimeout <= Keep

\* A backlog is worked off, one packet for each call of loop(), within a
\* keep-alive: 60 s against handlers of less than a second
ASSUME BacklogAssumption == Answer + (Backlog + 1) * Cycle <= Keep

\* MQTT 3.1.1: one and a half times the keep-alive of the CONNECT packet
ASSUME PatienceAssumption == Keep + Cycle <= Patience

VARIABLES
    open,    \* is the client connected, as far as it knows
    inAge,   \* time since lastInActivity
    outAge,  \* time since lastOutActivity
    ping,    \* pingOutstanding
    pc,      \* "pass": outside loop(); "reading": readPacket; "handler": the callback
    since,   \* time since loop() was last entered
    stalled, \* time readByte has waited for the rest of a torn packet
    ahead,   \* packets that wait before the PINGRESP, or all that wait
    later,   \* packets that wait behind the PINGRESP
    pong,    \* the PINGRESP: none, asked for, or in the socket
    torn,    \* does a packet wait whose rest never comes
    alive,   \* does the link carry packets
    asked,   \* observation: time since the outstanding ping
    silent,  \* observation: time since the broker last got a packet
    deadFor, \* observation: time since the link died, overruns left out
    overran  \* observation: has the callback overrun since the last ping

client == <<open, inAge, outAge, ping, pc, since, stalled>>
inbox == <<ahead, later, pong, torn>>
observed == <<asked, silent, deadFor, overran>>
vars == <<client, inbox, alive, observed>>

-----------------------------------------------------------------------------
(* The client.                                                              *)

\* Mutant: both directions have to be quiet
Due_BothQuiet == inAge > Keep /\ outAge > Keep

\* loop(): is one of the two directions quiet for longer than the keep-alive
Due == inAge > Keep \/ outAge > Keep

\* stop(): the socket is closed and what waits in it is lost
Close ==
    /\ open' = FALSE
    /\ alive' = FALSE
    /\ pc' = "pass"
    /\ inAge' = 0 /\ outAge' = 0 /\ ping' = FALSE
    /\ since' = 0 /\ stalled' = 0
    /\ ahead' = 0 /\ later' = 0 /\ pong' = "none" /\ torn' = FALSE
    /\ asked' = 0 /\ silent' = 0 /\ deadFor' = 0 /\ overran' = FALSE

\* connect(): the CONNACK came after w; lastOutActivity is the CONNECT's
Connect ==
    /\ ~open
    /\ \E w \in 0 .. SocketTimeout : outAge' = w /\ silent' = w
    /\ open' = TRUE
    /\ alive' = TRUE
    /\ ping' = FALSE
    /\ inAge' = 0
    /\ UNCHANGED <<pc, since, stalled, inbox, asked, deadFor, overran>>

\* loop() is entered: t is sampled
Enter ==
    /\ open /\ pc = "pass"
    /\ since' = 0

\* a ping is outstanding and its time is up
LoopTimeout ==
    /\ open /\ pc = "pass"
    /\ Due /\ ping
    /\ Close

\* Mutant: the ping is not remembered
LoopPing_Forgotten ==
    /\ Enter
    /\ Due /\ ~ping
    /\ ping' = FALSE
    /\ inAge' = 0 /\ outAge' = 0
    /\ pong' = IF alive THEN "asked" ELSE pong
    /\ silent' = 0 /\ asked' = 0 /\ overran' = FALSE
    /\ pc' = "reading"
    /\ UNCHANGED <<open, alive, stalled, ahead, later, torn, deadFor>>

\* Mutant: the ping does not restart the incoming side
LoopPing_InKept ==
    /\ Enter
    /\ Due /\ ~ping
    /\ ping' = TRUE
    /\ outAge' = 0
    /\ pong' = IF alive THEN "asked" ELSE pong
    /\ silent' = 0 /\ asked' = 0 /\ overran' = FALSE
    /\ pc' = "reading"
    /\ UNCHANGED <<open, inAge, alive, stalled, ahead, later, torn, deadFor>>

\* a PINGREQ is written; both time stamps become t
LoopPing ==
    /\ Enter
    /\ Due /\ ~ping
    /\ ping' = TRUE
    /\ inAge' = 0 /\ outAge' = 0
    /\ pong' = IF alive THEN "asked" ELSE pong
    /\ silent' = 0 /\ asked' = 0 /\ overran' = FALSE
    /\ pc' = "reading"
    /\ UNCHANGED <<open, alive, stalled, ahead, later, torn, deadFor>>

\* nothing is due
LoopQuiet ==
    /\ Enter
    /\ ~Due
    /\ pc' = "reading"
    /\ UNCHANGED <<open, inAge, outAge, ping, stalled, inbox, alive, observed>>

\* available() is 0
ReadNothing ==
    /\ pc = "reading"
    /\ ahead = 0 /\ pong # "inbox" /\ ~torn
    /\ pc' = "pass"
    /\ UNCHANGED <<open, inAge, outAge, ping, since, stalled, inbox, alive, observed>>

\* Mutant: whether a packet waits is not looked at
ReadPublish_Unavailable ==
    /\ pc = "reading"
    /\ ahead' = ahead - 1
    /\ inAge' = since
    /\ pc' = "handler"
    /\ UNCHANGED <<open, outAge, ping, since, stalled, later, pong, torn, alive, observed>>

\* a PUBLISH, or another packet that needs no answer: the callback runs
ReadPublish ==
    /\ pc = "reading"
    /\ ahead > 0
    /\ ahead' = ahead - 1
    /\ inAge' = since
    /\ pc' = "handler"
    /\ UNCHANGED <<open, outAge, ping, since, stalled, later, pong, torn, alive, observed>>

\* the PINGRESP
ReadPong ==
    /\ pc = "reading"
    /\ ahead = 0 /\ pong = "inbox"
    /\ pong' = "none" /\ ahead' = later /\ later' = 0
    /\ ping' = FALSE
    /\ inAge' = since
    /\ asked' = 0
    /\ pc' = "pass"
    /\ UNCHANGED <<open, outAge, since, stalled, torn, alive, silent, deadFor, overran>>

\* readByte gives up; readPacket returns 0 and the socket stays open
ReadTorn ==
    /\ pc = "reading"
    /\ ahead = 0 /\ pong # "inbox" /\ torn
    /\ stalled = SocketTimeout
    /\ torn' = FALSE
    /\ pc' = "pass"
    /\ UNCHANGED <<open, inAge, outAge, ping, since, stalled, ahead, later, pong, alive, observed>>

\* the callback returns to loop(), and loop() to its caller
HandlerReturns ==
    /\ pc = "handler"
    /\ pc' = "pass"
    /\ UNCHANGED <<open, inAge, outAge, ping, since, stalled, inbox, alive, observed>>

Loop == \/ LoopTimeout \/ LoopPing \/ LoopQuiet
        \/ ReadNothing \/ ReadPublish \/ ReadPong \/ ReadTorn \/ HandlerReturns

\* publish(), from the callback or from elsewhere in the main loop
Publish ==
    /\ open /\ pc # "reading"
    /\ outAge' = 0
    /\ silent' = 0
    /\ UNCHANGED <<open, inAge, ping, pc, since, stalled, inbox, alive, asked, deadFor, overran>>

-----------------------------------------------------------------------------
(* The broker, the link and time.                                           *)

BrokerPublishes ==
    /\ alive /\ ahead + later < Backlog
    /\ IF pong = "inbox" THEN later' = later + 1 /\ UNCHANGED ahead
                         ELSE ahead' = ahead + 1 /\ UNCHANGED later
    /\ UNCHANGED <<client, pong, torn, alive, observed>>

BrokerAnswers ==
    /\ alive /\ pong = "asked"
    /\ pong' = "inbox"
    /\ UNCHANGED <<client, ahead, later, torn, alive, observed>>

\* The link dies unnoticed; the last packet may have come in part only
LinkDies ==
    /\ alive
    /\ alive' = FALSE
    /\ torn' \in BOOLEAN
    /\ pong' = IF pong = "asked" THEN "none" ELSE pong
    /\ asked' = IF pong = "asked" THEN 0 ELSE asked
    /\ silent' = 0
    /\ UNCHANGED <<client, ahead, later, deadFor, overran>>

\* connected() is told by TCP that the peer is gone
SocketCloses ==
    /\ open /\ ~alive /\ pc = "pass"
    /\ Close

\* Is a torn packet being read
Stalling == pc = "reading" /\ torn /\ ahead = 0 /\ pong # "inbox"

\* How long n packets keep the main loop, and what working off a full backlog
\* and a torn packet takes
Slots(n) == n * Cycle
Drained == Slots(Backlog + 2) + SocketTimeout

\* How long a death may go unnoticed
DeadBound == Drained + 2 * (Keep + Cycle)

\* Time passes: nobody exceeds the bound on what it is doing
Tick ==
    /\ open
    /\ deadFor <= DeadBound  \* bound: no death is watched for longer
    /\ alive /\ pong = "asked" => asked < Answer
    /\ \/ /\ Stalling /\ stalled < SocketTimeout
          /\ stalled' = stalled + 1
          /\ deadFor' = deadFor + 1
          /\ UNCHANGED <<since, overran>>
       \/ /\ ~Stalling /\ since < Cycle
          /\ since' = since + 1
          /\ deadFor' = IF alive THEN 0 ELSE deadFor + 1
          /\ UNCHANGED <<stalled, overran>>
       \/ /\ pc = "handler" /\ since >= Cycle /\ since < Cycle + Overrun
          /\ since' = since + 1
          /\ overran' = TRUE
          /\ UNCHANGED <<stalled, deadFor>>
    /\ inAge' = inAge + 1 /\ outAge' = outAge + 1
    /\ asked' = IF pong = "none" THEN 0 ELSE asked + 1
    /\ silent' = IF alive THEN silent + 1 ELSE 0
    /\ UNCHANGED <<open, ping, pc, inbox, alive>>

Init ==
    /\ open = FALSE /\ alive = FALSE
    /\ inAge = 0 /\ outAge = 0 /\ ping = FALSE
    /\ pc = "pass" /\ since = 0 /\ stalled = 0
    /\ ahead = 0 /\ later = 0 /\ pong = "none" /\ torn = FALSE
    /\ asked = 0 /\ silent = 0 /\ deadFor = 0 /\ overran = FALSE

Next == \/ Connect \/ Loop \/ Publish
        \/ BrokerPublishes \/ BrokerAnswers \/ LinkDies \/ SocketCloses \/ Tick

Spec == Init /\ [][Next]_vars

\* Time passes and the main loop goes round
FairSpec == Spec /\ SF_vars(Tick) /\ WF_vars(Loop)

-----------------------------------------------------------------------------
(* Properties.                                                              *)

\* The packets that wait
Waiting == ahead + later + (IF pong = "inbox" THEN 1 ELSE 0)

\* Is one of them being taken by the running call of loop()
Taking == IF pc = "reading" THEN 1 ELSE 0

\* The part of the running cycle that counts: an overrun is left out
Counted == IF since < Cycle THEN since ELSE Cycle

\* The flags and the numbers by themselves
FlagsOK ==
    /\ open \in BOOLEAN /\ ping \in BOOLEAN /\ torn \in BOOLEAN
    /\ alive \in BOOLEAN /\ overran \in BOOLEAN
    /\ pc \in {"pass", "reading", "handler"}
    /\ pong \in {"none", "asked", "inbox"}

CountsOK ==
    /\ inAge \in Nat /\ outAge \in Nat /\ since \in Nat /\ stalled \in Nat
    /\ asked \in Nat /\ silent \in Nat /\ deadFor \in Nat
    /\ ahead \in Nat /\ later \in Nat
    /\ ahead + later <= Backlog

\* Every variable has its type; no more packets wait than the socket holds,
\* and none is taken that is not there.
TypeOK == FlagsOK /\ CountsOK

\* The kit never gives up a session that is alive, unless a callback ran
\* for longer than Cycle while the PINGRESP was waiting behind it: a backlog
\* of commands, each with its own handler, does not starve the ping.
NoFalseTimeout == [][open /\ ~open' => ~alive \/ overran]_vars

\* The broker hears from a live kit before its patience ends, whatever the
\* broker itself sends meanwhile, unless a callback overran.
BrokerServed == open /\ alive /\ ~overran => silent <= Patience

\* A dead link is noticed within two keep-alives of the last packet that was
\* still in the socket, although nothing but the clock tells of it and
\* although publish() keeps writing into the socket.
DeadNoticed == open => deadFor <= DeadBound

\* The bound is reached: time does not stop before the kit has noticed.
DeadIsLeft == open /\ ~alive ~> ~open

\* What holds of the parts.  A closed client starts from nothing; a live
\* link is neither dead nor torn.
SessionParts ==
    /\ ~open => /\ ~alive /\ ~ping /\ ~torn /\ ~overran
                /\ pc = "pass" /\ pong = "none" /\ ahead = 0 /\ later = 0
                /\ since = 0 /\ stalled = 0 /\ asked = 0 /\ deadFor = 0
    /\ alive => ~torn /\ deadFor = 0 /\ stalled = 0
    /\ pong # "none" => ping
    /\ pong = "asked" => alive
    /\ later > 0 => pong = "inbox"
    /\ stalled <= SocketTimeout

\* Neither side is ever quiet for longer than the keep-alive at an entry of
\* loop(), and the broker's silence is what lastOutActivity says.
AgesKept ==
    /\ ~overran => since <= Cycle
    /\ open => /\ since <= inAge
               /\ inAge <= Keep + since + stalled
               /\ outAge <= Keep + since + stalled
    /\ alive => silent = outAge

\* A live broker answers in time, and the answer moves up one place in each
\* call of loop(): the keep-alive cannot run out before it is read.
PongOnTime ==
    alive /\ ping =>
        /\ pong # "none"
        /\ since <= asked /\ inAge <= asked /\ outAge <= asked
        /\ pong = "asked" => asked <= Answer
        /\ pong = "inbox" /\ ~overran =>
               asked <= Answer + Slots(Backlog - ahead + Taking) + since

\* How old a death may be: while packets wait it grows with what was taken,
\* then with the incoming side, once until the ping and once after it.
DeathBounded ==
    open =>
        IF Waiting > 0 \/ torn
        THEN deadFor <= Slots(Backlog + 1 - Waiting + Taking) + Counted + stalled
        ELSE IF ping
             THEN /\ deadFor <= Drained + Keep + Cycle + inAge
                  /\ deadFor <= Drained + 2 * Keep + Cycle + Counted
             ELSE /\ deadFor <= Drained + inAge
                  /\ deadFor <= Drained + Keep + Counted

\* Ages, pings and deaths keep their bounds (the inductive invariant).
KeepAliveInv == SessionParts /\ AgesKept /\ PongOnTime /\ DeathBounded

\* A session of connectIot in its time: half-open ones are left, and living
\* ones only after a callback that overran.
View == INSTANCE Session WITH
    opener   <- IF open THEN "begin" ELSE "none",
    line     <- IF ~open THEN "closed" ELSE IF alive THEN "live" ELSE "dead",
    strained <- overran

\* The ping timer keeps the promise MqttSession relies on.
SessionKept == View!Spec
=============================================================================
