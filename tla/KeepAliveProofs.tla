-------------------------- MODULE KeepAliveProofs ---------------------------
(***************************************************************************)
(* Theorems about KeepAlive, for every keep-alive, cycle, backlog and       *)
(* delay that satisfy its assumptions.                                      *)
(***************************************************************************)
EXTENDS KeepAlive, TLAPS

\* The product with Cycle, one packet at a time.
LEMMA SlotsFacts ==
    ASSUME NEW n \in Nat
    PROVE  /\ Slots(n) \in Nat
           /\ Slots(n + 1) = Slots(n) + Cycle
BY TimesAssumption DEF Slots

\* More packets take longer.
LEMMA SlotsGrow ==
    ASSUME NEW m \in Nat, NEW n \in Nat, m <= n
    PROVE  Slots(m) <= Slots(n)
BY TimesAssumption DEF Slots

-----------------------------------------------------------------------------
(* Types.                                                                   *)

LEMMA TypeInit == Init => TypeOK
<1>1. Init => FlagsOK
  BY Zenon DEF Init, FlagsOK
<1>2. Init => CountsOK
  BY TimesAssumption DEF Init, CountsOK
<1> QED
  BY <1>1, <1>2 DEF TypeOK

LEMMA FlagsStep == FlagsOK /\ [Next]_vars => FlagsOK'
<1> SUFFICES ASSUME FlagsOK, [Next]_vars PROVE FlagsOK'
  OBVIOUS
<1> USE DEF FlagsOK
<1>1. CASE Connect
  BY Zenon, <1>1 DEF Connect, client, inbox, observed
<1>2. CASE LoopTimeout \/ SocketCloses
  BY Zenon, <1>2 DEF LoopTimeout, SocketCloses, Close, client, inbox, observed
<1>3. CASE LoopPing
  BY Zenon, <1>3 DEF LoopPing, Enter, client, inbox, observed
<1>4. CASE LoopQuiet
  BY Zenon, <1>4 DEF LoopQuiet, Enter, client, inbox, observed
<1>5. CASE ReadNothing \/ HandlerReturns
  BY Zenon, <1>5 DEF ReadNothing, HandlerReturns, client, inbox, observed
<1>6. CASE ReadPublish
  BY Zenon, <1>6 DEF ReadPublish, client, inbox, observed
<1>7. CASE ReadPong
  BY Zenon, <1>7 DEF ReadPong, client, inbox, observed
<1>8. CASE ReadTorn
  BY Zenon, <1>8 DEF ReadTorn, client, inbox, observed
<1>9. CASE Publish
  BY Zenon, <1>9 DEF Publish, client, inbox, observed
<1>10. CASE BrokerPublishes
  BY Zenon, <1>10 DEF BrokerPublishes, client, inbox, observed
<1>11. CASE BrokerAnswers
  BY Zenon, <1>11 DEF BrokerAnswers, client, inbox, observed
<1>12. CASE LinkDies
  BY Zenon, <1>12 DEF LinkDies, client, inbox, observed
<1>13. CASE Tick
  BY Zenon, <1>13 DEF Tick, client, inbox, observed
<1>14. CASE UNCHANGED vars
  BY Zenon, <1>14 DEF vars, client, inbox, observed
<1> QED
  BY <1>1, <1>2, <1>3, <1>4, <1>5, <1>6, <1>7, <1>8, <1>9, <1>10, <1>11,
     <1>12, <1>13, <1>14 DEF Next, Loop

LEMMA CountsStep == FlagsOK /\ CountsOK /\ [Next]_vars => CountsOK'
<1> SUFFICES ASSUME FlagsOK, CountsOK, [Next]_vars PROVE CountsOK'
  OBVIOUS
<1> USE TimesAssumption DEF FlagsOK, CountsOK
<1>1. CASE Connect
  BY <1>1 DEF Connect, client, inbox, observed
<1>2. CASE LoopTimeout \/ SocketCloses
  BY <1>2 DEF LoopTimeout, SocketCloses, Close, client, inbox, observed
<1>3. CASE LoopPing
  BY <1>3 DEF LoopPing, Enter, client, inbox, observed
<1>4. CASE LoopQuiet
  BY <1>4 DEF LoopQuiet, Enter, client, inbox, observed
<1>5. CASE ReadNothing \/ HandlerReturns
  BY <1>5 DEF ReadNothing, HandlerReturns, client, inbox, observed
<1>6. CASE ReadPublish
  BY <1>6 DEF ReadPublish, client, inbox, observed
<1>7. CASE ReadPong
  BY <1>7 DEF ReadPong, client, inbox, observed
<1>8. CASE ReadTorn
  BY <1>8 DEF ReadTorn, client, inbox, observed
<1>9. CASE Publish
  BY <1>9 DEF Publish, client, inbox, observed
<1>10. CASE BrokerPublishes
  BY <1>10 DEF BrokerPublishes, client, inbox, observed
<1>11. CASE BrokerAnswers
  BY <1>11 DEF BrokerAnswers, client, inbox, observed
<1>12. CASE LinkDies
  BY <1>12 DEF LinkDies, client, inbox, observed
<1>13. CASE Tick
  BY <1>13 DEF Tick, client, inbox, observed
<1>14. CASE UNCHANGED vars
  BY <1>14 DEF vars, client, inbox, observed
<1> QED
  BY <1>1, <1>2, <1>3, <1>4, <1>5, <1>6, <1>7, <1>8, <1>9, <1>10, <1>11,
     <1>12, <1>13, <1>14 DEF Next, Loop

LEMMA TypeStep == TypeOK /\ [Next]_vars => TypeOK'
BY FlagsStep, CountsStep DEF TypeOK

\* No more packets wait than the socket holds, and no packet is taken that
\* is not there.
THEOREM TypeCorrect == Spec => []TypeOK
BY TypeInit, TypeStep, PTL DEF Spec

-----------------------------------------------------------------------------
(* The parts of the session, and the ages of the time stamps.               *)

LEMMA PartsStep ==
    TypeOK /\ SessionParts /\ [Next]_vars => SessionParts'
<1> SUFFICES ASSUME TypeOK, SessionParts, [Next]_vars PROVE SessionParts'
  OBVIOUS
<1> USE TimesAssumption DEF TypeOK, FlagsOK, CountsOK, SessionParts
<1>1. CASE Connect
  BY <1>1 DEF Connect, inbox
<1>2. CASE LoopTimeout \/ SocketCloses
  BY <1>2 DEF LoopTimeout, SocketCloses, Close
<1>3. CASE LoopPing
  BY <1>3 DEF LoopPing, Enter
<1>4. CASE LoopQuiet
  BY <1>4 DEF LoopQuiet, Enter, inbox, observed
<1>5. CASE ReadNothing \/ HandlerReturns
  BY <1>5 DEF ReadNothing, HandlerReturns, inbox, observed
<1>6. CASE ReadPublish
  BY <1>6 DEF ReadPublish, observed
<1>7. CASE ReadPong
  BY <1>7 DEF ReadPong
<1>8. CASE ReadTorn
  BY <1>8 DEF ReadTorn, observed
<1>9. CASE Publish
  BY <1>9 DEF Publish, inbox
<1>10. CASE BrokerPublishes
  BY <1>10 DEF BrokerPublishes, client, observed
<1>11. CASE BrokerAnswers
  BY <1>11 DEF BrokerAnswers, client, observed
<1>12. CASE LinkDies
  BY <1>12 DEF LinkDies, client
<1>13. CASE Tick
  BY <1>13 DEF Tick, inbox, Stalling
<1>14. CASE UNCHANGED vars
  BY <1>14 DEF vars, client, inbox, observed
<1> QED
  BY <1>1, <1>2, <1>3, <1>4, <1>5, <1>6, <1>7, <1>8, <1>9, <1>10, <1>11,
     <1>12, <1>13, <1>14 DEF Next, Loop

LEMMA AgesStep ==
    TypeOK /\ SessionParts /\ AgesKept /\ [Next]_vars => AgesKept'
<1> SUFFICES ASSUME TypeOK, SessionParts, AgesKept, [Next]_vars PROVE AgesKept'
  OBVIOUS
<1> USE TimesAssumption DEF TypeOK, FlagsOK, CountsOK, SessionParts, AgesKept
<1>1. CASE Connect
  BY <1>1 DEF Connect, inbox
<1>2. CASE LoopTimeout \/ SocketCloses
  BY <1>2 DEF LoopTimeout, SocketCloses, Close
<1>3. CASE LoopPing
  BY <1>3 DEF LoopPing, Enter
<1>4. CASE LoopQuiet
  BY <1>4 DEF LoopQuiet, Enter, inbox, observed, Due
<1>5. CASE ReadNothing \/ HandlerReturns
  BY <1>5 DEF ReadNothing, HandlerReturns, inbox, observed
<1>6. CASE ReadPublish
  BY <1>6 DEF ReadPublish, observed
<1>7. CASE ReadPong
  BY <1>7 DEF ReadPong
<1>8. CASE ReadTorn
  BY <1>8 DEF ReadTorn, observed
<1>9. CASE Publish
  BY <1>9 DEF Publish, inbox
<1>10. CASE BrokerPublishes
  BY <1>10 DEF BrokerPublishes, client, observed
<1>11. CASE BrokerAnswers
  BY <1>11 DEF BrokerAnswers, client, observed
<1>12. CASE LinkDies
  BY <1>12 DEF LinkDies, client
<1>13. CASE Tick
  BY <1>13 DEF Tick, inbox, Stalling
<1>14. CASE UNCHANGED vars
  BY <1>14 DEF vars, client, inbox, observed
<1> QED
  BY <1>1, <1>2, <1>3, <1>4, <1>5, <1>6, <1>7, <1>8, <1>9, <1>10, <1>11,
     <1>12, <1>13, <1>14 DEF Next, Loop

-----------------------------------------------------------------------------
(* The answer to a ping comes before the keep-alive runs out.               *)

LEMMA PongStep ==
    TypeOK /\ SessionParts /\ AgesKept /\ PongOnTime /\ [Next]_vars => PongOnTime'
<1> SUFFICES ASSUME TypeOK, SessionParts, AgesKept, PongOnTime, [Next]_vars
             PROVE  PongOnTime'
  OBVIOUS
<1> USE TimesAssumption DEF TypeOK, FlagsOK, CountsOK, PongOnTime
<1>a. \A n \in Nat : Slots(n) \in Nat /\ Slots(n + 1) = Slots(n) + Cycle
  BY SlotsFacts
<1>1. CASE Connect
  BY <1>1 DEF Connect
<1>2. CASE LoopTimeout \/ SocketCloses
  BY <1>2 DEF LoopTimeout, SocketCloses, Close
<1>3. CASE LoopPing
  BY <1>3 DEF LoopPing, Enter, SessionParts
<1>4. CASE LoopQuiet
  <2>1. Taking = 0 /\ Taking' = 1 /\ Backlog - ahead \in Nat
    BY <1>4 DEF LoopQuiet, Enter, Taking
  <2>2. Slots(Backlog - ahead + Taking') = Slots(Backlog - ahead + Taking) + Cycle
    BY <2>1, <1>a
  <2>3. ~overran => since <= Cycle
    BY DEF AgesKept
  <2> QED
    BY <1>4, <1>a, <2>1, <2>2, <2>3 DEF LoopQuiet, Enter, inbox, observed
<1>5. CASE ReadNothing \/ HandlerReturns
  BY <1>5 DEF ReadNothing, HandlerReturns, inbox, observed, Taking
<1>6. CASE ReadPublish
  <2>1. Backlog - ahead + Taking = Backlog - ahead' + Taking'
    BY <1>6 DEF ReadPublish, Taking
  <2> QED
    BY <1>6, <2>1 DEF ReadPublish, observed
<1>7. CASE ReadPong
  BY <1>7 DEF ReadPong
<1>8. CASE ReadTorn
  BY <1>8 DEF ReadTorn, SessionParts, observed
<1>9. CASE Publish
  BY <1>9 DEF Publish, inbox, Taking
<1>10. CASE BrokerPublishes
  BY <1>10 DEF BrokerPublishes, client, observed, Taking
<1>11. CASE BrokerAnswers
  <2>1. Backlog - ahead + Taking \in Nat
    BY DEF Taking
  <2>2. Slots(Backlog - ahead + Taking) \in Nat
    BY <2>1, <1>a
  <2>3. Taking' = Taking /\ ahead' = ahead /\ since' = since
    BY <1>11 DEF BrokerAnswers, client, Taking
  <2> QED
    BY <1>11, <2>1, <2>2, <2>3 DEF BrokerAnswers, client, observed
<1>12. CASE LinkDies
  BY <1>12 DEF LinkDies
<1>13. CASE Tick
  <2>1. Taking' = Taking /\ ahead' = ahead
    BY <1>13 DEF Tick, inbox, Taking
  <2>2. alive => ~Stalling
    BY DEF Stalling, SessionParts
  <2>3. Backlog - ahead + Taking \in Nat
    BY DEF Taking
  <2>4. Slots(Backlog - ahead + Taking) \in Nat
    BY <2>3, <1>a
  <2> QED
    BY <1>13, <2>1, <2>2, <2>4 DEF Tick, inbox
<1>14. CASE UNCHANGED vars
  BY <1>14 DEF vars, client, inbox, observed, Taking
<1> QED
  BY <1>1, <1>2, <1>3, <1>4, <1>5, <1>6, <1>7, <1>8, <1>9, <1>10, <1>11,
     <1>12, <1>13, <1>14 DEF Next, Loop

-----------------------------------------------------------------------------
(* How old a death may be.                                                  *)

\* The counted part of a cycle.
LEMMA CountedFacts ==
    ASSUME TypeOK
    PROVE  Counted \in Nat /\ Counted <= since /\ Counted <= Cycle
BY TimesAssumption DEF TypeOK, CountsOK, Counted

\* While packets wait, the bound is part of what a full backlog takes.
LEMMA WithinDrained ==
    ASSUME TypeOK, SessionParts, Waiting <= Backlog + 1
    PROVE  LET n == Backlog + 1 - Waiting + Taking IN
           /\ n \in Nat /\ Slots(n) \in Nat
           /\ Slots(n) + stalled <= Drained
           /\ Drained \in Nat
<1> DEFINE n == Backlog + 1 - Waiting + Taking
<1>1. Waiting \in Nat /\ Taking \in {0, 1}
  BY DEF TypeOK, CountsOK, Waiting, Taking
<1>2. n \in Nat /\ n <= Backlog + 2 /\ Backlog + 2 \in Nat
  BY <1>1, TimesAssumption
<1>3. Slots(n) <= Slots(Backlog + 2) /\ Slots(n) \in Nat /\ Slots(Backlog + 2) \in Nat
  <2> HIDE DEF n
  <2> QED
    BY <1>2, SlotsGrow, SlotsFacts
<1> QED
  BY <1>2, <1>3, TimesAssumption DEF Drained, TypeOK, CountsOK, SessionParts

\* The bookkeeping of what waits fits the backlog.
LEMMA WaitingFits == TypeOK => Waiting \in Nat /\ Waiting <= Backlog + 1
BY TimesAssumption DEF TypeOK, FlagsOK, CountsOK, Waiting

\* What the bounds are made of.
LEMMA BoundFacts ==
    ASSUME TypeOK, SessionParts
    PROVE  /\ Waiting \in Nat /\ Waiting <= Backlog + 1
           /\ Taking \in {0, 1}
           /\ Counted \in Nat /\ Counted <= since /\ Counted <= Cycle
           /\ Drained \in Nat
           /\ Slots(Backlog + 1 - Waiting + Taking) \in Nat
           /\ Slots(Backlog + 1 - Waiting + Taking) + stalled <= Drained
BY WaitingFits, CountedFacts, WithinDrained DEF Taking

\* A link that has not died for any time is within every bound.
Recent == deadFor = 0

LEMMA NoDeath == TypeOK /\ SessionParts /\ Recent => DeathBounded
<1> SUFFICES ASSUME TypeOK, SessionParts, Recent PROVE DeathBounded
  OBVIOUS
<1> USE DEF Recent
<1>1. Counted \in Nat /\ Drained \in Nat
      /\ Slots(Backlog + 1 - Waiting + Taking) \in Nat
  BY BoundFacts
<1>2. inAge \in Nat /\ stalled \in Nat
  BY DEF TypeOK, CountsOK
<1> QED
  BY <1>1, <1>2, TimesAssumption DEF DeathBounded

LEMMA NoDeathNext == TypeOK' /\ SessionParts' /\ Recent' => DeathBounded'
BY NoDeath, PTL

\* A packet that is taken was counted as being taken.
LEMMA DeathRead ==
    ASSUME TypeOK, SessionParts, DeathBounded, ReadPublish \/ ReadPong
    PROVE  DeathBounded'
<1>1. /\ Taking = 1 /\ Taking' = 0 /\ Counted' = Counted /\ inAge' = since
      /\ UNCHANGED <<since, stalled, deadFor, torn, open>>
  BY DEF ReadPublish, ReadPong, observed, Taking, Counted
<1>2. Waiting > 0 /\ Waiting' = Waiting - 1
  <2>1. CASE ReadPublish
    BY <2>1 DEF ReadPublish, Waiting, TypeOK, FlagsOK, CountsOK
  <2>2. CASE ReadPong
    BY <2>2 DEF ReadPong, Waiting, TypeOK, FlagsOK, CountsOK
  <2> QED
    BY <2>1, <2>2
<1>3. Backlog + 1 - Waiting' + Taking' = Backlog + 1 - Waiting + Taking
  BY <1>1, <1>2, WaitingFits, TimesAssumption
<1>4. CASE open
  <2>1. deadFor' <= Slots(Backlog + 1 - Waiting' + Taking') + Counted' + stalled'
    BY <1>1, <1>2, <1>3, <1>4 DEF DeathBounded
  <2>2. deadFor <= Drained + since /\ deadFor <= Drained + Counted
    BY <1>1, <1>2, <1>4, BoundFacts DEF DeathBounded, TypeOK, CountsOK
  <2>3. /\ Drained \in Nat /\ Counted \in Nat /\ since \in Nat /\ deadFor \in Nat
        /\ Keep \in Nat /\ Cycle \in Nat
    BY BoundFacts, TimesAssumption DEF TypeOK, CountsOK
  <2>4. /\ deadFor <= Drained + Keep + Cycle + since
        /\ deadFor <= Drained + 2 * Keep + Cycle + Counted
        /\ deadFor <= Drained + Keep + Counted
    BY <2>2, <2>3
  <2> QED
    BY <1>1, <2>1, <2>2, <2>4 DEF DeathBounded
<1>5. CASE ~open
  BY <1>1, <1>5 DEF DeathBounded
<1> QED
  BY <1>4, <1>5

\* Entering loop() starts a new slot; a ping starts the second keep-alive.
LEMMA DeathEnter ==
    ASSUME TypeOK, SessionParts, DeathBounded, ~alive, LoopPing \/ LoopQuiet
    PROVE  DeathBounded'
<1>1. /\ open /\ pc = "pass" /\ since' = 0
      /\ Taking = 0 /\ Taking' = 1 /\ Waiting' = Waiting
      /\ UNCHANGED <<torn, stalled, deadFor>>
  BY DEF LoopPing, LoopQuiet, Enter, inbox, observed, Taking, Waiting
<1>2. Counted' = 0
  BY <1>1, TimesAssumption DEF Counted
<1>3. CASE Waiting > 0 \/ torn
  <2> DEFINE n == Backlog + 1 - Waiting
  <2>1. n \in Nat /\ n + Taking = n
    BY <1>1, WaitingFits, TimesAssumption
  <2>2. Slots(n) \in Nat /\ Slots(n + Taking') = Slots(n) + Cycle
    <3> HIDE DEF n
    <3> QED
      BY <1>1, <2>1, SlotsFacts
  <2>3. deadFor <= Slots(n) + Counted + stalled
    BY <1>1, <1>3, <2>1 DEF DeathBounded
  <2>4. deadFor' <= Slots(n + Taking') + Counted' + stalled'
    BY <1>1, <1>2, <2>2, <2>3, BoundFacts, TimesAssumption DEF TypeOK, CountsOK
  <2>5. Backlog + 1 - Waiting' + Taking' = n + Taking'
    BY <1>1
  <2> QED
    BY <1>1, <1>3, <2>4, <2>5 DEF DeathBounded
<1>4. CASE ~(Waiting > 0 \/ torn) /\ LoopPing
  <2>1. ~ping /\ ping' /\ inAge' = 0
    BY <1>4 DEF LoopPing
  <2>2. deadFor <= Drained + Keep + Counted
    BY <1>1, <1>4, <2>1 DEF DeathBounded
  <2>3. deadFor' <= Drained + Keep + Cycle
    BY <1>1, <2>2, BoundFacts, TimesAssumption DEF TypeOK, CountsOK
  <2>4. Drained \in Nat /\ deadFor' \in Nat
    BY <1>1, BoundFacts DEF TypeOK, CountsOK
  <2> QED
    BY <1>1, <1>2, <1>4, <2>1, <2>3, <2>4, TimesAssumption DEF DeathBounded
<1>5. CASE ~(Waiting > 0 \/ torn) /\ LoopQuiet
  <2>1. inAge <= Keep /\ ping' = ping /\ inAge' = inAge /\ open' = open
    BY <1>5, TimesAssumption DEF LoopQuiet, Due, TypeOK, CountsOK
  <2>2. Drained \in Nat /\ deadFor \in Nat /\ inAge \in Nat
    BY BoundFacts DEF TypeOK, CountsOK
  <2> QED
    BY <1>1, <1>2, <1>5, <2>1, <2>2, TimesAssumption DEF DeathBounded
<1> QED
  BY <1>3, <1>4, <1>5

\* A torn packet ends the working off.
LEMMA DeathTorn ==
    ASSUME TypeOK, SessionParts, AgesKept, DeathBounded, ReadTorn
    PROVE  DeathBounded'
<1>1. /\ torn /\ ~torn' /\ Waiting = 0 /\ Waiting' = 0
      /\ UNCHANGED <<open, inAge, ping, since, stalled, deadFor>>
  BY DEF ReadTorn, observed, Waiting, SessionParts, TypeOK, CountsOK
<1>2. Counted' = Counted
  BY <1>1 DEF Counted
<1>3. CASE open
  <2>1. deadFor <= Slots(Backlog + 1 - Waiting + Taking) + Counted + stalled
    BY <1>1, <1>3 DEF DeathBounded
  <2>2. deadFor <= Drained + Counted /\ deadFor <= Drained + inAge
    BY <1>3, <2>1, BoundFacts DEF TypeOK, CountsOK, AgesKept
  <2>3. Drained \in Nat /\ Counted \in Nat /\ inAge \in Nat /\ deadFor \in Nat
    BY BoundFacts DEF TypeOK, CountsOK
  <2> QED
    BY <1>1, <1>2, <2>2, <2>3, TimesAssumption DEF DeathBounded
<1>4. CASE ~open
  BY <1>1, <1>4 DEF DeathBounded
<1> QED
  BY <1>3, <1>4

\* Time: the age of a death grows with the slot, the stall or the incoming
\* side; an overrun is not counted.
LEMMA DeathTick ==
    ASSUME TypeOK, SessionParts, DeathBounded, ~alive, Tick
    PROVE  DeathBounded'
<1>1. /\ open /\ open' /\ inAge' = inAge + 1
      /\ Taking' = Taking /\ Waiting' = Waiting
      /\ UNCHANGED <<torn, ping>>
  BY DEF Tick, inbox, Taking, Waiting
<1>2. \/ torn /\ stalled' = stalled + 1 /\ deadFor' = deadFor + 1 /\ Counted' = Counted
      \/ stalled' = stalled /\ deadFor' = deadFor + 1 /\ Counted' = Counted + 1
      \/ stalled' = stalled /\ deadFor' = deadFor /\ Counted' = Counted
  BY TimesAssumption DEF Tick, Stalling, Counted, TypeOK, CountsOK
<1>3. /\ Drained \in Nat /\ Counted \in Nat
      /\ Slots(Backlog + 1 - Waiting + Taking) \in Nat
      /\ inAge \in Nat /\ deadFor \in Nat /\ stalled \in Nat
  BY BoundFacts DEF TypeOK, CountsOK
<1>4. Slots(Backlog + 1 - Waiting' + Taking') = Slots(Backlog + 1 - Waiting + Taking)
  BY <1>1
<1> QED
  BY <1>1, <1>2, <1>3, <1>4, TimesAssumption DEF DeathBounded

LEMMA DeathStep ==
    TypeOK /\ SessionParts /\ AgesKept /\ DeathBounded /\ [Next]_vars => DeathBounded'
<1> SUFFICES ASSUME TypeOK, SessionParts, AgesKept, DeathBounded, [Next]_vars
             PROVE  DeathBounded'
  OBVIOUS
<1>1. TypeOK' /\ SessionParts'
  BY TypeStep, PartsStep
<1>2. CASE deadFor' = 0
  BY <1>1, <1>2, NoDeathNext DEF Recent
<1>3. CASE alive /\ [Next]_vars /\ deadFor' # 0
  <2>1. deadFor = 0
    BY <1>3 DEF SessionParts
  <2> QED
    BY <1>3, <2>1 DEF Next, Loop, Connect, LoopTimeout, SocketCloses, Close, LoopPing,
      LoopQuiet, ReadNothing, HandlerReturns, ReadPublish, ReadPong, ReadTorn, Publish,
      BrokerPublishes, BrokerAnswers, LinkDies, Tick, Stalling, SessionParts, observed,
      client, inbox, vars
<1>4. CASE ~alive /\ (ReadPublish \/ ReadPong)
  BY <1>4, DeathRead
<1>5. CASE ~alive /\ (LoopPing \/ LoopQuiet)
  BY <1>5, DeathEnter
<1>6. CASE ReadTorn
  BY <1>6, DeathTorn
<1>7. CASE ~alive /\ Tick
  BY <1>7, DeathTick
<1>8. CASE LoopTimeout \/ SocketCloses
  BY <1>8, <1>2 DEF LoopTimeout, SocketCloses, Close
<1>9. CASE Connect
  BY <1>9, <1>2 DEF Connect, SessionParts
<1>10. CASE ~alive /\ (BrokerPublishes \/ BrokerAnswers \/ LinkDies)
  BY <1>10 DEF BrokerPublishes, BrokerAnswers, LinkDies
<1>11. CASE HandlerReturns
  <2>1. /\ UNCHANGED <<open, inAge, ping, stalled, deadFor, torn>>
        /\ Counted' = Counted /\ Waiting' = Waiting /\ Taking' = Taking
    BY <1>11 DEF HandlerReturns, inbox, observed, Counted, Waiting, Taking
  <2> QED
    BY <2>1 DEF DeathBounded
<1>13. CASE ReadNothing
  <2>1. /\ UNCHANGED <<open, inAge, ping, stalled, deadFor, torn>>
        /\ Counted' = Counted /\ Waiting' = Waiting
    BY <1>13 DEF ReadNothing, inbox, observed, Counted, Waiting
  <2>2. ~(Waiting > 0 \/ torn)
    BY <1>13 DEF ReadNothing, Waiting, SessionParts, TypeOK, CountsOK
  <2> QED
    BY <2>1, <2>2 DEF DeathBounded
<1>12. CASE Publish \/ UNCHANGED vars
  <2>1. /\ UNCHANGED <<open, inAge, ping, stalled, deadFor, torn>>
        /\ Counted' = Counted /\ Waiting' = Waiting /\ Taking' = Taking
    BY <1>12 DEF Publish, vars, client, inbox, observed, Counted, Waiting, Taking
  <2> QED
    BY <2>1 DEF DeathBounded
<1> QED
  BY <1>2, <1>3, <1>4, <1>5, <1>6, <1>7, <1>8, <1>9, <1>10, <1>11, <1>12,
     <1>13 DEF Next, Loop

-----------------------------------------------------------------------------
(* The theorems.                                                            *)

LEMMA KeepAliveInit == Init => KeepAliveInv
<1> SUFFICES ASSUME Init PROVE KeepAliveInv
  OBVIOUS
<1>1. SessionParts
  BY TimesAssumption DEF Init, SessionParts
<1>2. AgesKept /\ PongOnTime
  BY TimesAssumption DEF Init, AgesKept, PongOnTime
<1>3. DeathBounded
  BY DEF Init, DeathBounded
<1> QED
  BY <1>1, <1>2, <1>3 DEF KeepAliveInv

LEMMA KeepAliveStep == TypeOK /\ KeepAliveInv /\ [Next]_vars => KeepAliveInv'
BY PartsStep, AgesStep, PongStep, DeathStep DEF KeepAliveInv

\* Ages, pings and deaths keep their bounds (the inductive invariant).
THEOREM KeepAliveInvariance == Spec => []KeepAliveInv
<1>1. Spec => []TypeOK
  BY TypeCorrect
<1> QED
  BY <1>1, KeepAliveInit, KeepAliveStep, PTL DEF Spec

\* A live client that has not overrun is heard before the broker's patience ends.
THEOREM ServedInTime == Spec => []BrokerServed
<1>1. TypeOK /\ KeepAliveInv => BrokerServed
  BY TimesAssumption, PatienceAssumption
  DEF KeepAliveInv, SessionParts, AgesKept, BrokerServed, TypeOK, CountsOK
<1> QED
  BY <1>1, TypeCorrect, KeepAliveInvariance, PTL

\* A dead link is noticed within two keep-alives of the last packet.
THEOREM DeathIsNoticed == Spec => []DeadNoticed
<1>1. TypeOK /\ KeepAliveInv => DeadNoticed
  <2> SUFFICES ASSUME TypeOK, KeepAliveInv, open
               PROVE  deadFor <= Drained + 2 * (Keep + Cycle)
    BY DEF DeadNoticed, DeadBound
  <2>1. DeathBounded /\ SessionParts
    BY DEF KeepAliveInv
  <2>2. /\ Drained \in Nat /\ Counted \in Nat /\ Counted <= Cycle
        /\ Slots(Backlog + 1 - Waiting + Taking) \in Nat
        /\ Slots(Backlog + 1 - Waiting + Taking) + stalled <= Drained
        /\ deadFor \in Nat /\ stalled \in Nat
    BY <2>1, BoundFacts DEF TypeOK, CountsOK
  <2> QED
    BY <2>1, <2>2, TimesAssumption DEF DeathBounded
<1> QED
  BY <1>1, TypeCorrect, KeepAliveInvariance, PTL

\* The kit never gives up a live session but after an overrun.
THEOREM LiveIsKept == Spec => NoFalseTimeout
<1>1. TypeOK /\ KeepAliveInv /\ [Next]_vars => [open /\ ~open' => ~alive \/ overran]_vars
  <2> SUFFICES ASSUME TypeOK, KeepAliveInv, Next, open, ~open', alive, ~overran
               PROVE  FALSE
    BY Zenon
  <2>1. LoopTimeout
    BY DEF Next, Loop, Connect, LoopPing, LoopQuiet, Enter, ReadNothing, ReadPublish,
      ReadPong, ReadTorn, HandlerReturns, Publish, BrokerPublishes, BrokerAnswers,
      LinkDies, SocketCloses, Tick, client
  <2>2. ping /\ pc = "pass" /\ (inAge > Keep \/ outAge > Keep)
    BY <2>1 DEF LoopTimeout, Due
  <2>3. /\ inAge <= asked /\ outAge <= asked /\ pong \in {"asked", "inbox"}
        /\ pong = "asked" => asked <= Answer
        /\ pong = "inbox" => asked <= Answer + Slots(Backlog - ahead + Taking) + since
        /\ since <= Cycle
    BY <2>2 DEF KeepAliveInv, PongOnTime, AgesKept, TypeOK, FlagsOK
  <2>4. Slots(Backlog - ahead + Taking) <= Slots(Backlog)
    <3>1. Taking = 0
      BY <2>2 DEF Taking
    <3>2. Backlog - ahead + Taking \in Nat /\ Backlog - ahead + Taking <= Backlog
          /\ Backlog \in Nat
      BY <3>1, TimesAssumption DEF TypeOK, CountsOK
    <3> QED
      BY <3>2, SlotsGrow
  <2>5. /\ Answer + Slots(Backlog) + Cycle <= Keep
        /\ Slots(Backlog) \in Nat /\ Slots(Backlog - ahead + Taking) \in Nat
    <3>1. Answer + Slots(Backlog + 1) <= Keep
      BY BacklogAssumption DEF Slots
    <3>2. Backlog - ahead + Taking \in Nat
      BY TimesAssumption DEF TypeOK, CountsOK, Taking
    <3> QED
      BY <3>1, <3>2, SlotsFacts, TimesAssumption
  <2> QED
    BY <2>2, <2>3, <2>4, <2>5, TimesAssumption DEF TypeOK, CountsOK
<1> QED
  BY <1>1, TypeCorrect, KeepAliveInvariance, PTL DEF Spec, NoFalseTimeout

-----------------------------------------------------------------------------
(* The session as MqttSession has it.                                       *)

LEMMA ViewStep ==
    ASSUME TypeOK, KeepAliveInv, [Next]_vars, [open /\ ~open' => ~alive \/ overran]_vars
    PROVE  [View!Next]_(View!vars)
<1> SUFFICES ASSUME Next, ~UNCHANGED vars
             PROVE  View!Open \/ View!Die \/ View!Leave \/ View!Strain
  <2>1. overran' \in BOOLEAN
    BY TypeStep DEF TypeOK, FlagsOK
  <2>2. UNCHANGED vars => UNCHANGED View!vars
    BY DEF vars, View!vars, client, observed
  <2> QED
    BY <2>1, <2>2 DEF View!Next
<1> USE DEF View!Open, View!Die, View!Leave, View!Strain, View!Lines
<1>1. CASE Connect
  BY <1>1 DEF Connect
<1>2. CASE LoopTimeout \/ SocketCloses
  <2>1. open /\ ~open'
    BY <1>2 DEF LoopTimeout, SocketCloses, Close
  <2> QED
    BY <2>1
<1>3. CASE LinkDies
  <2>1. alive /\ open
    BY <1>3 DEF LinkDies, KeepAliveInv, SessionParts
  <2> QED
    BY <1>3, <2>1 DEF LinkDies, client
<1>4. CASE \/ LoopPing \/ LoopQuiet \/ ReadNothing \/ ReadPublish \/ ReadPong \/ ReadTorn
           \/ HandlerReturns \/ Publish \/ BrokerPublishes \/ BrokerAnswers \/ Tick
  <2>1. UNCHANGED <<open, alive>>
    BY <1>4 DEF LoopPing, LoopQuiet, ReadNothing, ReadPublish, ReadPong, ReadTorn,
                HandlerReturns, Publish, BrokerPublishes, BrokerAnswers, Tick, client
  <2> QED
    BY <2>1
<1> QED
  BY <1>1, <1>2, <1>3, <1>4 DEF Next, Loop

\* The ping timer, in time, keeps the promise of Session: half-open sessions are
\* left, living ones never but after an overrun.
THEOREM ImplementsSession == Spec => SessionKept
<1>1. Init => View!Init
  BY DEF Init, View!Init
<1> QED
  BY <1>1, ViewStep, TypeCorrect, KeepAliveInvariance, LiveIsKept, PTL
     DEF Spec, NoFalseTimeout, SessionKept, View!Spec
=============================================================================
