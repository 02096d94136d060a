-------------------------- MODULE ResetButtonProofs --------------------------
(***************************************************************************)
(* Theorems about ResetButton, for every clock whose turn is longer than    *)
(* the longest press that may go on without a reset.                        *)
(*                                                                         *)
(* Differences of time stamps are remainders; SinceIs says what they are    *)
(* without a remainder, so that the steps need linear arithmetic only.      *)
(***************************************************************************)
EXTENDS ResetButton, TLAPS

-----------------------------------------------------------------------------
(* Remainders.                                                              *)

\* The clock has a turn.
LEMMA WrapType == Wrap \in Nat /\ Wrap > 0
BY ButtonAssumption

\* A remainder is below the divisor.
LEMMA ModRange == ASSUME NEW x \in Int PROVE x % Wrap \in 0 .. Wrap - 1
BY WrapType, SMT

\* What a number is that one turn of the clock brings into its range.
LEMMA ModSmall == ASSUME NEW x \in 0 .. Wrap - 1 PROVE x % Wrap = x
BY WrapType, SMT

LEMMA ModNegative == ASSUME NEW x \in 1 - Wrap .. -1 PROVE x % Wrap = x + Wrap
BY WrapType, SMT

\* Quotient and remainder, and that the remainder is the only one.
LEMMA DivMod == ASSUME NEW x \in Nat PROVE /\ x \div Wrap \in Nat /\ x = Wrap * (x \div Wrap) + (x % Wrap)
BY WrapType, SMT

LEMMA ModUnique ==
    ASSUME NEW q \in Nat, NEW r \in 0 .. Wrap - 1
    PROVE  (Wrap * q + r) % Wrap = r
BY WrapType, SMT

\* One more, in the range of the clock.
LEMMA ModStep ==
    ASSUME NEW x \in Nat
    PROVE  (x + 1) % Wrap = IF x % Wrap = Wrap - 1 THEN 0 ELSE (x % Wrap) + 1
<1> DEFINE q == x \div Wrap
           r == x % Wrap
<1>1. q \in Nat /\ r \in 0 .. Wrap - 1 /\ x = Wrap * q + r
  BY DivMod, ModRange
<1> HIDE DEF q, r
<1>2. CASE r = Wrap - 1
  <2>1. x + 1 = Wrap * (q + 1) + 0 /\ q + 1 \in Nat
    BY <1>1, <1>2, WrapType
  <2>2. 0 \in 0 .. Wrap - 1
    BY WrapType
  <2>3. (Wrap * (q + 1) + 0) % Wrap = 0
    BY <2>1, <2>2, ModUnique
  <2> QED
    BY <1>2, <2>1, <2>3 DEF r
<1>3. CASE r # Wrap - 1
  <2>1. x + 1 = Wrap * q + (r + 1) /\ r + 1 \in 0 .. Wrap - 1
    BY <1>1, <1>3, WrapType
  <2>2. (Wrap * q + (r + 1)) % Wrap = r + 1
    BY <1>1, <2>1, ModUnique
  <2> QED
    BY <1>3, <2>1, <2>2 DEF r
<1> QED
  BY <1>2, <1>3

\* What the unsigned subtraction of two time stamps is.
LEMMA SinceIs ==
    \A t, u \in Times : Since(t, u) = IF u <= t THEN t - u ELSE t - u + Wrap
<1> SUFFICES ASSUME NEW t \in Times, NEW u \in Times
             PROVE  Since(t, u) = IF u <= t THEN t - u ELSE t - u + Wrap
  OBVIOUS
<1>1. CASE u <= t
  <2>1. t - u \in 0 .. Wrap - 1
    BY <1>1, WrapType DEF Times
  <2> QED
    BY <1>1, <2>1, ModSmall DEF Since
<1>2. CASE ~(u <= t)
  <2>1. t - u \in 1 - Wrap .. -1
    BY <1>2, WrapType DEF Times
  <2> QED
    BY <1>2, <2>1, ModNegative DEF Since
<1> QED
  BY <1>1, <1>2

\* A tick makes every time stamp one older, until it is a turn old.
LEMMA TickSince ==
    ASSUME NEW t \in Times, NEW u \in Times
    PROVE  /\ (t + 1) % Wrap \in Times
           /\ Since((t + 1) % Wrap, u) =
                  IF Since(t, u) = Wrap - 1 THEN 0 ELSE Since(t, u) + 1
<1>1. t % Wrap = t
  BY ModSmall DEF Times
<1>2. (t + 1) % Wrap = IF t = Wrap - 1 THEN 0 ELSE t + 1
  BY <1>1, ModStep DEF Times
<1>3. (t + 1) % Wrap \in Times
  BY <1>2, WrapType DEF Times
<1> QED
  BY <1>2, <1>3, SinceIs, WrapType DEF Times

-----------------------------------------------------------------------------
(* Types.                                                                   *)

\* The first state has its types.
LEMMA TypeInit == Init => TypeOK
<1> SUFFICES ASSUME Init PROVE TypeOK
  OBVIOUS
<1>1. 0 \in Times /\ 0 \in 0 .. QuietMax /\ 0 \in 0 .. HeldMax
  BY ButtonAssumption DEF Times
<1>2. /\ now \in Times /\ last \in Times /\ start \in Times
      /\ int \in Times /\ end \in Times
      /\ quiet \in 0 .. QuietMax /\ held \in 0 .. HeldMax
  BY <1>1, Zenon DEF Init
<1>3. /\ down \in BOOLEAN /\ called \in BOOLEAN /\ raced \in BOOLEAN /\ stale \in BOOLEAN
      /\ pc = "out"
  BY Zenon DEF Init
<1> QED
  BY <1>2, <1>3 DEF TypeOK

\* Every step keeps the types.
LEMMA TypeStep == TypeOK /\ [Next]_vars => TypeOK'
<1> SUFFICES ASSUME TypeOK, [Next]_vars PROVE TypeOK'
  OBVIOUS
<1> USE ButtonAssumption DEF TypeOK
<1>1. CASE Enter
  <2>1. stale' \in BOOLEAN /\ raced' \in BOOLEAN
    BY <1>1 DEF Enter, past
  <2> QED
    BY <1>1, <2>1 DEF Enter, past
<1>2. CASE ReadEnd \/ ReadStart \/ Decide
  BY <1>2 DEF ReadEnd, ReadStart, Decide, past, code
<1>3. CASE Restarted
  <2>1. 0 \in Times /\ 0 \in 0 .. HeldMax
    BY DEF Times
  <2>2. /\ called' \in BOOLEAN /\ raced' \in BOOLEAN /\ stale' \in BOOLEAN
        /\ down' \in BOOLEAN
    BY <1>3, Zenon DEF Restarted
  <2>3. /\ now' \in Times /\ last' \in Times /\ start' \in Times
        /\ int' \in Times /\ end' \in Times /\ held' \in 0 .. HeldMax
    BY <1>3, <2>1, Zenon DEF Restarted
  <2> QED
    BY <1>3, <2>2, <2>3 DEF Restarted
<1>4. CASE Press \/ Release \/ UNCHANGED vars
  BY <1>4 DEF Press, Release, vars, code, past
<1>5. CASE Tick
  <2>1. now' \in Times
    BY <1>5, TickSince DEF Tick
  <2> QED
    BY <1>5, <2>1 DEF Tick, code
<1> QED
  BY <1>1, <1>2, <1>3, <1>4, <1>5 DEF Next, Handler

\* The variables keep their types, and no call of the handler takes more than
\* one tick.
THEOREM TypeCorrect == Spec => []TypeOK
BY TypeInit, TypeStep, PTL DEF Spec

-----------------------------------------------------------------------------
(* The time stamps.                                                         *)

\* The assumptions about the constants, one by one.
LEMMA NumbersType ==
    /\ Gap \in Nat /\ Hold \in Nat /\ Wrap \in Nat /\ HeldMax \in Nat
    /\ 0 < Gap /\ Gap < Hold /\ Hold + Gap + 1 < Wrap /\ Hold + 1 < HeldMax
BY ButtonAssumption

\* What a tick does to the differences with millis().
LEMMA Ticked ==
    ASSUME TypeOK, Tick
    PROVE  \A u \in Times : Since(now', u) =
               IF Since(now, u) = Wrap - 1 THEN 0 ELSE Since(now, u) + 1
BY TickSince DEF Tick, TypeOK

\* A time stamp just taken is no time ago.
LEMMA SinceSelf == \A t \in Times : Since(t, t) = 0
BY SinceIs, WrapType DEF Times

\* A difference is below a turn.
LEMMA SinceType == \A t, u \in Times : Since(t, u) \in 0 .. Wrap - 1
BY SinceIs, WrapType DEF Times

\* Every step keeps the time stamps in agreement with the clock.
LEMMA StampsStep ==
    TypeOK /\ TypeOK' /\ StampsAgree /\ [Next]_vars => StampsAgree'
<1> SUFFICES ASSUME TypeOK, TypeOK', StampsAgree, [Next]_vars PROVE StampsAgree'
  OBVIOUS
<1>1. CASE Enter
  BY <1>1, SinceSelf DEF Enter, TypeOK, StampsAgree
<1>2. CASE ReadEnd
  BY <1>2, SinceSelf DEF ReadEnd, TypeOK, StampsAgree
<1>3. CASE ReadStart
  <2>1. pc = "start" /\ pc' = "decide" /\ last' = int /\ UNCHANGED <<now, called, int, end, quiet>>
    BY <1>3 DEF ReadStart
  <2> QED
    BY <2>1 DEF TypeOK, StampsAgree
<1>4. CASE Decide
  <2>1. quiet \in 0 .. Wrap - 1
    BY <1>4, NumbersType DEF Decide, TypeOK
  <2>2. quiet % Wrap = quiet
    BY <2>1, ModSmall
  <2> QED
    BY <1>4, <2>2 DEF Decide, code, TypeOK, StampsAgree
<1>5. CASE Restarted
  BY <1>5 DEF Restarted, StampsAgree
<1>6. CASE Press \/ Release \/ UNCHANGED vars
  BY <1>6 DEF Press, Release, vars, code, StampsAgree
<1>7. CASE Tick
  <2>1. /\ quiet' = quiet + 1 /\ UNCHANGED <<pc, called, last, int, end>>
        /\ pc # "out" => quiet = 0
    BY <1>7 DEF Tick, code
  <2>2. quiet \in Nat
    BY DEF TypeOK
  <2>3. quiet' % Wrap = IF quiet % Wrap = Wrap - 1 THEN 0 ELSE (quiet % Wrap) + 1
    BY <2>1, <2>2, ModStep
  <2>4. called /\ pc = "out" => Since(now', last') = quiet' % Wrap
    BY <1>7, <2>1, <2>3, Ticked DEF TypeOK, StampsAgree
  <2>5. pc \in {"end", "start", "decide"} => Since(now', int') = quiet'
    BY <1>7, <2>1, Ticked, NumbersType DEF TypeOK, StampsAgree
  <2>6. pc \in {"start", "decide"} => Since(now', end') <= quiet'
    BY <1>7, <2>1, Ticked, SinceType, NumbersType DEF TypeOK, StampsAgree
  <2> QED
    BY <2>1, <2>4, <2>5, <2>6 DEF StampsAgree
<1> QED
  BY <1>1, <1>2, <1>3, <1>4, <1>5, <1>6, <1>7 DEF Next, Handler

-----------------------------------------------------------------------------
(* The press.                                                               *)

\* The age of a press is below a turn.
LEMMA AgeType == TypeOK => Age \in 0 .. Wrap - 1
BY SinceType DEF TypeOK, Age

\* A call of a press that goes on, or the first call of the next one.
LEMMA AgeEnter ==
    ASSUME TypeOK, TypeOK', StampsAgree, AgeAgrees, Enter
    PROVE  AgeAgrees'
<1> USE NumbersType
<1>1. pc = "out" /\ pc' = "end" /\ now' = now /\ int' = now /\ quiet' = 0 /\ called'
  BY DEF Enter
<1>2. CASE ~called
  <2>1. last' = now /\ start' = now /\ held' = 0
    BY <1>2 DEF Enter
  <2>2. Age' = 0 /\ ~NewPress'
    BY <1>1, <2>1, SinceSelf DEF Age, NewPress, TypeOK
  <2> QED
    BY <1>1, <2>1, <2>2 DEF AgeAgrees, Beginning, Known
<1>3. CASE called /\ quiet > Gap
  <2>1. last' = last /\ held' = 0 /\ (stale' <=> quiet % Wrap <= Gap)
    BY <1>3 DEF Enter
  <2>2. NewPress' <=> quiet % Wrap > Gap
    BY <1>1, <1>3, <2>1 DEF NewPress, StampsAgree
  <2>3. quiet % Wrap \in Nat
    BY ModRange DEF TypeOK
  <2>4. ~stale' => Beginning'
    BY <1>1, <2>1, <2>2, <2>3 DEF Beginning
  <2> QED
    BY <1>1, <2>1, <2>4 DEF AgeAgrees, Known
<1>4. CASE called /\ quiet <= Gap
  <2>1. last' = last /\ start' = start /\ UNCHANGED <<held, stale, raced>>
    BY <1>4 DEF Enter, past, TypeOK
  <2>2. quiet % Wrap = quiet
    BY <1>4, ModSmall DEF TypeOK
  <2>3. ~NewPress' /\ Age' = Age
    BY <1>1, <1>4, <2>1, <2>2 DEF NewPress, StampsAgree, Age, TypeOK
  <2>4. Known' => Known
    BY <1>1, <1>4, <2>1 DEF Known, Beginning
  <2> QED
    BY <1>1, <1>4, <2>1, <2>3, <2>4, AgeType DEF AgeAgrees, Beginning, TypeOK
<1> QED
  BY <1>2, <1>3, <1>4 DEF TypeOK

\* The press gets its start_time, or keeps it.
LEMMA AgeReadStart ==
    ASSUME TypeOK, TypeOK', StampsAgree, AgeAgrees, RaceSeen, ReadStart
    PROVE  AgeAgrees'
<1> USE NumbersType
<1>1. /\ pc = "start" /\ pc' = "decide"
      /\ UNCHANGED <<now, called, int, end, quiet, held, stale>>
  BY DEF ReadStart
<1>2. Since(now, end) <= quiet /\ Since(now, end) \in Nat
  BY <1>1, SinceType DEF StampsAgree, TypeOK
<1>3. CASE NewPress
  <2>1. start' = now /\ (raced' <=> end # now)
    BY <1>3 DEF ReadStart
  <2>2. Age' = 0 /\ (~raced' => Since(now, end) = 0)
    BY <1>1, <2>1, SinceSelf DEF Age, TypeOK
  <2>3. ~stale => held = quiet
    BY <1>1, <1>3 DEF AgeAgrees, Beginning
  <2>4. quiet \in 0 .. 1
    BY <1>1 DEF TypeOK
  <2> QED
    BY <1>1, <2>2, <2>3, <2>4 DEF AgeAgrees, Beginning, Known
<1>4. CASE ~NewPress
  <2>1. UNCHANGED <<start, raced>>
    BY <1>4 DEF ReadStart
  <2>2. Age' = Age /\ (Known' => Known)
    BY <1>1, <1>4, <2>1 DEF Age, Known, Beginning
  <2> QED
    BY <1>1, <1>2, <2>1, <2>2, AgeType DEF AgeAgrees, Beginning, TypeOK
<1> QED
  BY <1>3, <1>4

\* A call that returns has found the press short.
LEMMA AgeDecide ==
    ASSUME TypeOK, TypeOK', StampsAgree, AgeAgrees, RaceSeen, Decide
    PROVE  AgeAgrees'
<1> USE NumbersType
<1>1. /\ pc = "decide" /\ UNCHANGED <<now, called, start, end, quiet, held, stale, raced>>
      /\ pc' = IF Since(end, start) > Hold THEN "reset" ELSE "out"
  BY DEF Decide, code, past
<1>2. CASE pc' = "reset"
  BY <1>2 DEF AgeAgrees, Beginning
<1>3. CASE pc' = "out"
  <2>1. Since(end, start) <= Hold
    BY <1>1, <1>3, SinceType DEF TypeOK
  <2>2. ~raced
    BY <1>1, <2>1 DEF RaceSeen
  <2>3. Known' => Known
    BY <1>1, <1>3 DEF Known, Beginning
  <2>4. ASSUME Known' PROVE Age <= Hold + quiet
    <3>1. Since(now, end) <= Age /\ Since(now, end) <= quiet
      BY <1>1, <2>2, <2>3, <2>4 DEF AgeAgrees, StampsAgree
    <3>2. Age = Since(end, start) + Since(now, end)
      BY <3>1, SinceIs DEF Age, TypeOK, Times
    <3> QED
      BY <2>1, <3>1, <3>2, SinceType, AgeType DEF TypeOK
  <2>5. Age' = Age /\ ~Beginning'
    BY <1>1, <1>3 DEF Age, Beginning
  <2>6. Known' => held <= Age + 1 /\ (held >= Age \/ held = HeldMax)
    BY <1>1, <2>3 DEF AgeAgrees
  <2>7. Known' => Age' <= Hold + quiet' + (IF pc' = "out" THEN 0 ELSE Gap)
    BY <1>1, <1>3, <2>4, <2>5, AgeType DEF TypeOK
  <2> QED
    BY <1>1, <1>3, <2>5, <2>6, <2>7 DEF AgeAgrees
<1> QED
  BY <1>1, <1>2, <1>3

\* A tick adds one to the length of the press and to its age.
LEMMA AgeTick ==
    ASSUME TypeOK, TypeOK', StampsAgree, AgeAgrees, Tick
    PROVE  AgeAgrees'
<1> USE NumbersType
<1>1. /\ quiet' = quiet + 1 /\ pc # "reset" /\ (pc # "out" => quiet = 0)
      /\ UNCHANGED <<pc, called, last, start, int, end, raced, stale>>
      /\ held' = IF held < HeldMax THEN held + 1 ELSE held
  BY DEF Tick, code
<1>2. NewPress' = NewPress
  BY <1>1 DEF NewPress
<1>3. Beginning' = Beginning /\ (Known' => Known)
  BY <1>1, <1>2 DEF Beginning, Known, TypeOK
<1>4. Beginning' /\ ~stale' => held' = quiet'
  BY <1>1, <1>3 DEF AgeAgrees, Beginning
<1>5. ASSUME Known'
      PROVE  /\ held' <= Age' + 1 /\ (held' >= Age' \/ held' = HeldMax)
             /\ Age' = Age + 1
             /\ Age' <= Hold + quiet' + (IF pc' = "out" THEN 0 ELSE Gap)
  <2>1. /\ held <= Age + 1 /\ (held >= Age \/ held = HeldMax)
        /\ Age <= Hold + quiet + (IF pc = "out" THEN 0 ELSE Gap)
    BY <1>1, <1>3, <1>5 DEF AgeAgrees
  <2>2. quiet + (IF pc = "out" THEN 0 ELSE Gap) <= Gap
    BY <1>1, <1>5 DEF Known, TypeOK
  <2>3. Age < Wrap - 1
    BY <2>1, <2>2, AgeType DEF TypeOK
  <2>4. Age' = Age + 1
    BY <1>1, <2>3, Ticked, AgeType DEF Age, TypeOK
  <2> QED
    BY <1>1, <2>1, <2>4, AgeType DEF TypeOK
<1>6. Known' /\ pc' \in {"end", "start"} => quiet' <= Age'
  BY <1>1, <1>3, <1>5, AgeType DEF AgeAgrees, TypeOK
<1>7. Known' /\ pc' = "decide" /\ ~raced' => Since(now', end') <= Age'
  <2>1. SUFFICES ASSUME Known', pc' = "decide", ~raced' PROVE Since(now', end') <= Age'
    OBVIOUS
  <2>2. Since(now, end) <= Age
    BY <1>1, <1>3, <2>1 DEF AgeAgrees
  <2>3. Since(now', end') <= Since(now, end) + 1
    BY <1>1, Ticked, SinceType DEF TypeOK
  <2> QED
    BY <1>5, <2>1, <2>2, <2>3, AgeType, SinceType DEF TypeOK
<1> QED
  BY <1>4, <1>5, <1>6, <1>7 DEF AgeAgrees

\* Every step keeps the age of the press in agreement with its length.
LEMMA AgeStep ==
    TypeOK /\ TypeOK' /\ StampsAgree /\ AgeAgrees /\ RaceSeen /\ [Next]_vars => AgeAgrees'
<1> SUFFICES ASSUME TypeOK, TypeOK', StampsAgree, AgeAgrees, RaceSeen, [Next]_vars
             PROVE  AgeAgrees'
  OBVIOUS
<1>1. CASE ReadEnd
  <2>1. /\ pc = "end" /\ pc' = "start"
        /\ UNCHANGED <<now, called, last, start, int, quiet, held, raced, stale>>
    BY <1>1 DEF ReadEnd, past
  <2>2. Beginning' = Beginning /\ Known' = Known /\ Age' = Age
    BY <2>1 DEF Beginning, Known, NewPress, Age
  <2> QED
    BY <2>1, <2>2 DEF AgeAgrees
<1>2. CASE Restarted
  BY <1>2 DEF Restarted, AgeAgrees, Beginning, Known
<1>3. CASE Press \/ Release \/ UNCHANGED vars
  <2>1. UNCHANGED <<now, pc, called, last, start, int, end, quiet, held, raced, stale>>
    BY <1>3 DEF Press, Release, vars, code, past
  <2> QED
    BY <2>1 DEF AgeAgrees, Beginning, Known, NewPress, Age
<1> QED
  BY <1>1, <1>2, <1>3, AgeEnter, AgeReadStart, AgeDecide, AgeTick DEF Next, Handler

-----------------------------------------------------------------------------
(* The theorems.                                                            *)

\* A call that has raced ends in a reset.
LEMMA RaceStep ==
    TypeOK /\ TypeOK' /\ StampsAgree /\ RaceSeen /\ [Next]_vars => RaceSeen'
<1> SUFFICES ASSUME TypeOK, TypeOK', StampsAgree, RaceSeen, [Next]_vars PROVE RaceSeen'
  OBVIOUS
<1>1. CASE Enter
  <2>1. ~raced /\ (raced' => raced)
    BY <1>1 DEF Enter, past, RaceSeen
  <2> QED
    BY <2>1 DEF RaceSeen
<1>2. CASE ReadEnd \/ Press \/ Release \/ Tick \/ UNCHANGED vars
  <2>1. UNCHANGED raced /\ ((pc' = pc /\ UNCHANGED <<end, start>>) \/ ~raced)
    BY <1>2 DEF ReadEnd, Press, Release, Tick, vars, code, past, RaceSeen
  <2> QED
    BY <2>1 DEF RaceSeen
<1>3. CASE ReadStart
  <2>1. pc = "start" /\ pc' = "decide" /\ end' = end /\ ~raced /\ quiet <= 1
    BY <1>3 DEF ReadStart, RaceSeen, TypeOK
  <2>2. CASE NewPress
    <3>1. start' = now /\ (raced' => end # now)
      BY <1>3, <2>2 DEF ReadStart
    <3>2. Since(now, end) <= 1
      BY <2>1, SinceType DEF StampsAgree, TypeOK
    <3>3. raced' => Since(end, now) = Wrap - 1
      BY <3>1, <3>2, SinceIs, NumbersType DEF TypeOK, Times
    <3> QED
      BY <2>1, <3>1, <3>3 DEF RaceSeen
  <2>3. CASE ~NewPress
    <3>1. raced' = raced
      BY <1>3, <2>3 DEF ReadStart
    <3> QED
      BY <2>1, <3>1 DEF RaceSeen
  <2> QED
    BY <2>2, <2>3
<1>4. CASE Decide
  <2>1. /\ pc = "decide" /\ UNCHANGED <<end, start, raced>>
        /\ pc' = IF Since(end, start) > Hold THEN "reset" ELSE "out"
    BY <1>4 DEF Decide, code, past
  <2>2. raced => pc' = "reset"
    BY <2>1, NumbersType DEF RaceSeen
  <2> QED
    BY <2>1, <2>2 DEF RaceSeen
<1>5. CASE Restarted
  BY <1>5 DEF Restarted, RaceSeen
<1> QED
  BY <1>1, <1>2, <1>3, <1>4, <1>5 DEF Next, Handler

\* Only Decide leads to a reset, and it has looked at the age of the press.
LEMMA LongStep ==
    TypeOK /\ StampsAgree /\ AgeAgrees /\ OnlyLongPresses /\ [Next]_vars => OnlyLongPresses'
<1> SUFFICES ASSUME TypeOK, StampsAgree, AgeAgrees, OnlyLongPresses, [Next]_vars, pc' = "reset"
             PROVE  held' > Hold \/ raced' \/ stale'
  BY DEF OnlyLongPresses
<1>1. CASE pc = "reset"
  <2>1. UNCHANGED <<held, raced, stale>>
    BY <1>1 DEF Next, Handler, Enter, ReadEnd, ReadStart, Decide, Restarted,
       Press, Release, Tick, vars, past
  <2> QED
    BY <1>1, <2>1 DEF OnlyLongPresses
<1>2. CASE pc # "reset"
  <2>1. Decide
    BY <1>2 DEF Next, Handler, Enter, ReadEnd, ReadStart, Restarted, Press,
       Release, Tick, vars
  <2>2. pc = "decide" /\ Since(end, start) > Hold /\ UNCHANGED <<held, raced, stale>>
    BY <2>1 DEF Decide, past
  <2>3. SUFFICES ASSUME ~raced, ~stale PROVE held > Hold
    BY <2>2 DEF TypeOK
  <2>4. Known
    BY <2>2, <2>3 DEF Known, Beginning, StampsAgree
  <2>5. Since(now, end) <= Age
    BY <2>2, <2>3, <2>4 DEF AgeAgrees
  <2>6. held >= Age \/ held = HeldMax
    BY <2>2, <2>3, <2>4 DEF AgeAgrees
  <2>7. Age = Since(end, start) + Since(now, end)
    BY <2>5, SinceIs, NumbersType DEF Age, TypeOK, Times
  <2> QED
    BY <2>2, <2>6, <2>7, AgeType, SinceType, NumbersType DEF TypeOK
<1> QED
  BY <1>1, <1>2

\* The first state satisfies the invariant.
LEMMA ButtonInit == Init => ButtonInv
BY DEF Init, ButtonInv, StampsAgree, AgeAgrees, Beginning, Known, RaceSeen, OnlyLongPresses

\* The time stamps, read while the clock ticks and wraps, tell the length of
\* the press that goes on.
THEOREM ButtonInvariance == Spec => []ButtonInv
<1>1. TypeOK /\ TypeOK' /\ ButtonInv /\ [Next]_vars => ButtonInv'
  BY StampsStep, AgeStep, RaceStep, LongStep DEF ButtonInv
<1> QED
  BY <1>1, ButtonInit, TypeCorrect, PTL DEF Spec

\* Only a long press resets the kit, but for two coincidences.
THEOREM ShortPressKeeps == Spec => []OnlyLongPresses
BY ButtonInvariance, PTL DEF ButtonInv

\* A long press is not overlooked.
THEOREM LongPressResets == Spec => []LongPressSeen
<1>1. TypeOK /\ ButtonInv => LongPressSeen
  <2> SUFFICES ASSUME TypeOK, ButtonInv, pc = "out", called, quiet = 0, ~stale
               PROVE  held <= Hold + 1
    BY DEF LongPressSeen
  <2>1. Known
    BY NumbersType DEF Known, Beginning
  <2>2. held <= Age + 1 /\ Age <= Hold
    BY <2>1, AgeType, NumbersType DEF ButtonInv, AgeAgrees, TypeOK
  <2> QED
    BY <2>2, AgeType, NumbersType DEF TypeOK
<1> QED
  BY <1>1, TypeCorrect, ButtonInvariance, PTL
=============================================================================
