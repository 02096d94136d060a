--------------------------- MODULE EmissionProofs ---------------------------
(***************************************************************************)
(* Theorems about Emission, for all codes, heaps, packets and carriers.     *)
(***************************************************************************)
EXTENDS Emission, TLAPS

\* Types and the parts of the invariant need each other.
Inv == TypeOK /\ EmissionInv

-----------------------------------------------------------------------------
(* Numbers and codes.                                                       *)

LEMMA Products == ASSUME NEW m \in Nat, NEW n \in Nat PROVE m * n \in Nat
  OBVIOUS

LEMMA CutType == ASSUME NEW x \in Nat PROVE x % Width \in Range16
  BY WidthAssumption DEF Range16

LEMMA SeriesType ==
    ASSUME NEW v \in Seq(Nat)
    PROVE  Series(v) \in Seq(Range16) /\ Len(Series(v)) = Len(v) + 1
<1>1. EndCode \in Range16
  BY WidthAssumption DEF Range16
<1>2. \A i \in 1 .. Len(v) + 1 :
        (IF i <= Len(v) THEN v[i] % Width ELSE EndCode) \in Range16
  BY <1>1, CutType
<1> QED
  BY <1>2 DEF Series

LEMMA RoundUpType ==
    ASSUME NEW n \in Nat, NEW unit \in Nat \ {0} PROVE RoundUp(n, unit) \in Nat
<1>1. n + (unit - 1) \in Nat
  OBVIOUS
<1>2. ((n + (unit - 1)) \div unit) \in Nat
  BY <1>1
<1> QED
  BY <1>2, Products DEF RoundUp

LEMMA BlockType == ASSUME NEW n \in Nat PROVE Block(n) \in Nat
<1>1. n + Header \in Nat
  BY HeapAssumption
<1> QED
  BY <1>1, RoundUpType, HeapAssumption DEF Block

LEMMA StringType == ASSUME NEW n \in Nat PROVE StringTakes(n) \in Nat
<1>1. RoundUp(n + 1, StringGrain) \in Nat
  BY RoundUpType, HeapAssumption
<1> QED
  BY <1>1, BlockType DEF StringTakes

\* The text of a key value, or of a lost one, and the pieces it is cut into.
LEMMA CharsType ==
    ASSUME NEW v \in KeyValues \cup {<<>>}
    PROVE  v \in Seq(Nat) /\ Len(v) \in Nat /\ Chars(v) \in Nat
<1>1. v \in Seq(Nat)
  <2>1. CASE v = <<>>
    BY <2>1
  <2>2. CASE v \in KeyValues
    BY <2>2, CodesAssumption
  <2> QED
    BY <2>1, <2>2
<1>2. Chars(v) \in Nat
  BY TextAssumption
<1> QED
  BY <1>1, <1>2

LEMMA CutBytes ==
    ASSUME NEW v \in KeyValues \cup {<<>>}, NEW i \in 0 .. Len(v)
    PROVE  /\ Cut(v, 0) = 0 /\ Cut(v, i) \in Nat
           /\ Cut(v, i) <= Cut(v, Len(v)) /\ Cut(v, Len(v)) \in Nat
           /\ i < Len(v) => Cut(v, i) <= Cut(v, i + 1) /\ Cut(v, i + 1) \in Nat
<1>1. CASE v = <<>>
  BY <1>1, TextAssumption
<1>2. CASE v \in KeyValues
  <2>1. Len(v) \in Nat /\ Block(2) \in Nat
    BY CharsType, BlockType
  <2>2. /\ Cut(v, 0) = 0
        /\ \A k \in 0 .. Len(v) :
             Cut(v, k) \in Nat /\ \A j \in 0 .. k - 1 : Cut(v, j) + Block(2) <= Cut(v, k)
    BY <1>2, TextAssumption
  <2>3. Cut(v, i) \in Nat /\ Cut(v, Len(v)) \in Nat
    BY <2>1, <2>2
  <2>4. Cut(v, i) <= Cut(v, Len(v))
    <3>1. CASE i = Len(v)
      BY <2>3, <3>1
    <3>2. CASE i # Len(v)
      <4>1. Len(v) \in 0 .. Len(v) /\ i \in 0 .. Len(v) - 1
        BY <2>1, <3>2
      <4>2. Cut(v, i) + Block(2) <= Cut(v, Len(v))
        BY <2>2, <4>1
      <4> QED
        BY <2>1, <2>3, <4>2
    <3> QED
      BY <3>1, <3>2
  <2>5. ASSUME i < Len(v) PROVE Cut(v, i) <= Cut(v, i + 1) /\ Cut(v, i + 1) \in Nat
    <3>1. i + 1 \in 0 .. Len(v) /\ i \in 0 .. (i + 1) - 1
      BY <2>1, <2>5
    <3>2. Cut(v, i + 1) \in Nat /\ Cut(v, i) + Block(2) <= Cut(v, i + 1)
      BY <2>2, <3>1
    <3> QED
      BY <2>1, <2>3, <3>2
  <2> QED
    BY <2>2, <2>3, <2>4, <2>5
<1> QED
  BY <1>1, <1>2

LEMMA OneMore ==
    ASSUME NEW n \in Nat, NEW t \in Nat, NEW h \in Nat, h - n * t < t, n * t \in Nat
    PROVE  h < (n + 1) * t
<1>1. (n + 1) * t = n * t + t
  OBVIOUS
<1> DEFINE m == n * t
<1>2. m \in Nat /\ h - m < t /\ (n + 1) * t = m + t
  BY <1>1
<1> HIDE DEF m
<1> QED
  BY <1>2

LEMMA MoreTake ==
    ASSUME NEW n \in Nat, NEW m \in Nat, NEW t \in Nat, n \in 0 .. m - 1
    PROVE  (n + 1) * t <= m * t
<1>1. (m - (n + 1)) * t \in Nat /\ (n + 1) * t \in Nat /\ m * t \in Nat
  BY Products
<1>2. m * t = (n + 1) * t + (m - (n + 1)) * t
  OBVIOUS
<1> QED
  BY <1>1, <1>2

\* The bytes of the ledger
CountsHeld == held \in Nat /\ parts \in Nat /\ heap \in Nat /\ leaked \in Nat

\* What a message and its key value take.
LEMMA TakesType ==
    ASSUME NEW v \in KeyValues \cup {<<>>}, NEW s \in Nat
    PROVE  /\ PayloadTakes(s) \in Nat /\ ContentTakes(s) \in Nat /\ Names \in Nat
           /\ ValueTakes(v) \in Nat /\ CopyTakes(v) \in Nat
           /\ Cut(v, Len(v)) \in Nat
           /\ Need(v, s) \in Nat
<1>1. PayloadTakes(s) \in Nat
  BY BlockType DEF PayloadTakes
<1>2. ContentTakes(s) \in Nat
  BY StringType, Products, HeapAssumption DEF ContentTakes
<1>3. Chars(v) \in Nat /\ Len(v) \in Nat
  BY CharsType
<1>4. StringTakes(Chars(v)) \in Nat /\ Block(Chars(v) + 1) \in Nat
  <2> DEFINE n == Chars(v)
  <2>1. n \in Nat /\ n + 1 \in Nat
    BY <1>3
  <2> HIDE DEF n
  <2>2. StringTakes(n) \in Nat /\ Block(n + 1) \in Nat
    BY <2>1, StringType, BlockType
  <2> QED
    BY <2>2 DEF n
<1>5. ValueTakes(v) \in Nat /\ CopyTakes(v) \in Nat
  BY <1>4, Products, HeapAssumption DEF ValueTakes, CopyTakes
<1>6. Cut(v, Len(v)) \in Nat
  BY <1>3, CutBytes
<1> QED
  BY <1>1, <1>2, <1>5, <1>6, HeapAssumption DEF Need

\* A code that came in one packet fits into the arrays of emitIR.
LEMMA FitsParts ==
    ASSUME NEW v \in KeyValues, NEW s \in Nat, s >= LeastSize(v), s <= MaxPacket
    PROVE  Len(v) <= SeriesMax
<1>1. Chars(v) \in Nat /\ Chars(v) >= 2 * Len(v) - 1 /\ Len(v) \in Nat
  BY CharsType, TextAssumption
<1> QED
  BY <1>1, PacketAssumption DEF LeastSize

-----------------------------------------------------------------------------
(* The invariant at the beginning, after a restart, and after a failure.    *)

\* What the bookkeeping of a message is about.
LEMMA Known ==
    ASSUME Inv
    PROVE  /\ value \in KeyValues \cup {<<>>} /\ asked \in KeyValues \cup {<<>>}
           /\ size \in Nat /\ room \in Nat
           /\ heap \in Nat /\ held \in Nat /\ leaked \in Nat
           /\ parts \in 0 .. Len(value) /\ Len(value) \in Nat
           /\ Cut(value, parts) \in Nat
<1>1. asked \in KeyValues \cup {<<>>} /\ pc \in Places
  BY DEF Inv, TypeOK, CodesOK, FlagsOK
<1>2. value \in KeyValues \cup {<<>>}
  BY <1>1 DEF Inv, EmissionInv, Handling, Places
<1>3. /\ size \in Nat /\ room \in Nat /\ parts \in Nat
      /\ heap \in Nat /\ held \in Nat /\ leaked \in Nat
  BY DEF Inv, TypeOK, CountsOK
<1>4. Len(value) \in Nat /\ parts \in 0 .. Len(value)
  BY <1>2, <1>3, CharsType DEF Inv, EmissionInv, Handling
<1> QED
  BY <1>1, <1>2, <1>3, <1>4, CutBytes

\* The parts of a need.
LEMMA Takes ==
    ASSUME NEW v \in KeyValues \cup {<<>>}, NEW s \in Nat
    PROVE  /\ PayloadTakes(s) \in Nat /\ ContentTakes(s) + Names \in Nat
           /\ ValueTakes(v) \in Nat /\ CopyTakes(v) \in Nat /\ Cut(v, Len(v)) \in Nat
<1>1. /\ PayloadTakes(s) \in Nat /\ ContentTakes(s) \in Nat /\ Names \in Nat
      /\ ValueTakes(v) \in Nat /\ CopyTakes(v) \in Nat /\ Cut(v, Len(v)) \in Nat
  BY TakesType
<1>2. ASSUME NEW a \in Nat, NEW b \in Nat PROVE a + b \in Nat
  OBVIOUS
<1> QED
  BY <1>1, <1>2

\* Nothing is cut off yet.
LEMMA NoParts == Cut(<<>>, 0) = 0 /\ \A v \in KeyValues : Cut(v, 0) = 0
  BY TextAssumption

LEMMA InvInit == Init => Inv
<1> SUFFICES ASSUME Init PROVE Inv
  OBVIOUS
<1>1. TypeOK
  <2>1. FlagsOK
    BY DEF Init, FlagsOK, Places
  <2>2. CodesOK
    BY DEF Init, CodesOK
  <2>3. CountsOK
    BY HeapAssumption DEF Init, CountsOK
  <2> QED
    BY <2>1, <2>2, <2>3 DEF TypeOK
<1>2. HeapAccounted
  BY HeapAssumption, NoParts DEF Init, HeapAccounted
<1>3. PartsFit
  BY PacketAssumption DEF Init, PartsFit
<1>4. SendsDeaf /\ Handling /\ Holding /\ MarkInTime
  BY DEF Init, SendsDeaf, Handling, Holding, MarkInTime
<1> QED
  BY <1>1, <1>2, <1>3, <1>4 DEF Inv, EmissionInv

LEMMA InvDown == GoDown => Inv'
<1> SUFFICES ASSUME GoDown PROVE Inv'
  OBVIOUS
<1>1. TypeOK'
  <2>1. FlagsOK'
    BY DEF GoDown, FlagsOK, Places
  <2>2. CodesOK'
    BY DEF GoDown, CodesOK
  <2>3. CountsOK'
    BY HeapAssumption DEF GoDown, CountsOK
  <2> QED
    BY <2>1, <2>2, <2>3 DEF TypeOK
<1>2. HeapAccounted'
  BY HeapAssumption, NoParts DEF GoDown, HeapAccounted
<1>3. PartsFit'
  BY PacketAssumption DEF GoDown, PartsFit
<1>4. (SendsDeaf /\ Handling /\ Holding /\ MarkInTime)'
  BY DEF GoDown, SendsDeaf, Handling, Holding, MarkInTime
<1> QED
  BY <1>1, <1>2, <1>3, <1>4 DEF Inv, EmissionInv

LEMMA InvGiveUp ==
    Inv /\ pc \in {"content", "copy", "split"} /\ GiveUp => Inv'
<1> SUFFICES ASSUME Inv, pc \in {"content", "copy", "split"}, GiveUp PROVE Inv'
  OBVIOUS
<1>1. series = <<>>
  BY DEF Inv, EmissionInv, Handling
<1>2. TypeOK'
  <2>1. FlagsOK'
    BY DEF Inv, TypeOK, GiveUp, FlagsOK, Places, lamps
  <2>2. CodesOK'
    BY DEF Inv, TypeOK, GiveUp, CodesOK, sending
  <2>3. CountsOK'
    BY Known DEF Inv, TypeOK, GiveUp, CountsOK, sending, lamps
  <2> QED
    BY <2>1, <2>2, <2>3 DEF TypeOK
<1>3. HeapAccounted'
  BY Known, NoParts DEF Inv, EmissionInv, GiveUp, HeapAccounted
<1>4. PartsFit'
  BY <1>1, PacketAssumption DEF GiveUp, PartsFit, sending
<1>5. SendsDeaf' /\ Handling' /\ Holding'
  BY <1>1 DEF GiveUp, SendsDeaf, Handling, Holding, sending
<1>6. MarkInTime'
  <2>1. spent = 0 /\ elapsed = 0
    BY <1>1 DEF Inv, EmissionInv, MarkInTime, Marking, TypeOK, CountsOK
  <2> QED
    BY <1>1, <2>1 DEF Inv, EmissionInv, MarkInTime, GiveUp, sending
<1> QED
  BY <1>2, <1>3, <1>4, <1>5, <1>6 DEF Inv, EmissionInv

\* While nothing is sent, series and timers stay as they are.
LEMMA InvQuiet ==
    Inv /\ pc # "send" /\ UNCHANGED sending =>
        series = <<>> /\ series' = <<>> /\ MarkInTime'
<1> SUFFICES ASSUME Inv, pc # "send", UNCHANGED sending
             PROVE  series = <<>> /\ series' = <<>> /\ MarkInTime'
  OBVIOUS
<1>1. series = <<>> /\ series' = <<>>
  BY DEF Inv, EmissionInv, Handling, sending
<1>2. spent = 0 /\ elapsed = 0
  BY <1>1 DEF Inv, EmissionInv, MarkInTime, Marking, TypeOK, CountsOK
<1> QED
  BY <1>1, <1>2 DEF Inv, EmissionInv, MarkInTime, sending

-----------------------------------------------------------------------------
(* The message and its copies.                                              *)

\* What is held is taken from the heap.
LEMMA HoldKeeps ==
    ASSUME Inv, NEW n \in Nat, Hold(n), pc' \notin {"down", "idle"},
           Cut(value', parts) = Cut(value, parts)
    PROVE  HeapAccounted' /\ CountsHeld'
<1>1. /\ heap' = heap - n /\ held' = held + n /\ n <= heap
      /\ parts' = parts /\ leaked' = leaked
  BY DEF Hold
<1>2. heap + held + Cut(value, parts) + leaked = MaxHeap
  BY DEF Inv, EmissionInv, HeapAccounted
<1>3. Cut(value', parts') = Cut(value, parts)
  BY <1>1
<1>4. /\ heap \in Nat /\ held \in Nat /\ leaked \in Nat /\ parts \in Nat
      /\ Cut(value, parts) \in Nat
  BY Known
<1>5. CountsHeld'
  BY <1>1, <1>4 DEF CountsHeld
<1>6. heap' + held' + Cut(value', parts') + leaked' = MaxHeap
  <2> DEFINE cut == Cut(value, parts)
  <2>1. heap' + held' + cut + leaked' = MaxHeap
    <3>1. heap + held + cut + leaked = MaxHeap /\ cut \in Nat
      BY <1>2, <1>4
    <3> HIDE DEF cut
    <3> QED
      BY <1>1, <1>4, <3>1
  <2> QED
    BY <1>3, <2>1
<1> QED
  BY <1>5, <1>6 DEF HeapAccounted

\* A heap that is short of q bytes after s + p was short of a larger need.
LEMMA ShortBefore ==
    ASSUME NEW r \in Nat, NEW h \in Nat, NEW s \in Nat, NEW p \in Nat, NEW q \in Nat,
           NEW n \in Nat, h >= r - s - p, h < q, n >= s + p + q
    PROVE  r < n
  OBVIOUS

LEMMA InvReceive == Inv /\ Receive => Inv'
<1> SUFFICES ASSUME Inv, Receive PROVE Inv'
  OBVIOUS
<1>1. series = <<>> /\ series' = <<>> /\ MarkInTime'
  BY InvQuiet DEF Receive
<1>2. PICK v \in KeyValues, s \in PacketSizes :
        /\ s >= LeastSize(v) /\ Fits(s)
        /\ Hold(PayloadTakes(s))
        /\ value' = v /\ size' = s /\ asked' = v
  BY DEF Receive
<1>3. /\ pc = "idle" /\ pc' = "content" /\ room' = heap
      /\ value = <<>> /\ parts = 0 /\ held = 0
  BY DEF Receive, Inv, EmissionInv, Handling, HeapAccounted
<1>4. s \in Nat /\ PayloadTakes(s) \in Nat
  BY HeapAssumption, TakesType
<1>5. HeapAccounted' /\ CountsHeld'
  BY <1>2, <1>3, <1>4, NoParts, HoldKeeps
<1>6. TypeOK'
  <2>1. FlagsOK'
    BY DEF Inv, TypeOK, FlagsOK, Places, Receive, lamps
  <2>2. CodesOK'
    BY <1>2, CodesAssumption DEF Inv, TypeOK, CodesOK, Receive, sending
  <2>3. CountsOK'
    BY <1>2, <1>3, <1>4, <1>5, Known DEF Inv, TypeOK, CountsOK, CountsHeld, Receive, sending, lamps
  <2> QED
    BY <2>1, <2>2, <2>3 DEF TypeOK
<1>7. PartsFit'
  BY <1>1, <1>2, PacketAssumption DEF Inv, EmissionInv, PartsFit, Hold
<1>8. SendsDeaf'
  BY DEF SendsDeaf, Receive
<1>9. Handling'
  <2>1. v \in Seq(Nat) /\ Len(v) \in Nat /\ parts' = 0
    BY <1>2, <1>3, CharsType DEF Hold
  <2> QED
    BY <1>1, <1>2, <1>3, <2>1 DEF Handling, Fits
<1>10. Holding'
  BY <1>2, <1>3, <1>4, Known DEF Holding, Hold, PayloadTakes, Block, RoundUp
<1> QED
  BY <1>1, <1>5, <1>6, <1>7, <1>8, <1>9, <1>10 DEF Inv, EmissionInv

LEMMA InvTakeContent == Inv /\ TakeContent => Inv'
<1> SUFFICES ASSUME Inv, TakeContent PROVE Inv'
  OBVIOUS
<1>1. series = <<>> /\ series' = <<>> /\ MarkInTime'
  BY InvQuiet DEF TakeContent
<1>2. /\ PayloadTakes(size) \in Nat /\ ContentTakes(size) \in Nat /\ Names \in Nat
      /\ ValueTakes(value) \in Nat /\ CopyTakes(value) \in Nat
      /\ Cut(value, parts) \in Nat
  BY Known, TakesType
<1>3. PICK n \in 0 .. Names : Hold(ContentTakes(size) + n)
  BY DEF TakeContent
<1>4. HeapAccounted' /\ CountsHeld'
  BY <1>2, <1>3, HoldKeeps DEF TakeContent, request
<1>5. TypeOK'
  <2>1. FlagsOK'
    BY DEF Inv, TypeOK, FlagsOK, Places, TakeContent, lamps
  <2>2. CodesOK'
    BY DEF Inv, TypeOK, CodesOK, TakeContent, request, sending
  <2>3. CountsOK'
    BY <1>4 DEF Inv, TypeOK, CountsOK, CountsHeld, TakeContent, request, sending, lamps
  <2> QED
    BY <2>1, <2>2, <2>3 DEF TypeOK
<1>6. PartsFit'
  BY <1>1, <1>3, PacketAssumption DEF Inv, EmissionInv, PartsFit, Hold
<1>7. SendsDeaf'
  BY DEF SendsDeaf, TakeContent
<1>8. Handling'
  BY <1>1, <1>3 DEF Inv, EmissionInv, Handling, TakeContent, Hold, request
<1>9. Holding'
  <2>1. heap' = heap - (ContentTakes(size) + n) /\ heap = room - PayloadTakes(size)
    BY <1>3 DEF TakeContent, Hold, Inv, EmissionInv, Holding
  <2>2. heap' >= room - PayloadTakes(size) - (ContentTakes(size) + Names)
    BY <1>2, <2>1, Known
  <2> QED
    BY <2>2 DEF Holding, TakeContent, request
<1> QED
  BY <1>1, <1>4, <1>5, <1>6, <1>7, <1>8, <1>9 DEF Inv, EmissionInv

LEMMA InvTakeValue == Inv /\ TakeValue => Inv'
<1> SUFFICES ASSUME Inv, TakeValue PROVE Inv'
  OBVIOUS
<1>1. series = <<>> /\ series' = <<>> /\ MarkInTime'
  BY InvQuiet DEF TakeValue
<1>2. /\ PayloadTakes(size) \in Nat /\ ContentTakes(size) \in Nat /\ Names \in Nat
      /\ ValueTakes(value) \in Nat /\ CopyTakes(value) \in Nat
      /\ Cut(value, parts) \in Nat
  BY Known, TakesType
<1>3. Hold(ValueTakes(value))
  BY DEF TakeValue
<1>4. HeapAccounted' /\ CountsHeld'
  BY <1>2, <1>3, HoldKeeps DEF TakeValue, request
<1>5. TypeOK'
  <2>1. FlagsOK'
    BY DEF Inv, TypeOK, FlagsOK, Places, TakeValue, lamps
  <2>2. CodesOK'
    BY DEF Inv, TypeOK, CodesOK, TakeValue, request, sending
  <2>3. CountsOK'
    BY <1>4 DEF Inv, TypeOK, CountsOK, CountsHeld, TakeValue, request, sending, lamps
  <2> QED
    BY <2>1, <2>2, <2>3 DEF TypeOK
<1>6. PartsFit'
  BY <1>1, <1>3, PacketAssumption DEF Inv, EmissionInv, PartsFit, Hold
<1>7. SendsDeaf'
  BY DEF SendsDeaf, TakeValue
<1>8. Handling'
  BY <1>1, <1>3 DEF Inv, EmissionInv, Handling, TakeValue, Hold, request
<1>9. Holding'
  <2>1. /\ heap' = heap - ValueTakes(value) /\ value = asked
        /\ heap >= room - PayloadTakes(size) - (ContentTakes(size) + Names)
    BY <1>3 DEF TakeValue, Hold, Inv, EmissionInv, Holding, Handling
  <2>2. heap' >= room - PayloadTakes(size) - (ContentTakes(size) + Names) - ValueTakes(value)
    BY <1>2, <2>1, Known
  <2> QED
    BY <2>1, <2>2 DEF Holding, TakeValue, request
<1> QED
  BY <1>1, <1>4, <1>5, <1>6, <1>7, <1>8, <1>9 DEF Inv, EmissionInv

LEMMA InvTakeCopy == Inv /\ TakeCopy => Inv'
<1> SUFFICES ASSUME Inv, TakeCopy PROVE Inv'
  OBVIOUS
<1>1. series = <<>> /\ series' = <<>> /\ MarkInTime'
  BY InvQuiet DEF TakeCopy
<1>2. /\ PayloadTakes(size) \in Nat /\ ContentTakes(size) \in Nat /\ Names \in Nat
      /\ ValueTakes(value) \in Nat /\ CopyTakes(value) \in Nat
      /\ Cut(value, parts) \in Nat
  BY Known, TakesType
<1>3. Hold(CopyTakes(value)) /\ parts = 0 /\ Cut(value, 0) = 0
  BY Known, CutBytes DEF TakeCopy, Inv, EmissionInv, Handling
<1>4. HeapAccounted' /\ CountsHeld'
  BY <1>2, <1>3, HoldKeeps DEF TakeCopy, request
<1>5. TypeOK'
  <2>1. FlagsOK'
    BY DEF Inv, TypeOK, FlagsOK, Places, TakeCopy, lamps
  <2>2. CodesOK'
    BY DEF Inv, TypeOK, CodesOK, TakeCopy, request, sending
  <2>3. CountsOK'
    BY <1>4 DEF Inv, TypeOK, CountsOK, CountsHeld, TakeCopy, request, sending, lamps
  <2> QED
    BY <2>1, <2>2, <2>3 DEF TypeOK
<1>6. PartsFit'
  BY <1>1, <1>3, PacketAssumption DEF Inv, EmissionInv, PartsFit, Hold
<1>7. SendsDeaf'
  BY DEF SendsDeaf, TakeCopy
<1>8. Handling'
  BY <1>1, <1>3 DEF Inv, EmissionInv, Handling, TakeCopy, Hold, request
<1>9. Holding'
  <2>1. /\ heap' = heap - CopyTakes(value) /\ held' = held + CopyTakes(value)
        /\ parts' = 0 /\ UNCHANGED <<value, size, asked, room>> /\ pc' = "split"
    BY <1>3 DEF TakeCopy, Hold, request
  <2>2. held' >= CopyTakes(value)
    BY <1>2, <2>1, Known
  <2>3. CASE value = <<>> /\ (asked = <<>> \/ room < Need(asked, size))
    BY <2>1, <2>2, <2>3 DEF Holding
  <2>4. CASE /\ value = asked
             /\ heap >= room - PayloadTakes(size) - (ContentTakes(size) + Names) - ValueTakes(value)
    <3>1. heap' >= room - PayloadTakes(size) - (ContentTakes(size) + Names)
                     - ValueTakes(value) - CopyTakes(value) - Cut(value, 0)
      BY <1>2, <1>3, <2>1, <2>4, Known
    <3> QED
      BY <2>1, <2>2, <2>4, <3>1 DEF Holding
  <2> QED
    BY <2>3, <2>4 DEF TakeCopy, Inv, EmissionInv, Holding
<1> QED
  BY <1>1, <1>4, <1>5, <1>6, <1>7, <1>8, <1>9 DEF Inv, EmissionInv

LEMMA InvSplitPart == Inv /\ SplitPart => Inv'
<1> SUFFICES ASSUME Inv, SplitPart PROVE Inv'
  OBVIOUS
<1>1. series = <<>> /\ series' = <<>> /\ MarkInTime'
  BY InvQuiet DEF SplitPart
<1>2. /\ PayloadTakes(size) \in Nat /\ ContentTakes(size) \in Nat /\ Names \in Nat
      /\ ValueTakes(value) \in Nat /\ CopyTakes(value) \in Nat
  BY Known, TakesType
<1>3. /\ parts' = parts + 1 /\ parts < Len(value) /\ value # <<>>
      /\ Cut(value, parts) \in Nat /\ Cut(value, parts + 1) \in Nat
      /\ Cut(value, parts) <= Cut(value, parts + 1)
      /\ heap' = heap - (Cut(value, parts + 1) - Cut(value, parts))
      /\ Cut(value, parts + 1) - Cut(value, parts) <= heap
      /\ UNCHANGED <<pc, value, size, asked, room, held, leaked>> /\ pc = "split"
  BY Known, CutBytes DEF SplitPart, NextTakes, request
<1>4. HeapAccounted' /\ CountsHeld'
  <2>1. heap + held + Cut(value, parts) + leaked = MaxHeap
    BY DEF Inv, EmissionInv, HeapAccounted
  <2> QED
    BY <1>3, <2>1, Known DEF HeapAccounted, CountsHeld
<1>5. TypeOK'
  <2>1. FlagsOK'
    BY DEF Inv, TypeOK, FlagsOK, Places, SplitPart, lamps
  <2>2. CodesOK'
    BY DEF Inv, TypeOK, CodesOK, SplitPart, request, sending
  <2>3. CountsOK'
    BY <1>4 DEF Inv, TypeOK, CountsOK, CountsHeld, SplitPart, request, sending, lamps
  <2> QED
    BY <2>1, <2>2, <2>3 DEF TypeOK
<1>6. PartsFit'
  <2>1. value \in KeyValues /\ size >= LeastSize(value) /\ size <= MaxPacket
    BY <1>3, Known DEF Inv, EmissionInv, Handling
  <2>2. Len(value) <= SeriesMax
    BY <2>1, FitsParts, Known
  <2> QED
    BY <1>1, <1>3, <2>2, Known, PacketAssumption DEF PartsFit
<1>7. SendsDeaf'
  BY DEF SendsDeaf, SplitPart
<1>8. Handling'
  BY <1>1, <1>3, Known DEF Inv, EmissionInv, Handling
<1>9. Holding'
  <2>1. /\ held >= CopyTakes(value) /\ value = asked
        /\ heap >= room - PayloadTakes(size) - (ContentTakes(size) + Names)
                    - ValueTakes(value) - CopyTakes(value) - Cut(value, parts)
    BY <1>3 DEF Inv, EmissionInv, Holding
  <2>2. heap' >= room - PayloadTakes(size) - (ContentTakes(size) + Names)
                   - ValueTakes(value) - CopyTakes(value) - Cut(value, parts + 1)
    <3> DEFINE p == PayloadTakes(size)
               c == ContentTakes(size) + Names
               q == ValueTakes(value)
               l == CopyTakes(value)
               a == Cut(value, parts)
               b == Cut(value, parts + 1)
    <3>1. room \in Nat /\ heap \in Nat /\ a \in Nat /\ b \in Nat
      BY <1>3, Known
    <3>2. p \in Nat /\ c \in Nat /\ q \in Nat /\ l \in Nat
      BY Known, Takes
    <3>3. heap >= room - p - c - q - l - a /\ heap' = heap - (b - a)
      BY <1>3, <2>1
    <3> HIDE DEF p, c, q, l, a, b
    <3>4. heap' >= room - p - c - q - l - b
      BY <3>1, <3>2, <3>3
    <3> QED
      BY <3>4 DEF p, c, q, l, b
  <2> QED
    BY <1>3, <2>1, <2>2 DEF Holding
<1> QED
  BY <1>1, <1>4, <1>5, <1>6, <1>7, <1>8, <1>9 DEF Inv, EmissionInv

LEMMA InvValueLost == Inv /\ ValueLost => Inv'
<1> SUFFICES ASSUME Inv, ValueLost PROVE Inv'
  OBVIOUS
<1> DEFINE t == StringTakes(Chars(value))
<1>1. series = <<>> /\ series' = <<>> /\ MarkInTime'
  BY InvQuiet DEF ValueLost
<1>2. PICK n \in 0 .. ValueCopies - 1 : Hold(n * t)
  BY DEF ValueLost
<1>3. /\ pc = "value" /\ pc' = "copy" /\ value' = <<>> /\ UNCHANGED <<size, asked, room>>
      /\ parts = 0 /\ value = asked /\ parts' = 0
      /\ heap' < t /\ n * t <= heap /\ heap' = heap - n * t
  BY <1>2 DEF ValueLost, Hold, Inv, EmissionInv, Handling
<1>4. t \in Nat /\ n \in Nat /\ n * t \in Nat /\ ValueCopies \in Nat
  <2>1. Chars(value) \in Nat /\ ValueCopies \in Nat
    BY Known, CharsType, HeapAssumption
  <2>2. t \in Nat
    BY <2>1, StringType
  <2>3. n \in Nat
    BY <2>1
  <2> HIDE DEF t
  <2> QED
    BY <2>1, <2>2, <2>3, Products
<1>5. HeapAccounted' /\ CountsHeld'
  <2>1. Cut(value', parts) = Cut(value, parts)
    BY <1>3, Known, NoParts
  <2> HIDE DEF t
  <2> QED
    BY <1>2, <1>3, <1>4, <2>1, HoldKeeps
<1>6. room < Need(asked, size)
  <2>1. heap < ValueTakes(value)
    <3>1. ValueTakes(value) = ValueCopies * t
      BY DEF ValueTakes
    <3> HIDE DEF t
    <3>2. heap < (n + 1) * t
      BY <1>3, <1>4, Known, OneMore
    <3>3. (n + 1) * t <= ValueCopies * t
      BY <1>4, MoreTake
    <3> QED
      BY <1>4, <3>1, <3>2, <3>3, Known, Products
  <2> DEFINE p == PayloadTakes(size)
             c == ContentTakes(size) + Names
             q == ValueTakes(value)
             l == CopyTakes(value)
             k == Cut(value, Len(value))
  <2>2. p \in Nat /\ c \in Nat /\ q \in Nat /\ l \in Nat /\ k \in Nat
    BY Known, Takes
  <2>3. heap >= room - p - c
    BY <1>3 DEF Inv, EmissionInv, Holding
  <2>4. Need(asked, size) = p + c + q + l + k
    BY <1>3 DEF Need
  <2>5. heap < q
    BY <2>1
  <2> HIDE DEF p, c, q, l, k, t
  <2>6. p + c + q + l + k \in Nat /\ p + c + q + l + k >= p + c + q
    BY <2>2
  <2>7. room < p + c + q + l + k
    BY <2>2, <2>3, <2>5, <2>6, Known, ShortBefore
  <2> QED
    BY <2>4, <2>7
<1> HIDE DEF t
<1>7. TypeOK'
  <2>1. FlagsOK'
    BY DEF Inv, TypeOK, FlagsOK, Places, ValueLost, lamps
  <2>2. CodesOK'
    BY DEF Inv, TypeOK, CodesOK, ValueLost, sending
  <2>3. CountsOK'
    BY <1>5 DEF Inv, TypeOK, CountsOK, CountsHeld, ValueLost, sending, lamps
  <2> QED
    BY <2>1, <2>2, <2>3 DEF TypeOK
<1>8. PartsFit'
  BY <1>1, <1>3, PacketAssumption DEF PartsFit
<1>9. SendsDeaf'
  BY DEF SendsDeaf, ValueLost
<1>10. Handling'
  BY <1>1, <1>3 DEF Inv, EmissionInv, Handling
<1>11. Holding'
  BY <1>3, <1>6 DEF Holding
<1> QED
  BY <1>1, <1>5, <1>7, <1>8, <1>9, <1>10, <1>11 DEF Inv, EmissionInv

-----------------------------------------------------------------------------
(* Sending.                                                                 *)

LEMMA InvEmitIR == Inv /\ EmitIR => Inv'
<1> SUFFICES ASSUME Inv, EmitIR PROVE Inv'
  OBVIOUS
<1>1. value \in Seq(Nat) /\ value = asked /\ Len(value) <= SeriesMax
  BY Known, CharsType, FitsParts DEF Inv, EmissionInv, Handling, EmitIR
<1>h. held >= CopyTakes(value) /\ CopyTakes(value) \in Nat
  BY Known, TakesType DEF Inv, EmissionInv, Holding, EmitIR
<1>2. Series(value) \in Seq(Range16) /\ Len(Series(value)) = Len(value) + 1
  BY <1>1, SeriesType
<1>3. spent = 0 /\ elapsed = 0
  BY DEF Inv, EmissionInv, MarkInTime, Marking, TypeOK, CountsOK, EmitIR
<1>4. TypeOK'
  <2>1. FlagsOK'
    BY DEF Inv, TypeOK, FlagsOK, Places, EmitIR
  <2>2. CodesOK'
    BY <1>2 DEF Inv, TypeOK, CodesOK, EmitIR, request
  <2>3. CountsOK'
    BY <1>h DEF Inv, TypeOK, CountsOK, EmitIR, request
  <2> QED
    BY <2>1, <2>2, <2>3 DEF TypeOK
<1>5. HeapAccounted'
  BY <1>h, Known DEF Inv, EmissionInv, HeapAccounted, EmitIR, request
<1>6. PartsFit'
  BY <1>1, <1>2, PacketAssumption DEF Inv, EmissionInv, PartsFit, EmitIR
<1>7. SendsDeaf'
  BY DEF SendsDeaf, EmitIR
<1>8. Handling'
  BY <1>1 DEF Inv, EmissionInv, Handling, EmitIR, request
<1>9. Holding'
  BY DEF Holding, EmitIR
<1>10. MarkInTime'
  BY <1>2, <1>3 DEF MarkInTime, EmitIR
<1> QED
  BY <1>4, <1>5, <1>6, <1>7, <1>8, <1>9, <1>10 DEF Inv, EmissionInv

\* The interval that is being sent is a number of 16 bits.
LEMMA UsecType ==
    ASSUME Inv, pc = "send", Place <= Len(series)
    PROVE  /\ Place \in 1 .. Len(series) /\ Len(air) \in Nat
           /\ Usec \in Nat /\ Usec < Width
<1>1. series \in Seq(Range16) /\ air \in Seq(Nat)
  BY DEF Inv, TypeOK, CodesOK
<1>2. Place \in 1 .. Len(series) /\ Len(air) \in Nat
  BY <1>1 DEF Place
<1>3. Usec \in Range16
  BY <1>1, <1>2 DEF Usec
<1> QED
  BY <1>2, <1>3, WidthAssumption DEF Range16

\* An interval that was sent in time leaves everything as it should be.
LEMMA InvSent ==
    ASSUME Inv, pc = "send", Place <= Len(series), NEW length \in Nat,
           Usec <= length, length <= Usec + Jitter + 1, Sent(length)
    PROVE  Inv'
<1>1. Place \in 1 .. Len(series) /\ Len(air) \in Nat /\ Usec \in Nat
  BY UsecType
<1>2. air \in Seq(Nat) /\ series \in Seq(Range16)
  BY DEF Inv, TypeOK, CodesOK
<1>3. /\ air' = Append(air, length) /\ air' \in Seq(Nat) /\ Len(air') = Len(air) + 1
      /\ series' = series
  BY <1>2 DEF Sent
<1>4. TypeOK'
  <2>1. FlagsOK'
    BY DEF Inv, TypeOK, FlagsOK, Sent, lamps
  <2>2. CodesOK'
    BY <1>3 DEF Inv, TypeOK, CodesOK, Sent, request
  <2>3. CountsOK'
    BY DEF Inv, TypeOK, CountsOK, Sent, request, memory, lamps
  <2> QED
    BY <2>1, <2>2, <2>3 DEF TypeOK
<1>5. HeapAccounted' /\ PartsFit' /\ SendsDeaf'
  BY DEF Inv, EmissionInv, HeapAccounted, PartsFit, SendsDeaf, Sent, request, memory
<1>6. Handling' /\ Holding'
  BY DEF Inv, EmissionInv, Handling, Holding, Sent, request, memory
<1>7. MarkInTime'
  <2>1. spent' = 0 /\ elapsed' = 0
    BY DEF Sent
  <2>2. Len(air') <= Len(series')
    BY <1>1, <1>3 DEF Place
  <2>3. ASSUME NEW i \in 1 .. Len(air')
        PROVE  air'[i] \in series'[i] .. series'[i] + Jitter + 1
    <3>1. CASE i = Place
      <4>1. air'[i] = length /\ series'[i] = Usec
        BY <1>2, <1>3, <3>1 DEF Place, Usec
      <4> QED
        BY <1>1, <4>1, CarrierAssumption
    <3>2. CASE i # Place
      <4>1. i \in 1 .. Len(air)
        BY <1>1, <1>3, <3>2 DEF Place
      <4>2. air'[i] = air[i]
        BY <1>2, <1>3, <4>1
      <4> QED
        BY <1>3, <4>1, <4>2 DEF Inv, EmissionInv, MarkInTime
    <3> QED
      BY <3>1, <3>2
  <2> QED
    BY <2>1, <2>2, <2>3 DEF MarkInTime
<1> QED
  BY <1>4, <1>5, <1>6, <1>7 DEF Inv, EmissionInv

\* A pulse and its pause never go past the end of the mark by more than the
\* jitter: the two subtractions of unsigned numbers do not wrap.
LEMMA PulseLength ==
    ASSUME NEW u \in Nat, NEW e \in Nat, e + OnTime < u
    PROVE  /\ Least(OnTime, Minus(u, e)) = OnTime
           /\ Least(Minus(Minus(u, e), OnTime), OffTime) \in 0 .. u - e - OnTime
  BY CarrierAssumption DEF Least, Minus

LEMMA InvMarkPulse == Inv /\ MarkPulse => Inv'
<1> SUFFICES ASSUME Inv, MarkPulse PROVE Inv'
  OBVIOUS
<1>1. Usec \in Nat /\ elapsed \in Nat /\ spent \in Nat
  BY UsecType DEF Inv, TypeOK, CountsOK, MarkPulse, Marking
<1>2. elapsed <= spent /\ spent <= elapsed + 1
  BY DEF Inv, EmissionInv, MarkInTime
<1>3. PICK late \in 0 .. Jitter :
        spent' = spent + Least(OnTime, Minus(Usec, elapsed))
                   + Least(Minus(Minus(Usec, elapsed), OnTime), OffTime) + late
  BY DEF MarkPulse
<1> DEFINE pause == Least(Minus(Minus(Usec, elapsed), OnTime), OffTime)
<1>4. Least(OnTime, Minus(Usec, elapsed)) = OnTime /\ pause \in 0 .. Usec - elapsed - OnTime
  BY <1>1, PulseLength DEF MarkPulse
<1>5. spent' = spent + OnTime + pause + late
  BY <1>3, <1>4
<1>6. elapsed' = elapsed + (spent' - spent) \/ elapsed' = spent' - 1
  BY DEF MarkPulse
<1> HIDE DEF pause
<1>7. /\ spent' \in Nat /\ elapsed' \in Nat
      /\ elapsed' <= spent' /\ spent' <= elapsed' + 1
      /\ elapsed' <= Usec + Jitter
  BY <1>1, <1>2, <1>3, <1>4, <1>5, <1>6, CarrierAssumption
<1>8. TypeOK'
  <2>1. FlagsOK'
    BY DEF Inv, TypeOK, FlagsOK, MarkPulse, lamps
  <2>2. CodesOK'
    BY DEF Inv, TypeOK, CodesOK, MarkPulse, request
  <2>3. CountsOK'
    BY <1>7 DEF Inv, TypeOK, CountsOK, MarkPulse, request, memory, lamps
  <2> QED
    BY <2>1, <2>2, <2>3 DEF TypeOK
<1>9. HeapAccounted' /\ PartsFit' /\ SendsDeaf'
  BY DEF Inv, EmissionInv, HeapAccounted, PartsFit, SendsDeaf, MarkPulse, request, memory
<1>10. Handling' /\ Holding'
  BY DEF Inv, EmissionInv, Handling, Holding, MarkPulse, request, memory
<1>11. MarkInTime'
  <2>1. Marking' /\ Usec' = Usec
    BY DEF MarkPulse, Marking, Usec, Place
  <2>2. air' = air /\ series' = series
    BY DEF MarkPulse
  <2> QED
    BY <1>7, <2>1, <2>2 DEF Inv, EmissionInv, MarkInTime
<1> QED
  BY <1>8, <1>9, <1>10, <1>11 DEF Inv, EmissionInv

\* An interval goes out in time
InTime(length) == Usec <= length /\ length <= Usec + Jitter + 1 /\ Sent(length)

LEMMA MarkLastInTime ==
    Inv /\ MarkLast =>
        pc = "send" /\ Place <= Len(series) /\ \E length \in Nat : InTime(length)
<1> SUFFICES ASSUME Inv, MarkLast
             PROVE  pc = "send" /\ Place <= Len(series) /\ \E length \in Nat : InTime(length)
  OBVIOUS
<1>1. pc = "send" /\ Place <= Len(series)
  BY DEF MarkLast, Marking
<1>2. Usec \in Nat /\ elapsed \in Nat /\ spent \in Nat
  BY <1>1, UsecType DEF Inv, TypeOK, CountsOK
<1>3. elapsed <= spent /\ spent <= elapsed + 1
  BY DEF Inv, EmissionInv, MarkInTime
<1>4. PICK late \in 0 .. Jitter : Sent(spent + Least(OnTime, Minus(Usec, elapsed)) + late)
  BY DEF MarkLast
<1>5. Least(OnTime, Minus(Usec, elapsed)) = Usec - elapsed
  BY <1>2, CarrierAssumption DEF Least, Minus, MarkLast
<1> DEFINE length == spent + (Usec - elapsed) + late
<1>6. Sent(length)
  BY <1>4, <1>5
<1>7. length \in Nat /\ Usec <= length /\ length <= Usec + Jitter + 1
  BY <1>2, <1>3, CarrierAssumption DEF MarkLast
<1> HIDE DEF length
<1> QED
  BY <1>1, <1>6, <1>7 DEF InTime

LEMMA MarkOverInTime ==
    Inv /\ MarkOver =>
        pc = "send" /\ Place <= Len(series) /\ \E length \in Nat : InTime(length)
<1> SUFFICES ASSUME Inv, MarkOver
             PROVE  pc = "send" /\ Place <= Len(series) /\ \E length \in Nat : InTime(length)
  OBVIOUS
<1>1. pc = "send" /\ Place <= Len(series) /\ Sent(spent)
  BY DEF MarkOver, Marking
<1>2. Usec \in Nat /\ elapsed \in Nat /\ spent \in Nat
  BY <1>1, UsecType DEF Inv, TypeOK, CountsOK
<1>3. /\ elapsed <= spent /\ spent <= elapsed + 1 /\ Usec <= elapsed
      /\ spent > 0 => elapsed <= Usec + Jitter
  BY DEF Inv, EmissionInv, MarkInTime, MarkOver
<1>4. Usec <= spent /\ spent <= Usec + Jitter + 1
  BY <1>2, <1>3, CarrierAssumption
<1> QED
  BY <1>1, <1>2, <1>4 DEF InTime

LEMMA SpaceInTime ==
    Inv /\ Space =>
        pc = "send" /\ Place <= Len(series) /\ \E length \in Nat : InTime(length)
<1> SUFFICES ASSUME Inv, Space
             PROVE  pc = "send" /\ Place <= Len(series) /\ \E length \in Nat : InTime(length)
  OBVIOUS
<1>1. pc = "send" /\ Place <= Len(series)
  BY DEF Space, Spacing
<1>2. Usec \in Nat
  BY <1>1, UsecType
<1>3. PICK late \in 0 .. Jitter : Sent(Usec + late)
  BY DEF Space
<1>4. Usec + late \in Nat /\ Usec <= Usec + late /\ Usec + late <= Usec + Jitter + 1
  BY <1>2, CarrierAssumption
<1> QED
  BY <1>1, <1>3, <1>4 DEF InTime

LEMMA InvInterval == Inv /\ (MarkLast \/ MarkOver \/ Space) => Inv'
<1> SUFFICES ASSUME Inv, MarkLast \/ MarkOver \/ Space PROVE Inv'
  OBVIOUS
<1>1. pc = "send" /\ Place <= Len(series) /\ \E length \in Nat : InTime(length)
  BY MarkLastInTime, MarkOverInTime, SpaceInTime
<1> QED
  BY <1>1, InvSent DEF InTime

LEMMA InvSendEnds == Inv /\ SendEnds => Inv'
<1> SUFFICES ASSUME Inv, SendEnds PROVE Inv'
  OBVIOUS
<1>1. spent = 0 /\ elapsed = 0
  BY DEF Inv, EmissionInv, MarkInTime, Marking, Place, TypeOK, CodesOK, CountsOK, SendEnds
<1>2. TypeOK'
  <2>1. FlagsOK'
    BY DEF Inv, TypeOK, FlagsOK, Places, SendEnds
  <2>2. CodesOK'
    BY DEF Inv, TypeOK, CodesOK, SendEnds, request
  <2>3. CountsOK'
    BY DEF Inv, TypeOK, CountsOK, SendEnds, request, memory
  <2> QED
    BY <2>1, <2>2, <2>3 DEF TypeOK
<1>3. HeapAccounted' /\ SendsDeaf'
  BY DEF Inv, EmissionInv, HeapAccounted, SendsDeaf, SendEnds, request, memory
<1>4. PartsFit'
  BY PacketAssumption DEF Inv, EmissionInv, PartsFit, SendEnds, memory
<1>5. Handling' /\ Holding'
  BY DEF Inv, EmissionInv, Handling, Holding, SendEnds, request, memory
<1>6. MarkInTime'
  BY <1>1 DEF MarkInTime, SendEnds
<1> QED
  BY <1>2, <1>3, <1>4, <1>5, <1>6 DEF Inv, EmissionInv

LEMMA InvBlink == Inv /\ Blink => Inv'
<1> SUFFICES ASSUME Inv, Blink PROVE Inv'
  OBVIOUS
<1>1. series = <<>> /\ series' = <<>> /\ MarkInTime'
  BY InvQuiet DEF Blink
<1>2. TypeOK'
  <2>1. FlagsOK'
    BY DEF Inv, TypeOK, FlagsOK, Blink
  <2>2. CodesOK'
    BY DEF Inv, TypeOK, CodesOK, Blink, request, sending
  <2>3. CountsOK'
    BY DEF Inv, TypeOK, CountsOK, Blink, request, sending, memory
  <2> QED
    BY <2>1, <2>2, <2>3 DEF TypeOK
<1>3. HeapAccounted' /\ SendsDeaf' /\ PartsFit'
  BY <1>1 DEF Inv, EmissionInv, HeapAccounted, SendsDeaf, PartsFit, Blink, request, memory
<1>4. Handling' /\ Holding'
  BY <1>1 DEF Inv, EmissionInv, Handling, Holding, Blink, request, memory
<1> QED
  BY <1>1, <1>2, <1>3, <1>4 DEF Inv, EmissionInv

LEMMA InvReturn == Inv /\ Return => Inv'
<1> SUFFICES ASSUME Inv, Return PROVE Inv'
  OBVIOUS
<1>1. series = <<>> /\ series' = <<>> /\ MarkInTime'
  BY InvQuiet DEF Return
<1>2. TypeOK'
  <2>1. FlagsOK'
    BY DEF Inv, TypeOK, FlagsOK, Places, Return
  <2>2. CodesOK'
    BY DEF Inv, TypeOK, CodesOK, Return, sending
  <2>3. CountsOK'
    BY Known DEF Inv, TypeOK, CountsOK, Return, sending
  <2> QED
    BY <2>1, <2>2, <2>3 DEF TypeOK
<1>3. HeapAccounted'
  BY Known, NoParts DEF Inv, EmissionInv, HeapAccounted, Return
<1>4. SendsDeaf' /\ PartsFit'
  BY <1>1, PacketAssumption DEF SendsDeaf, PartsFit, Return
<1>5. Handling' /\ Holding'
  BY <1>1 DEF Handling, Holding, Return
<1> QED
  BY <1>1, <1>2, <1>3, <1>4, <1>5 DEF Inv, EmissionInv

LEMMA InvBoot == Inv /\ Boot => Inv'
<1> SUFFICES ASSUME Inv, Boot PROVE Inv'
  OBVIOUS
<1>1. series = <<>> /\ series' = <<>> /\ MarkInTime'
  BY InvQuiet DEF Boot
<1>2. TypeOK'
  <2>1. FlagsOK'
    BY DEF Inv, TypeOK, FlagsOK, Places, Boot, lamps
  <2>2. CodesOK'
    BY DEF Inv, TypeOK, CodesOK, Boot, request, sending
  <2>3. CountsOK'
    BY DEF Inv, TypeOK, CountsOK, Boot, request, sending, memory, lamps
  <2> QED
    BY <2>1, <2>2, <2>3 DEF TypeOK
<1>3. HeapAccounted' /\ SendsDeaf' /\ PartsFit'
  BY <1>1 DEF Inv, EmissionInv, HeapAccounted, SendsDeaf, PartsFit, Boot, request, memory
<1>4. Handling' /\ Holding'
  BY <1>1 DEF Inv, EmissionInv, Handling, Holding, Boot, request, memory
<1> QED
  BY <1>1, <1>2, <1>3, <1>4 DEF Inv, EmissionInv

LEMMA InvStudyTurns == Inv /\ StudyTurns => Inv'
<1> SUFFICES ASSUME Inv, StudyTurns PROVE Inv'
  OBVIOUS
<1>1. series = <<>> /\ series' = <<>> /\ MarkInTime'
  BY InvQuiet DEF StudyTurns
<1>2. TypeOK'
  <2>1. FlagsOK'
    BY DEF Inv, TypeOK, FlagsOK, StudyTurns, lamps
  <2>2. CodesOK'
    BY DEF Inv, TypeOK, CodesOK, StudyTurns, request, sending
  <2>3. CountsOK'
    BY DEF Inv, TypeOK, CountsOK, StudyTurns, request, sending, memory, lamps
  <2> QED
    BY <2>1, <2>2, <2>3 DEF TypeOK
<1>3. HeapAccounted' /\ SendsDeaf' /\ PartsFit'
  BY <1>1 DEF Inv, EmissionInv, HeapAccounted, SendsDeaf, PartsFit, StudyTurns, request, memory
<1>4. Handling' /\ Holding'
  BY <1>1 DEF Inv, EmissionInv, Handling, Holding, StudyTurns, request, memory
<1> QED
  BY <1>1, <1>2, <1>3, <1>4 DEF Inv, EmissionInv

LEMMA InvStutter == Inv /\ UNCHANGED vars => Inv'
<1> SUFFICES ASSUME Inv, UNCHANGED vars PROVE Inv'
  OBVIOUS
<1> USE DEF vars, request, sending, memory, lamps
<1>1. TypeOK'
  BY DEF Inv, TypeOK, FlagsOK, CodesOK, CountsOK
<1>2. HeapAccounted' /\ PartsFit' /\ SendsDeaf' /\ Handling' /\ Holding'
  BY DEF Inv, EmissionInv, HeapAccounted, PartsFit, SendsDeaf, Handling, Holding
<1>3. MarkInTime'
  BY DEF Inv, EmissionInv, MarkInTime, Marking, Usec, Place
<1> QED
  BY <1>1, <1>2, <1>3 DEF Inv, EmissionInv

LEMMA InvStep == Inv /\ [Next]_vars => Inv'
<1> SUFFICES ASSUME Inv, [Next]_vars PROVE Inv'
  OBVIOUS
<1>1. CASE Receive \/ TakeContent \/ TakeValue \/ ValueLost \/ TakeCopy \/ SplitPart
  BY <1>1, InvReceive, InvTakeContent, InvTakeValue, InvValueLost, InvTakeCopy, InvSplitPart
<1>2. CASE ContentLost \/ CopyLost \/ SplitFails
  BY <1>2, InvGiveUp DEF ContentLost, CopyLost, SplitFails
<1>3. CASE SplitCrashes \/ PowerFails
  BY <1>3, InvDown DEF SplitCrashes, PowerFails
<1>4. CASE EmitIR \/ MarkPulse \/ MarkLast \/ MarkOver \/ Space \/ SendEnds
  BY <1>4, InvEmitIR, InvMarkPulse, InvInterval, InvSendEnds
<1>5. CASE Blink \/ Return \/ Boot \/ StudyTurns
  BY <1>5, InvBlink, InvReturn, InvBoot, InvStudyTurns
<1>6. CASE UNCHANGED vars
  BY <1>6, InvStutter
<1> QED
  BY <1>1, <1>2, <1>3, <1>4, <1>5, <1>6 DEF Next, Emit

LEMMA Invariance == Spec => []Inv
  BY InvInit, InvStep, PTL DEF Spec

-----------------------------------------------------------------------------
(* Theorems.                                                                *)

\* No allocation that failed is used: the heap is never overdrawn, and every
\* variable keeps its type.
THEOREM TypeCorrect == Spec => []TypeOK
<1>1. Inv => TypeOK
  BY DEF Inv
<1> QED
  BY <1>1, Invariance, PTL

\* The ledger of the heap, the arrays, and the running mark (the inductive
\* invariant), for every heap and every code.
THEOREM EmissionInvariance == Spec => []EmissionInv
<1>1. Inv => EmissionInv
  BY DEF Inv
<1> QED
  BY <1>1, Invariance, PTL

\* No path through the handlers loses heap but the one that plays a code.
THEOREM HeapIsAccounted == Spec => []HeapAccounted
<1>1. Inv => HeapAccounted
  BY DEF Inv, EmissionInv
<1> QED
  BY <1>1, Invariance, PTL

\* split_string and emitIR stay inside their arrays whenever the packet
\* buffer is at most twice as long as they are.
THEOREM PartsAlwaysFit == Spec => []PartsFit
<1>1. Inv => PartsFit
  BY DEF Inv, EmissionInv
<1> QED
  BY <1>1, Invariance, PTL

\* The receiver is off while the kit sends.
THEOREM SendingIsDeaf == Spec => []SendsDeaf
<1>1. Inv => SendsDeaf
  BY DEF Inv, EmissionInv
<1> QED
  BY <1>1, Invariance, PTL

\* A handler gives up, or the kit crashes, only over an empty key value or
\* for want of heap that was already missing when the message came.
LEMMA UnplayedStep ==
    Inv /\ [Next]_vars => (Unplayed => asked = <<>> \/ room < Need(asked, size))
<1> SUFFICES ASSUME Inv, [Next]_vars, Unplayed
             PROVE  asked = <<>> \/ room < Need(asked, size)
  OBVIOUS
<1> DEFINE p == PayloadTakes(size)
           c == ContentTakes(size) + Names
           q == ValueTakes(asked)
           l == CopyTakes(asked)
           k == Cut(asked, Len(asked))
           n == Need(asked, size)
<1>1. room \in Nat /\ heap \in Nat
  BY Known
<1>2. /\ p \in Nat /\ c \in Nat /\ q \in Nat /\ l \in Nat /\ k \in Nat
      /\ n = p + c + q + l + k
  <2>1. p \in Nat /\ c \in Nat /\ q \in Nat /\ l \in Nat /\ k \in Nat
    BY Known, Takes
  <2>2. n = p + c + q + l + k
    BY DEF Need
  <2> QED
    BY <2>1, <2>2
<1>3. CASE pc = "content"
  <2>1. ContentLost
    BY <1>3 DEF Unplayed, Next, Emit, vars, Receive, TakeContent, TakeValue, ValueLost,
         TakeCopy, CopyLost, SplitPart, SplitFails, SplitCrashes, EmitIR, MarkPulse,
         MarkLast, MarkOver, Marking, Space, Spacing, SendEnds, Blink, Return, Boot,
         PowerFails, GoDown, StudyTurns
  <2>2. room - p < c
    BY <1>3, <2>1 DEF Inv, EmissionInv, Holding, ContentLost
  <2> HIDE DEF p, c, q, l, k, n
  <2>3. room < n
    BY <1>1, <1>2, <2>2
  <2> QED
    BY <2>3 DEF n
<1>4. CASE pc = "copy"
  <2>1. CopyLost
    BY <1>4 DEF Unplayed, Next, Emit, vars, Receive, TakeContent, ContentLost, TakeValue,
         ValueLost, TakeCopy, SplitPart, SplitFails, SplitCrashes, EmitIR, MarkPulse,
         MarkLast, MarkOver, Marking, Space, Spacing, SendEnds, Blink, Return, Boot,
         PowerFails, GoDown, StudyTurns
  <2>2. CASE /\ value = asked
             /\ heap >= room - PayloadTakes(size) - (ContentTakes(size) + Names) - ValueTakes(value)
    <3>1. heap >= room - p - c - q /\ heap < l
      BY <2>1, <2>2 DEF CopyLost
    <3> HIDE DEF p, c, q, l, k, n
    <3>2. room < n
      BY <1>1, <1>2, <3>1
    <3> QED
      BY <3>2 DEF n
  <2>3. CASE value = <<>> /\ room < Need(asked, size)
    BY <2>3
  <2> QED
    BY <1>4, <2>2, <2>3 DEF Inv, EmissionInv, Holding
<1>5. CASE pc = "split"
  <2>1. CASE value = <<>>
    BY <1>5, <2>1 DEF Inv, EmissionInv, Holding, Handling
  <2>2. CASE value # <<>>
    <3>1. SplitFails
      BY <1>5, <2>2 DEF Unplayed, Next, Emit, vars, Receive, TakeContent, ContentLost,
           TakeValue, ValueLost, TakeCopy, CopyLost, SplitPart, SplitCrashes, EmitIR,
           MarkPulse, MarkLast, MarkOver, Marking, Space, Spacing, SendEnds, Blink,
           Return, Boot, PowerFails, GoDown, StudyTurns
    <3>2. /\ value = asked
          /\ heap >= room - PayloadTakes(size) - (ContentTakes(size) + Names)
                      - ValueTakes(value) - CopyTakes(value) - Cut(value, parts)
      BY <1>5, <2>2 DEF Inv, EmissionInv, Holding
    <3> DEFINE i == Cut(asked, parts)
               j == Cut(asked, parts + 1)
    <3>3. heap >= room - p - c - q - l - i /\ heap < j - i
      BY <3>1, <3>2 DEF SplitFails, NextTakes
    <3>5. i \in Nat /\ j \in Nat /\ j <= k
      <4>1. parts + 1 \in 0 .. Len(asked) /\ parts \in 0 .. Len(asked)
        BY <3>1, <3>2, Known DEF SplitFails
      <4> QED
        BY <4>1, Known, CutBytes
    <3> HIDE DEF p, c, q, l, k, n, i, j
    <3>4. room < n
      BY <1>1, <1>2, <3>3, <3>5
    <3> QED
      BY <3>4 DEF n
  <2> QED
    BY <2>1, <2>2
<1>6. CASE pc \in {"value", "send"}
  BY <1>6 DEF Unplayed, Next, Emit, vars, Receive, TakeContent, ContentLost, TakeValue,
       ValueLost, TakeCopy, CopyLost, SplitPart, SplitFails, SplitCrashes, EmitIR,
       MarkPulse, MarkLast, MarkOver, Sent, Space, SendEnds, Blink, Return, Boot,
       PowerFails, GoDown, StudyTurns
<1> QED
  BY <1>3, <1>4, <1>5, <1>6 DEF Unplayed

\* A code that is not empty and finds the bytes the handlers take for it, from
\* the copy of the payload to the last strdup, is played; power cuts aside.
THEOREM KeysArePlayed == Spec => KeyIsPlayed
  BY Invariance, UnplayedStep, PTL DEF Spec, KeyIsPlayed

\* 16 bits are wide enough for this timing.
LEMMA CutKeeps == ASSUME NEW x \in 0 .. Width - 1 PROVE x % Width = x
  BY WidthAssumption, SMT

\* A captured code goes out as it came in, but for timings 16 bits cannot hold.
THEOREM CodesAreReplayed == Spec => []Replays
<1>1. Inv => Replays
  <2> SUFFICES ASSUME Inv, NEW c \in Captures, NEW i \in 1 .. Len(air),
                      asked = Code(c), i <= Len(asked), asked[i] < Width
               PROVE  air[i] \in asked[i] .. asked[i] + Jitter + 1
    BY DEF Replays
  <2>1. asked \in Seq(Nat)
    BY CodesAssumption DEF KeyValues
  <2>2. air[i] \in series[i] .. series[i] + Jitter + 1 /\ i \in 1 .. Len(series)
    BY DEF Inv, TypeOK, CodesOK, EmissionInv, MarkInTime
  <2>3. pc = "send"
    BY <2>2 DEF Inv, EmissionInv, Handling
  <2>4. series = Series(asked)
    BY <2>3 DEF Inv, EmissionInv, Handling
  <2>5. i \in 1 .. Len(asked) + 1 /\ asked[i] \in 0 .. Width - 1
    <3>1. Len(asked) \in Nat /\ i \in Nat /\ i >= 1
      BY <2>1 DEF Inv, TypeOK, CodesOK
    <3>2. asked[i] \in Nat
      BY <2>1, <3>1
    <3> QED
      BY <3>1, <3>2, WidthAssumption
  <2>6. series[i] = asked[i]
    BY <2>4, <2>5, CutKeeps DEF Series
  <2> QED
    BY <2>2, <2>6
<1> QED
  BY <1>1, Invariance, PTL

-----------------------------------------------------------------------------
(* Emission implements Playback.                                            *)

LEMMA PlaybackInit == Init => Kit!Init
  BY DEF Init, Kit!Init, Kit!Silent

\* Every step of Emission is a step of Playback or leaves it alone.
LEMMA PlaybackStep == Inv /\ [Next]_vars => [Kit!Next]_Kit!vars
<1> SUFFICES ASSUME Inv, [Next]_vars PROVE [Kit!Next]_Kit!vars
  OBVIOUS
<1> USE DEF Kit!vars
<1>1. CASE Receive \/ TakeContent \/ TakeValue \/ ValueLost \/ TakeCopy \/ SplitPart
  BY <1>1 DEF Receive, TakeContent, TakeValue, ValueLost, TakeCopy, SplitPart, sending
<1>2. CASE ContentLost \/ CopyLost \/ SplitFails
  BY <1>2 DEF ContentLost, CopyLost, SplitFails, GiveUp, sending
<1>3. CASE SplitCrashes \/ PowerFails
  BY <1>3 DEF SplitCrashes, PowerFails, GoDown, Kit!Next, Kit!GoDown
<1>4. CASE EmitIR
  <2>1. value \in KeyValues \ {<<>>} /\ series = <<>>
    BY <1>4 DEF Inv, EmissionInv, Handling, EmitIR
  <2>2. air = <<>>
    BY <2>1 DEF Inv, EmissionInv, MarkInTime, TypeOK, CodesOK
  <2>3. Kit!Begin
    BY <1>4, <2>1, <2>2 DEF EmitIR, Kit!Begin, Kit!Silent
  <2> QED
    BY <2>3 DEF Kit!Next
<1>5. CASE MarkPulse \/ Blink \/ Return \/ StudyTurns
  BY <1>5 DEF MarkPulse, Blink, Return, StudyTurns, sending
<1>6. CASE MarkLast \/ MarkOver \/ Space
  <2>1. pc = "send" /\ Place <= Len(series) /\ \E length \in Nat : InTime(length)
    BY <1>6, MarkLastInTime, MarkOverInTime, SpaceInTime
  <2>2. PICK length \in Nat : InTime(length)
    BY <2>1
  <2>3. Len(air) < Len(series) /\ Usec \in Nat /\ Usec = series[Len(air) + 1]
    BY <2>1, UsecType DEF Place, Usec
  <2>4. length \in Usec .. Usec + (Jitter + 1)
    BY <2>2, <2>3, CarrierAssumption DEF InTime
  <2>5. Kit!PlayNext
    BY <2>1, <2>2, <2>3, <2>4 DEF InTime, Sent, Kit!PlayNext
  <2> QED
    BY <2>5 DEF Kit!Next
<1>7. CASE SendEnds
  <2>1. Kit!End
    BY <1>7 DEF SendEnds, Kit!End
  <2> QED
    BY <2>1 DEF Kit!Next
<1>8. CASE Boot
  <2>1. Kit!ComeUp
    BY <1>8 DEF Boot, sending, Kit!ComeUp
  <2> QED
    BY <2>1 DEF Kit!Next
<1>9. CASE UNCHANGED vars
  BY <1>9 DEF vars, sending
<1> QED
  BY <1>1, <1>2, <1>3, <1>4, <1>5, <1>6, <1>7, <1>8, <1>9 DEF Next, Emit

\* Whatever a console asks for is played whole and in order, every interval
\* in time, or not at all: Emission implements Playback.
THEOREM ImplementsPlayback == Spec => PlaybackKept
<1>1. Inv /\ [Next]_vars => [Kit!Next]_Kit!vars
  BY PlaybackStep
<1> QED
  BY <1>1, Invariance, PlaybackInit, PTL DEF Spec, PlaybackKept, Kit!Spec
-----------------------------------------------------------------------------
(* Every message comes to its end.                                          *)

LEMMA OneLess == ASSUME NEW n \in Int, NEW m \in Int PROVE (n - 1) * m = n * m - m
  OBVIOUS

LEMMA SpentIsLess ==
    ASSUME NEW n \in Int, NEW m \in Nat, NEW k \in Nat, k > m
    PROVE  n - k + 6 < n - m + 6
  OBVIOUS

LEMMA LongerTakesMore ==
    ASSUME NEW a \in Nat, NEW b \in Nat, a <= b, NEW m \in Nat
    PROVE  a * m \in Nat /\ b * m \in Nat /\ a * m <= b * m
<1>1. a * m \in Nat /\ b * m \in Nat /\ (b - a) * m \in Nat
  BY Products
<1>2. b * m = a * m + (b - a) * m
  OBVIOUS
<1> QED
  BY <1>1, <1>2

\* The numbers StepsLeft is made of.
LEMMA StepNumbers ==
    ASSUME Inv
    PROVE  /\ MaxPulses \in Nat \ {0} /\ Len(asked) \in Nat /\ parts \in Nat
           /\ spent \in Nat /\ Len(series) \in Nat /\ Len(air) \in Nat
           /\ blinks \in 0 .. 4 /\ pc \in Places
           /\ spent < MaxPulses
<1>1. /\ pc \in Places /\ parts \in Nat /\ spent \in Nat /\ elapsed \in Nat /\ blinks \in 0 .. 4
      /\ Len(series) \in Nat /\ Len(air) \in Nat
  BY DEF Inv, TypeOK, FlagsOK, CountsOK, CodesOK
<1>2. asked \in Seq(Nat)
  <2>1. asked \in KeyValues \cup {<<>>} /\ <<>> \in Seq(Nat)
    BY DEF Inv, TypeOK, CodesOK
  <2> QED
    BY <2>1, CodesAssumption
<1>3. MaxPulses \in Nat \ {0} /\ MaxPulses = Width + Jitter + 2
  BY WidthAssumption, CarrierAssumption DEF MaxPulses
<1>4. CASE spent = 0
  BY <1>1, <1>2, <1>3, <1>4
<1>5. CASE spent > 0
  <2>1. Marking /\ elapsed <= Usec + Jitter /\ spent <= elapsed + 1
    BY <1>5 DEF Inv, EmissionInv, MarkInTime
  <2>2. Usec \in Nat /\ Usec < Width
    BY <2>1, UsecType DEF Marking
  <2>3. spent < MaxPulses
    BY <1>1, <1>3, <2>1, <2>2, WidthAssumption, CarrierAssumption
  <2> QED
    BY <1>1, <1>2, <1>3, <2>3
<1> QED
  BY <1>1, <1>4, <1>5

\* Outside of the sending, asked is what is to be sent; while it is sent, the
\* series has one interval more.
LEMMA ToSend ==
    ASSUME Inv
    PROVE  /\ Sendings \in Nat /\ Sendings = (Len(asked) + 1) * MaxPulses + 6
           /\ pc \notin {"idle", "down"} => Len(asked) <= SeriesMax
           /\ parts <= Len(asked)
           /\ pc = "send" => Len(series) = Len(asked) + 1 /\ Len(air) <= Len(series)
<1>1. Len(asked) \in Nat /\ MaxPulses \in Nat
  BY StepNumbers
<1>2. Sendings \in Nat /\ Sendings = (Len(asked) + 1) * MaxPulses + 6
  BY <1>1, Products DEF Sendings
<1>3. pc \notin {"idle", "down"} => Len(asked) <= SeriesMax
  <2> SUFFICES ASSUME pc \notin {"idle", "down"} PROVE Len(asked) <= SeriesMax
    OBVIOUS
  <2>1. pc \in {"content", "value", "copy", "split", "send", "blink"}
    BY StepNumbers DEF Places
  <2>2. asked \in KeyValues /\ size >= LeastSize(asked) /\ size <= MaxPacket /\ size \in Nat
    BY <2>1 DEF Inv, TypeOK, CountsOK, EmissionInv, Handling
  <2> QED
    BY <2>2, FitsParts, CodesAssumption
<1>4. parts <= Len(asked)
  <2>1. parts <= Len(value) /\ value \in {asked, <<>>} /\ parts \in Nat
    BY StepNumbers DEF Inv, EmissionInv, Handling, Places
  <2>2. Len(<<>>) = 0
    OBVIOUS
  <2> QED
    BY <1>1, <2>1, <2>2
<1>5. ASSUME pc = "send"
      PROVE  Len(series) = Len(asked) + 1 /\ Len(air) <= Len(series)
  <2>1. value = asked /\ value \in Seq(Nat) /\ series = Series(value) /\ Len(air) <= Len(series)
    BY <1>5 DEF Inv, TypeOK, CodesOK, EmissionInv, Handling, MarkInTime
  <2> QED
    BY <2>1, SeriesType
<1> QED
  BY <1>2, <1>3, <1>4, <1>5

LEMMA StepsType == Inv => StepsLeft \in 0 .. MaxSteps
<1> SUFFICES ASSUME Inv PROVE StepsLeft \in 0 .. MaxSteps
  OBVIOUS
<1> DEFINE most == (SeriesMax + 1) * MaxPulses
<1>1. /\ Len(asked) \in Nat /\ parts \in Nat /\ spent \in Nat /\ blinks \in 0 .. 4
      /\ MaxPulses \in Nat /\ spent < MaxPulses /\ pc \in Places
  BY StepNumbers
<1>2. most \in Nat /\ MaxSteps = most + SeriesMax + 10 /\ SeriesMax \in Nat
  BY <1>1, Products, PacketAssumption DEF MaxSteps
<1>3. CASE pc \in {"idle", "down", "blink"}
  <2> HIDE DEF most
  <2> QED
    BY <1>1, <1>2, <1>3 DEF StepsLeft
<1>4. CASE pc = "send"
  <2> DEFINE n == Len(series) - Len(air)
  <2>1. n \in 0 .. Len(asked) + 1 /\ Len(asked) <= SeriesMax
    BY <1>4, ToSend, StepNumbers
  <2>2. n * MaxPulses \in Nat /\ n * MaxPulses <= most
    BY <1>1, <1>2, <2>1, LongerTakesMore
  <2>3. n = 0 => spent = 0
    BY <1>1 DEF Inv, EmissionInv, MarkInTime, Marking, Place
  <2>4. n * MaxPulses >= spent
    <3>1. CASE n = 0
      BY <1>1, <2>3, <3>1
    <3>2. CASE n # 0
      <4>1. MaxPulses = 1 * MaxPulses /\ 1 <= n
        BY <1>1, <2>1, <3>2
      <4>2. 1 * MaxPulses <= n * MaxPulses
        BY <1>1, <2>1, <4>1, LongerTakesMore
      <4> QED
        BY <1>1, <2>2, <4>1, <4>2
    <3> QED
      BY <3>1, <3>2
  <2>5. StepsLeft = n * MaxPulses - spent + 6
    BY <1>4 DEF StepsLeft
  <2> HIDE DEF n, most
  <2> QED
    BY <1>1, <1>2, <2>2, <2>4, <2>5
<1>5. CASE pc \in {"content", "value", "copy", "split"}
  <2>1. /\ Len(asked) <= SeriesMax /\ parts <= Len(asked)
        /\ Sendings \in Nat /\ Sendings = (Len(asked) + 1) * MaxPulses + 6
    BY <1>5, ToSend
  <2>2. (Len(asked) + 1) * MaxPulses <= most
    BY <1>1, <1>2, <2>1, LongerTakesMore
  <2>3. Sendings <= most + 6
    BY <1>1, <1>2, <2>1, <2>2
  <2> HIDE DEF most
  <2> QED
    BY <1>1, <1>2, <1>5, <2>1, <2>3 DEF StepsLeft
<1> QED
  BY <1>1, <1>3, <1>4, <1>5 DEF Places

\* A pulse takes time, and an interval that is over is one less to send.
LEMMA SendAdvances ==
    ASSUME Inv, Inv', MarkPulse \/ MarkLast \/ MarkOver \/ Space
    PROVE  StepsLeft' < StepsLeft
<1> DEFINE n == Len(series) - Len(air)
<1>1. MaxPulses \in Nat /\ spent \in Nat /\ spent < MaxPulses /\ n \in Int
  BY StepNumbers
<1>2. StepsLeft = n * MaxPulses - spent + 6 /\ n * MaxPulses \in Int
  BY <1>1 DEF StepsLeft, MarkPulse, MarkLast, MarkOver, Space, Marking, Spacing
<1>3. CASE MarkPulse
  <2>1. /\ pc' = "send" /\ series' = series /\ air' = air
        /\ Usec \in Nat /\ elapsed \in Nat
    BY <1>3, UsecType DEF MarkPulse, Marking, Inv, TypeOK, CountsOK
  <2>2. PICK late \in 0 .. Jitter :
          spent' = spent + Least(OnTime, Minus(Usec, elapsed))
                     + Least(Minus(Minus(Usec, elapsed), OnTime), OffTime) + late
    BY <1>3 DEF MarkPulse
  <2> DEFINE pause == Least(Minus(Minus(Usec, elapsed), OnTime), OffTime)
  <2>3. /\ Least(OnTime, Minus(Usec, elapsed)) = OnTime
        /\ pause \in 0 .. Usec - elapsed - OnTime
    BY <1>3, <2>1, PulseLength DEF MarkPulse
  <2>4. spent' = spent + OnTime + pause + late
    BY <2>2, <2>3
  <2> HIDE DEF pause
  <2>5. spent' > spent /\ spent' \in Nat /\ spent \in Nat
    BY <1>1, <2>1, <2>3, <2>4, CarrierAssumption
  <2>6. StepsLeft' = n * MaxPulses - spent' + 6
    BY <2>1 DEF StepsLeft, MaxPulses
  <2> DEFINE left == n * MaxPulses
  <2>7. left \in Int /\ StepsLeft = left - spent + 6 /\ StepsLeft' = left - spent' + 6
    BY <1>2, <2>6
  <2> HIDE DEF left
  <2> QED
    BY <2>5, <2>7, SpentIsLess
<1>4. CASE MarkLast \/ MarkOver \/ Space
  <2>1. pc = "send" /\ \E length \in Nat : InTime(length)
    BY <1>4, MarkLastInTime, MarkOverInTime, SpaceInTime
  <2>2. PICK length \in Nat : Sent(length)
    BY <2>1 DEF InTime
  <2>3. /\ pc' = "send" /\ series' = series /\ spent' = 0
        /\ Len(air') = Len(air) + 1
    BY <2>1, <2>2 DEF Sent, Inv, TypeOK, CodesOK
  <2>4. StepsLeft' = (Len(series') - Len(air')) * MaxPulses - spent' + 6
    BY <2>3 DEF StepsLeft, MaxPulses
  <2>5. Len(series') - Len(air') = n - 1
    BY <2>3, StepNumbers
  <2>6. (n - 1) * MaxPulses = n * MaxPulses - MaxPulses
    BY <1>1, OneLess
  <2>7. StepsLeft' = n * MaxPulses - MaxPulses + 6
    BY <1>1, <1>2, <2>3, <2>4, <2>5, <2>6
  <2> HIDE DEF n
  <2> QED
    BY <1>1, <1>2, <2>7
<1> QED
  BY <1>3, <1>4

\* A handler that ends early is at its end, or one restart away from it.
LEMMA GivingUpEnds ==
    ASSUME Inv, pc \in {"content", "copy", "split"}, GiveUp \/ GoDown
    PROVE  StepsLeft' < StepsLeft
<1>1. /\ Sendings \in Nat /\ parts <= Len(asked)
      /\ Len(asked) \in Nat /\ parts \in Nat
  BY ToSend, StepNumbers
<1>2. Sendings >= 6
  BY StepNumbers, Products DEF Sendings
<1>3. StepsLeft > 1
  BY <1>1, <1>2 DEF StepsLeft
<1>4. StepsLeft' \in {0, 1}
  BY DEF StepsLeft, GiveUp, GoDown
<1> QED
  BY <1>1, <1>3, <1>4 DEF StepsLeft

LEMMA EmitStep == Inv /\ Inv' /\ Emit => StepsLeft' < StepsLeft
<1> SUFFICES ASSUME Inv, Inv', Emit PROVE StepsLeft' < StepsLeft
  OBVIOUS
<1>1. /\ Sendings \in Nat /\ Len(asked) \in Nat /\ parts \in Nat /\ parts <= Len(asked)
      /\ Len(series) \in Nat /\ Len(air) \in Nat /\ spent \in Nat /\ blinks \in 0 .. 4
  BY ToSend, StepNumbers
<1>2. CASE TakeContent \/ TakeValue \/ ValueLost \/ TakeCopy
  <2>1. /\ asked' = asked /\ parts' = parts
        /\ \/ pc = "content" /\ pc' = "value"
           \/ pc = "value" /\ pc' = "copy"
           \/ pc = "copy" /\ pc' = "split"
    BY <1>2 DEF TakeContent, TakeValue, ValueLost, TakeCopy, Hold, request, memory
  <2>2. Sendings' = Sendings
    BY <2>1 DEF Sendings, MaxPulses
  <2> QED
    BY <1>1, <2>1, <2>2 DEF StepsLeft
<1>3. CASE SplitPart
  <2>1. pc = "split" /\ pc' = "split" /\ asked' = asked /\ parts' = parts + 1
    BY <1>3 DEF SplitPart, request
  <2>2. Sendings' = Sendings
    BY <2>1 DEF Sendings, MaxPulses
  <2> QED
    BY <1>1, <2>1, <2>2 DEF StepsLeft
<1>4. CASE ContentLost \/ CopyLost \/ SplitFails \/ SplitCrashes
  BY <1>4, GivingUpEnds DEF ContentLost, CopyLost, SplitFails, SplitCrashes
<1>5. CASE EmitIR
  <2>1. /\ pc = "split" /\ pc' = "send" /\ asked' = asked /\ spent' = spent
        /\ air' = <<>> /\ Len(air') = 0
    BY <1>5 DEF EmitIR, request
  <2>2. Len(series') = Len(asked) + 1
    <3>1. value = asked /\ value \in Seq(Nat) /\ series' = Series(value)
      BY <1>5 DEF EmitIR, Inv, TypeOK, CodesOK, EmissionInv, Handling
    <3> QED
      BY <3>1, SeriesType
  <2>3. StepsLeft' = (Len(series') - Len(air')) * MaxPulses - spent' + 6
    BY <2>1 DEF StepsLeft, MaxPulses
  <2>4. Len(series') - Len(air') = Len(asked) + 1
    BY <1>1, <2>1, <2>2
  <2>5. StepsLeft' = Sendings - spent
    <3>1. StepsLeft' = (Len(asked) + 1) * MaxPulses - spent + 6
      BY <2>1, <2>3, <2>4
    <3> QED
      BY <1>1, <3>1, StepNumbers, Products DEF Sendings
  <2>6. StepsLeft >= Sendings + 1
    BY <1>1, <2>1 DEF StepsLeft
  <2>7. StepsLeft \in Nat
    BY <1>1, <2>1 DEF StepsLeft
  <2> QED
    BY <1>1, <2>5, <2>6, <2>7
<1>6. CASE MarkPulse \/ MarkLast \/ MarkOver \/ Space
  BY <1>6, SendAdvances
<1>7. CASE SendEnds
  <2>1. pc = "send" /\ pc' = "blink" /\ blinks' = 0 /\ Len(series) - Len(air) = 0
    BY <1>1, <1>7 DEF SendEnds
  <2>2. spent = 0
    BY <1>1, <2>1 DEF Inv, EmissionInv, MarkInTime, Marking, Place
  <2>3. 0 * MaxPulses = 0
    BY StepNumbers
  <2>4. StepsLeft = 6
    BY <2>1, <2>2, <2>3 DEF StepsLeft
  <2>5. StepsLeft' = 5
    BY <2>1 DEF StepsLeft
  <2> QED
    BY <2>4, <2>5
<1>8. CASE Blink
  BY <1>1, <1>8 DEF Blink, StepsLeft
<1>9. CASE Return
  BY <1>9 DEF Return, StepsLeft
<1>10. CASE Boot
  BY <1>10 DEF Boot, StepsLeft
<1> QED
  BY <1>2, <1>3, <1>4, <1>5, <1>6, <1>7, <1>8, <1>9, <1>10 DEF Emit

\* A message is done with after MaxSteps steps of the main loop, whatever it holds
\* and however pulses and pauses fall: the arithmetic under EmissionEnds.
THEOREM EmissionAdvances == Spec => [](StepsLeft \in 0 .. MaxSteps) /\ EmitAdvances
<1> DEFINE Advance ==
        /\ Emit => StepsLeft' < StepsLeft
        /\ PowerFails => StepsLeft' = 1
        /\ StudyTurns => StepsLeft' = StepsLeft
<1>1. Inv /\ [Next]_vars => [Advance]_vars
  <2> SUFFICES ASSUME Inv, [Next]_vars PROVE Advance
    OBVIOUS
  <2>1. Emit => StepsLeft' < StepsLeft
    BY InvStep, EmitStep
  <2>2. PowerFails => StepsLeft' = 1
    BY DEF PowerFails, GoDown, StepsLeft
  <2>3. StudyTurns => StepsLeft' = StepsLeft
    BY DEF StudyTurns, StepsLeft
  <2> QED
    BY <2>1, <2>2, <2>3
<1> QED
  BY <1>1, Invariance, StepsType, PTL DEF Spec, EmitAdvances
=============================================================================
