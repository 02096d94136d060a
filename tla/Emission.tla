------------------------------ MODULE Emission ------------------------------
(***************************************************************************)
(* From a message __emit_code to the infrared LED: the copies of the code   *)
(* on the way, each of which may find no heap, split_string, the timings    *)
(* cut to 16 bits, and sendRaw with its software carrier.                   *)
(*                                                                         *)
(* A code is the sequence of its timings; Chars is the length of its text,  *)
(* and Cut what the heap gives for the strings strtok cuts it into.         *)
(* Messages that are no JSON, or whose content is none, change nothing and  *)
(* are left out; emit_code_doc has room for every content of a packet.      *)
(*                                                                         *)
(* The heap is a number of free bytes; an allocation takes what it asks for *)
(* and a header, rounded up, and fails when that is more than is free.  The *)
(* ledger has three more parts: what the handlers hold and will free, the   *)
(* parts split_string handed out, and the parts nobody knows any more.      *)
(***************************************************************************)
EXTENDS Integers, Sequences, FiniteSetsExt

CONSTANTS
    Captures,     \* codes recvIR reported, as the intervals of the receiver
    Others,       \* other key values a console may send
    PacketSizes,  \* the sizes of its messages
    Tick,         \* kRawTick, the unit of the receiver
    Width,        \* 2^16, the values of an uint16_t
    Word,         \* 2^32, the values of an uint32_t
    EndCode,      \* IR_END_CODE
    SeriesMax,    \* IR_SERIES_MAX
    MaxPacket,    \* MQTT_MAX_PACKET_SIZE
    Envelope,     \* the least a message holds besides the code
    MaxHeap,      \* the free heap after a restart
    Chars(_),     \* the length of the text of a key value
    Cut(_, _),    \* what the heap gives for the first so many pieces of it
    Header, Grain, \* of an allocation
    Inside,       \* the longest String that needs no heap
    StringGrain,  \* the buffer of a longer one is a multiple of this
    ContentCopies, \* copies of the content on the way to handleEmit
    Names,        \* bytes of the other Strings of a message and its content
    ValueCopies,  \* copies of the key value on the way to split_string
    OnTime, OffTime, \* onTimePeriod, offTimePeriod
    Jitter        \* the most a pulse of the carrier takes longer than asked

ASSUME WidthAssumption ==
    /\ Tick \in Nat \ {0} /\ Width \in Nat \ {0} /\ Word \in Nat
    /\ EndCode \in 0 .. Width - 1
    /\ Width + OnTime < Word

ASSUME HeapAssumption ==
    /\ MaxHeap \in Nat /\ ContentCopies \in Nat /\ ValueCopies \in Nat /\ Names \in Nat
    /\ Header \in Nat /\ Grain \in Nat \ {0}
    /\ Inside \in Nat /\ StringGrain \in Nat \ {0}
    /\ PacketSizes \subseteq Nat

ASSUME CarrierAssumption ==
    OnTime \in Nat \ {0} /\ OffTime \in Nat /\ Jitter \in Nat

\* The buffer of PubSubClient is what bounds the parts of emitIR
ASSUME PacketAssumption ==
    /\ SeriesMax \in Nat /\ MaxPacket \in Nat /\ Envelope \in Nat
    /\ MaxPacket <= 2 * SeriesMax

VARIABLES
    pc,       \* where the main loop is, see Places
    value,    \* the key value of the message, or <<>>
    size,     \* the size of the message
    held,     \* bytes that handler and split_string will free
    parts,    \* parts split_string has handed out
    series,   \* the timings to send
    air,      \* the intervals that went out, as long as they were
    spent,    \* the true time since the running mark began
    elapsed,  \* the time IRtimer tells
    heap,     \* free bytes
    leaked,   \* bytes of the parts nobody knows any more
    blinks,   \* half-periods of the send LED that are over
    led,      \* is the send LED lit
    attached, \* does the receiver listen
    asked,    \* observation: the key value as it arrived
    room      \* observation: the free bytes at that time

request == <<value, size, asked, room>>
sending == <<series, air, spent, elapsed>>
memory == <<held, parts, heap, leaked>>
lamps == <<blinks, led>>
vars == <<pc, request, sending, memory, lamps, attached>>

Places == {"down", "idle", "content", "value", "copy", "split", "send", "blink"}

-----------------------------------------------------------------------------
(* Codes.                                                                   *)

Longest(c) == Max({c[i] : i \in 1 .. Len(c)})

\* recvIR: the intervals in microseconds, then three times the longest
Code(c) ==
    [i \in 1 .. Len(c) + 1 |->
        IF i <= Len(c) THEN c[i] * Tick ELSE 3 * (Longest(c) * Tick)]

KeyValues == {Code(c) : c \in Captures} \cup Others

\* A key value is a sequence of numbers; that of a capture is one because
\* some interval is the longest
ASSUME CodesAssumption == KeyValues \subseteq Seq(Nat)

\* Mutant: the end code replaces the last timing
Series_EndOverLast(v) ==
    [i \in 1 .. Len(v) + 1 |-> IF i < Len(v) THEN v[i] % Width ELSE EndCode]

\* emitIR: what is sent for a key value
Series(v) ==
    [i \in 1 .. Len(v) + 1 |-> IF i <= Len(v) THEN v[i] % Width ELSE EndCode]

-----------------------------------------------------------------------------
(* What they take of the heap.                                              *)

RoundUp(n, unit) == ((n + (unit - 1)) \div unit) * unit

\* malloc of n bytes
Block(n) == RoundUp(n + Header, Grain)

\* A String of n characters
StringTakes(n) == IF n <= Inside THEN 0 ELSE Block(RoundUp(n + 1, StringGrain))

\* A text of n numbers has commas between them, and nothing is cut off an
\* empty one; each piece takes at least a digit and its NUL
ASSUME TextAssumption ==
    /\ Chars(<<>>) = 0 /\ Cut(<<>>, 0) = 0
    /\ \A v \in KeyValues :
         /\ Chars(v) \in Nat /\ Chars(v) >= 2 * Len(v) - 1
         /\ Cut(v, 0) = 0
         /\ \A i \in 0 .. Len(v) :
              /\ Cut(v, i) \in Nat
              /\ \A j \in 0 .. i - 1 : Cut(v, j) + Block(2) <= Cut(v, i)

\* What a message of s bytes takes, and its content, which is no longer
PayloadTakes(s) == Block(s + 1)
ContentTakes(s) == ContentCopies * StringTakes(s)

\* What key value v takes, the copy strtok works on, and its next piece
ValueTakes(v) == ValueCopies * StringTakes(Chars(v))
CopyTakes(v) == Block(Chars(v) + 1)
NextTakes == Cut(value, parts + 1) - Cut(value, parts)

\* The fewest bytes a message with key value v has
LeastSize(v) == Envelope + Chars(v)

\* Mutant: a packet larger than the buffer is not ignored
Fits_Unchecked(s) == s \in Nat

\* readPacket: a packet larger than the buffer is ignored
Fits(s) == s <= MaxPacket

-----------------------------------------------------------------------------
(* The message and its copies.                                              *)

\* Everything the handler holds is freed, and the parts with it
GiveUp ==
    /\ pc' = "idle"
    /\ heap' = heap + held + Cut(value, parts)
    /\ held' = 0 /\ parts' = 0
    /\ value' = <<>> /\ size' = 0 /\ asked' = <<>> /\ room' = 0
    /\ UNCHANGED <<sending, leaked, lamps, attached>>

\* Mutant: whether malloc found the bytes is not looked at
Hold_Unchecked(n) ==
    /\ heap' = heap - n
    /\ held' = held + n
    /\ UNCHANGED <<parts, leaked>>

\* n more bytes are held
Hold(n) ==
    /\ n <= heap
    /\ heap' = heap - n
    /\ held' = held + n
    /\ UNCHANGED <<parts, leaked>>

\* handleIrisKitMessage: the payload is copied (or the message dropped)
Receive ==
    /\ pc = "idle"
    /\ \E v \in KeyValues, s \in PacketSizes :
         /\ s >= LeastSize(v) /\ Fits(s)
         /\ Hold(PayloadTakes(s))
         /\ value' = v /\ size' = s /\ asked' = v
    /\ room' = heap
    /\ pc' = "content"
    /\ UNCHANGED <<sending, lamps, attached>>

\* processEvent, handleEmit: the content, by value, and the names beside it.
\* A String that finds no heap is empty: some names may be
TakeContent ==
    /\ pc = "content"
    /\ \E n \in 0 .. Names :
         /\ n < Names => heap < ContentTakes(size) + Names
         /\ Hold(ContentTakes(size) + n)
    /\ pc' = "value"
    /\ UNCHANGED <<request, sending, lamps, attached>>

\* an empty content is no JSON, an empty event name that of no event
ContentLost ==
    /\ pc = "content" /\ heap < ContentTakes(size) + Names
    /\ GiveUp

\* handleEmit, emitIR: the key value, by value
TakeValue ==
    /\ pc = "value"
    /\ Hold(ValueTakes(value))
    /\ pc' = "copy"
    /\ UNCHANGED <<request, sending, lamps, attached>>

\* after n copies there is no heap for the next: it is empty, like all others
ValueLost ==
    /\ pc = "value"
    /\ \E n \in 0 .. ValueCopies - 1 : Hold(n * StringTakes(Chars(value)))
    /\ heap' < StringTakes(Chars(value))
    /\ value' = <<>>
    /\ pc' = "copy"
    /\ UNCHANGED <<size, asked, room, sending, lamps, attached>>

\* split_string: the copy strtok cuts into pieces
TakeCopy ==
    /\ pc = "copy"
    /\ Hold(CopyTakes(value))
    /\ pc' = "split"
    /\ UNCHANGED <<request, sending, lamps, attached>>

CopyLost ==
    /\ pc = "copy" /\ heap < CopyTakes(value)
    /\ GiveUp

\* split_string: strdup of the next piece
SplitPart ==
    /\ pc = "split" /\ parts < Len(value) /\ NextTakes <= heap
    /\ parts' = parts + 1
    /\ heap' = heap - NextTakes
    /\ UNCHANGED <<pc, request, sending, held, leaked, lamps, attached>>

\* Mutant: the parts are not freed
SplitFails_PartsKept ==
    /\ pc = "split" /\ parts < Len(value) /\ heap < NextTakes
    /\ pc' = "idle"
    /\ heap' = heap + held
    /\ held' = 0 /\ parts' = 0
    /\ value' = <<>> /\ size' = 0 /\ asked' = <<>> /\ room' = 0
    /\ UNCHANGED <<sending, leaked, lamps, attached>>

\* Mutant: the end of the string is taken for a failure
SplitFails_AtEnd ==
    /\ pc = "split" /\ value # <<>>
    /\ parts = Len(value) \/ heap < NextTakes
    /\ GiveUp

\* exit: the copy and the parts are freed, nothing is sent
SplitFails ==
    /\ pc = "split" /\ parts < Len(value) /\ heap < NextTakes
    /\ GiveUp

-----------------------------------------------------------------------------
(* Sending.                                                                 *)

\* split_string frees its copy and returns; emitIR fills the series
EmitIR ==
    /\ pc = "split" /\ value # <<>> /\ parts = Len(value)
    /\ heap' = heap + CopyTakes(value) /\ held' = held - CopyTakes(value)
    /\ series' = Series(value)
    /\ air' = <<>>
    /\ attached' = FALSE
    /\ led' = TRUE
    /\ pc' = "send"
    /\ UNCHANGED <<request, spent, elapsed, parts, leaked, blinks>>

Least(a, b) == IF a <= b THEN a ELSE b

\* a - b of two uint32_t
Minus(a, b) == IF b <= a THEN a - b ELSE a - b + Word

\* sendRaw: the next interval, and whether it is a mark or a space
Place == Len(air) + 1
Usec == series[Place]
Marking == pc = "send" /\ Place <= Len(series) /\ Place % 2 = 1
Spacing == pc = "send" /\ Place <= Len(series) /\ Place % 2 = 0

\* An interval of this length is over
Sent(length) ==
    /\ air' = Append(air, length)
    /\ spent' = 0 /\ elapsed' = 0
    /\ UNCHANGED <<pc, request, series, memory, lamps, attached>>

\* Mutant: the timer is read again before the pause
MarkPulse_Recached ==
    /\ Marking
    /\ elapsed < Usec /\ elapsed + OnTime < Usec
    /\ LET lit == Least(OnTime, Minus(Usec, elapsed))
       IN  \E late \in 0 .. Jitter :
             spent' = spent + lit + late
                        + Least(Minus(Minus(Usec, elapsed + lit + late), OnTime), OffTime)
    /\ elapsed' \in {elapsed + (spent' - spent), spent' - 1}
    /\ UNCHANGED <<pc, request, series, air, memory, lamps, attached>>

\* mark: one pulse of the carrier and its pause.  IRtimer tells one less
\* than the time that went by from the moment on micros() has wrapped.
MarkPulse ==
    /\ Marking
    /\ elapsed < Usec /\ elapsed + OnTime < Usec
    /\ \E late \in 0 .. Jitter :
         spent' = spent + Least(OnTime, Minus(Usec, elapsed))
                        + Least(Minus(Minus(Usec, elapsed), OnTime), OffTime) + late
    /\ elapsed' \in {elapsed + (spent' - spent), spent' - 1}
    /\ UNCHANGED <<pc, request, series, air, memory, lamps, attached>>

\* mark: the last pulse, which may be cut short
MarkLast ==
    /\ Marking
    /\ elapsed < Usec /\ elapsed + OnTime >= Usec
    /\ \E late \in 0 .. Jitter :
         Sent(spent + Least(OnTime, Minus(Usec, elapsed)) + late)

\* mark: the pause before was the end
MarkOver ==
    /\ Marking
    /\ elapsed >= Usec
    /\ Sent(spent)

\* space
Space ==
    /\ Spacing
    /\ \E late \in 0 .. Jitter : Sent(Usec + late)

\* emitIR: the LED goes out and blinks
SendEnds ==
    /\ pc = "send" /\ Len(air) = Len(series)
    /\ series' = <<>> /\ air' = <<>>
    /\ led' = FALSE /\ blinks' = 0
    /\ pc' = "blink"
    /\ UNCHANGED <<request, spent, elapsed, memory, attached>>

\* Mutant: the half-periods are not counted
Blink_Uncounted ==
    /\ pc = "blink" /\ blinks < 4
    /\ led' = ~led
    /\ UNCHANGED <<pc, request, sending, memory, blinks, attached>>

\* blinkSendLED(2, 50)
Blink ==
    /\ pc = "blink" /\ blinks < 4
    /\ led' = ~led
    /\ blinks' = blinks + 1
    /\ UNCHANGED <<pc, request, sending, memory, attached>>

\* emitIR returns, and with it the handlers; nobody frees the parts
Return ==
    /\ pc = "blink" /\ blinks = 4
    /\ pc' = "idle"
    /\ heap' = heap + held /\ held' = 0
    /\ leaked' = leaked + Cut(value, parts) /\ parts' = 0
    /\ value' = <<>> /\ size' = 0 /\ asked' = <<>> /\ room' = 0
    /\ blinks' = 0
    /\ UNCHANGED <<sending, led, attached>>

-----------------------------------------------------------------------------
(* Restarts, and the study of a code.                                       *)

GoDown ==
    /\ pc' = "down"
    /\ value' = <<>> /\ size' = 0 /\ asked' = <<>> /\ room' = 0
    /\ series' = <<>> /\ air' = <<>> /\ spent' = 0 /\ elapsed' = 0
    /\ held' = 0 /\ parts' = 0 /\ heap' = MaxHeap /\ leaked' = 0
    /\ blinks' = 0 /\ led' = FALSE
    /\ attached' = FALSE

\* split_string: strtok finds no piece, and strdup reads address 0
SplitCrashes ==
    /\ pc = "split" /\ value = <<>>
    /\ GoDown

PowerFails ==
    /\ pc # "down"
    /\ GoDown

\* setup(): loadIRPin, initLEDs
Boot ==
    /\ pc = "down"
    /\ pc' = "idle"
    /\ UNCHANGED <<request, sending, memory, lamps, attached>>

\* prepareStudyIR, cancelStudyIR and completeStudyIR, from the main loop
StudyTurns ==
    /\ pc = "idle"
    /\ attached' = ~attached
    /\ UNCHANGED <<pc, request, sending, memory, lamps>>

Init ==
    /\ pc = "idle"
    /\ value = <<>> /\ size = 0 /\ asked = <<>> /\ room = 0
    /\ series = <<>> /\ air = <<>> /\ spent = 0 /\ elapsed = 0
    /\ held = 0 /\ parts = 0 /\ heap = MaxHeap /\ leaked = 0
    /\ blinks = 0 /\ led = FALSE
    /\ attached = FALSE

Emit == \/ TakeContent \/ ContentLost \/ TakeValue \/ ValueLost
        \/ TakeCopy \/ CopyLost \/ SplitPart \/ SplitFails \/ SplitCrashes
        \/ EmitIR \/ MarkPulse \/ MarkLast \/ MarkOver \/ Space
        \/ SendEnds \/ Blink \/ Return \/ Boot

Next == Receive \/ Emit \/ PowerFails \/ StudyTurns

Spec == Init /\ [][Next]_vars

\* The main loop goes on
FairSpec == Spec /\ WF_vars(Emit)

-----------------------------------------------------------------------------
(* Properties.                                                              *)

Range16 == 0 .. Width - 1

\* The flags, the codes and the numbers by themselves
FlagsOK == pc \in Places /\ led \in BOOLEAN /\ attached \in BOOLEAN

CodesOK ==
    /\ value \in Seq(Nat) /\ asked \in KeyValues \cup {<<>>}
    /\ series \in Seq(Range16) /\ air \in Seq(Nat)

CountsOK ==
    /\ size \in Nat /\ room \in Nat
    /\ spent \in Nat /\ elapsed \in Nat
    /\ held \in Nat /\ parts \in Nat /\ heap \in Nat /\ leaked \in Nat
    /\ blinks \in 0 .. 4

\* Every variable has its type; the heap is never overdrawn.
TypeOK == FlagsOK /\ CodesOK /\ CountsOK

\* split_string, which does not know the size of its caller's array, and
\* emitIR, which adds an end code, stay inside parts and series: the buffer
\* of PubSubClient, in another library, is too small for a longer code.
PartsFit == parts <= SeriesMax /\ Len(series) <= SeriesMax + 1

\* No path through the handlers loses heap but the one that plays a code,
\* which loses the parts of that code: between messages all else is free.
HeapAccounted ==
    /\ heap + held + Cut(value, parts) + leaked = MaxHeap
    /\ pc \in {"down", "idle"} => held = 0 /\ parts = 0

\* The kit does not hear its own emission: the receiver is off from before
\* the first mark until after the last blink of the LED.
SendsDeaf == pc \in {"send", "blink"} => ~attached

\* A captured code goes out as it came in, interval by interval and with its
\* closing gap, except for a gap that 16 bits cannot hold.
Replays ==
    \A c \in Captures, i \in 1 .. Len(air) :
        /\ asked = Code(c)
        /\ i <= Len(Code(c)) /\ Code(c)[i] < Width
        => air[i] \in Code(c)[i] .. Code(c)[i] + Jitter + 1

\* What a message of s bytes with key value v, its copies and its pieces take
Need(v, s) ==
    PayloadTakes(s) + (ContentTakes(s) + Names) + ValueTakes(v) + CopyTakes(v) + Cut(v, Len(v))

\* A handler is left, or crashes, without having played its code
Unplayed ==
    \/ pc \in {"content", "value", "copy", "split", "send"} /\ pc' = "idle"
    \/ pc = "split" /\ value = <<>> /\ pc' = "down"

\* A code is lost, and the kit restarts over one, only if the heap was too
\* small for it when it arrived, or if it was empty.
KeyIsPlayed ==
    [][Unplayed => asked = <<>> \/ room < Need(asked, size)]_vars

\* Whatever a console asks for is played whole and in order, every interval
\* in time although the carrier is made by software, or not at all.
Kit == INSTANCE Playback WITH
    Signals <- {Series(v) : v \in KeyValues \ {<<>>}},
    Late <- Jitter + 1,
    up <- pc # "down",
    playing <- series,
    out <- air
PlaybackKept == Kit!Spec

\* Every message is done with in the end: marks end, whatever the timings.
EmissionEnds == pc # "idle" ~> pc = "idle"

\* Where the numbers of the handlers are defined
Handling ==
    /\ pc \in {"down", "idle"} => asked = <<>> /\ value = <<>> /\ size = 0 /\ room = 0
    /\ pc \in {"content", "value", "copy", "split", "send", "blink"} =>
           value \in {asked, <<>>} /\ asked \in KeyValues
           /\ size >= LeastSize(asked) /\ size <= MaxPacket
    /\ pc \in {"content", "value", "send", "blink"} => value = asked
    /\ parts <= Len(value)
    /\ pc \in {"content", "value", "copy"} => parts = 0
    /\ pc \in {"send", "blink"} => value # <<>>
    /\ series = IF pc = "send" THEN Series(value) ELSE <<>>

\* What is held, and that the copies fit if they did when the message came
Holding ==
    LET content == room - PayloadTakes(size)
        copies == content - (ContentTakes(size) + Names)
    IN  /\ pc = "content" => held = PayloadTakes(size) /\ heap = content
        /\ pc = "value" => heap >= copies
        /\ pc = "copy" =>
             \/ value = asked /\ heap >= copies - ValueTakes(value)
             \/ value = <<>> /\ room < Need(asked, size)
        /\ pc = "split" =>
             /\ held >= CopyTakes(value)
             /\ \/ value = <<>> /\ (asked = <<>> \/ room < Need(asked, size))
                \/ /\ value = asked
                   /\ heap >= copies - ValueTakes(value) - CopyTakes(value) - Cut(value, parts)

\* The mark that is being sent has not lasted too long
MarkInTime ==
    /\ elapsed <= spent /\ spent <= elapsed + 1
    /\ spent > 0 => Marking /\ elapsed <= Usec + Jitter
    /\ Len(air) <= Len(series)
    /\ \A i \in 1 .. Len(air) : air[i] \in series[i] .. series[i] + Jitter + 1

\* The inductive invariant.
EmissionInv == HeapAccounted /\ PartsFit /\ SendsDeaf /\ Handling /\ Holding /\ MarkInTime

\* The most steps one interval takes, and how many steps are left of a message
MaxPulses == Width + Jitter + 2

Sendings == (Len(asked) + 1) * MaxPulses + 6

StepsLeft ==
    IF pc = "idle" THEN 0
    ELSE IF pc = "down" THEN 1
    ELSE IF pc = "blink" THEN 5 - blinks
    ELSE IF pc = "send" THEN (Len(series) - Len(air)) * MaxPulses - spent + 6
    ELSE IF pc = "split" THEN Sendings + (Len(asked) - parts) + 1
    ELSE IF pc = "copy" THEN Sendings + Len(asked) + 2
    ELSE IF pc = "value" THEN Sendings + Len(asked) + 3
    ELSE Sendings + Len(asked) + 4

MaxSteps == (SeriesMax + 1) * MaxPulses + SeriesMax + 10

\* A message cannot occupy the main loop for ever, however its pulses and pauses
\* fall: each step takes the handler closer to its end, and nothing but a
\* new message sets it back.
EmitAdvances ==
    [][ /\ Emit => StepsLeft' < StepsLeft
        /\ PowerFails => StepsLeft' = 1
        /\ StudyTurns => StepsLeft' = StepsLeft ]_vars

=============================================================================
