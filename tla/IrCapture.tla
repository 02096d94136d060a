------------------------------ MODULE IrCapture ------------------------------
(***************************************************************************)
(* The IR receiver at the level of its interrupts: gpio_intr and            *)
(* read_timeout of IRrecv against the main code that rearms, decodes and    *)
(* detaches it (IRrecv::resume, decode, enableIRIn, disableIRIn, called by  *)
(* recvIR, prepareStudyIR and disableIRIn of ir_drv_ctrl.cpp).              *)
(*                                                                         *)
(* gpio_intr is one atomic step and may fall between any two writes of the  *)
(* main code.  read_timeout is a callback of the SDK's timer task, which    *)
(* runs only while the main code yields: in "rest" and "blink".  Two        *)
(* transmissions are assumed to be further apart than the timeout and the   *)
(* longest stretch of the main code that does not yield.                    *)
(*                                                                         *)
(* An edge of the demodulated signal is <<transmission, number>>; an entry  *)
(* of rawbuf is the pair of edges whose distance it holds, so the model     *)
(* tells which interval of which transmission sits where.  How long it was   *)
(* is not told: the code stores (now - start) / kRawTick in 16 bits, less    *)
(* one tick of micros() when that has wrapped, so an interval above 131 ms,  *)
(* which only a frame merged from two transmissions can hold, loses its      *)
(* upper bits.                                                              *)
(***************************************************************************)
EXTENDS Integers, Sequences

CONSTANTS
    BufSize,    \* k_capture_buffer_size
    Threshold,  \* unknown_threshold: fewer entries are noise
    MaxTx,      \* bound: transmissions
    MaxEdges    \* bound: edges of one transmission

ASSUME BoundsAssumption ==
    /\ BufSize \in Nat \ {0}
    /\ Threshold \in 1 .. BufSize
    /\ MaxTx \in Nat
    /\ MaxEdges \in Nat \ {0}

VARIABLES
    rcvstate, rawlen, overflow, rawbuf,  \* irparams
    start,     \* gpio_intr: the edge before
    armed,     \* is the timeout timer armed
    attached,  \* is gpio_intr attached
    save,      \* the copy decode works on
    pc, ret,   \* where the main code is, and where resume() returns to
    studying,  \* does loop() call recvIR
    tx, edge,  \* environment: the transmission, and its edges so far
    live,      \* environment: is the transmission still going on
    since      \* history: the last edge before the study was opened

params == <<rcvstate, rawlen, overflow, rawbuf>>
main == <<save, pc, ret, studying>>
signal == <<tx, edge, live, since>>
vars == <<params, start, armed, attached, main, signal>>

-----------------------------------------------------------------------------
NoEdge == <<0, 0>>

\* The interval from edge a to edge b: which, not how long
Entry(a, b) == <<a, b>>

Junk == <<NoEdge, NoEdge>>   \* never written, or cleared

\* The marker gpio_intr writes for the first edge of a frame
Marker(e) == Entry(NoEdge, e)

\* Index BufSize is the first cell past the buffer.
Cells == 0 .. BufSize

EmptySave == [rawlen |-> 0, rawbuf |-> [i \in Cells |-> Junk], overflow |-> FALSE]

-----------------------------------------------------------------------------
(* The interrupts.                                                          *)

\* The buffer is full: the frame ends here.
Overflow ==
    /\ overflow' = TRUE
    /\ rcvstate' = "STOP"
    /\ armed' = FALSE
    /\ UNCHANGED <<rawlen, rawbuf, start>>

\* The edge's entry is written and the timer armed again.
Record(e) ==
    /\ rcvstate' = IF rcvstate = "IDLE" THEN "MARK" ELSE rcvstate
    /\ rawbuf' = [rawbuf EXCEPT ![rawlen] =
                     IF rcvstate = "IDLE" THEN Marker(e) ELSE Entry(start, e)]
    /\ rawlen' = rawlen + 1
    /\ start' = e
    /\ armed' = TRUE
    /\ UNCHANGED overflow

Ignore == armed' = FALSE /\ UNCHANGED <<params, start>>

\* Mutant: a frame in kStopState is not protected
GpioIntr_NoStop(e) == IF rawlen >= BufSize THEN Overflow ELSE Record(e)

\* Mutant: one entry too many
GpioIntr_OffByOne(e) ==
    IF rawlen > BufSize THEN Overflow
    ELSE IF rcvstate = "STOP" THEN Ignore ELSE Record(e)

\* gpio_intr, on edge e
GpioIntr(e) ==
    IF rawlen >= BufSize THEN Overflow
    ELSE IF rcvstate = "STOP" THEN Ignore ELSE Record(e)

\* The line has been silent for 50 ms: read_timeout, if the last edge armed it
ReadTimeout ==
    /\ live /\ pc \in {"rest", "blink"}
    /\ live' = FALSE
    /\ armed' = FALSE
    /\ rcvstate' = IF armed /\ rawlen # 0 THEN "STOP" ELSE rcvstate
    /\ UNCHANGED <<rawlen, overflow, rawbuf, start, attached, main, tx, edge, since>>

\* One edge of the signal; it interrupts when the handler is attached.
Seen(e) ==
    IF attached THEN GpioIntr(e) ELSE UNCHANGED <<params, start, armed>>

\* A transmission begins on a silent line.
FirstEdge ==
    /\ ~live /\ tx < MaxTx
    /\ tx' = tx + 1 /\ edge' = 1 /\ live' = TRUE
    /\ Seen(<<tx', 1>>)
    /\ UNCHANGED <<attached, main, since>>

NextEdge ==
    /\ live /\ edge < MaxEdges
    /\ edge' = edge + 1
    /\ Seen(<<tx, edge'>>)
    /\ UNCHANGED <<tx, live, attached, main, since>>

-----------------------------------------------------------------------------
(* The main code.                                                           *)

Goto(l) == pc' = l /\ UNCHANGED <<save, ret, studying>>

\* resume() is three writes
Resume(r) == pc' = "resume_state" /\ ret' = r /\ UNCHANGED <<save, studying>>

\* Mutant: rawlen is not reset
ResumeLength_Kept ==
    /\ pc = "resume_length"
    /\ Goto("resume_overflow")
    /\ UNCHANGED <<rawlen, rcvstate, overflow, rawbuf, start, armed, attached, signal>>

\* Mutant: resume() leaves kStopState
ResumeState_Kept ==
    /\ pc = "resume_state"
    /\ Goto("resume_length")
    /\ UNCHANGED <<rcvstate, rawlen, overflow, rawbuf, start, armed, attached, signal>>

ResumeState ==
    /\ pc = "resume_state"
    /\ rcvstate' = "IDLE"
    /\ Goto("resume_length")
    /\ UNCHANGED <<rawlen, overflow, rawbuf, start, armed, attached, signal>>

ResumeLength ==
    /\ pc = "resume_length"
    /\ rawlen' = 0
    /\ Goto("resume_overflow")
    /\ UNCHANGED <<rcvstate, overflow, rawbuf, start, armed, attached, signal>>

ResumeOverflow ==
    /\ pc = "resume_overflow"
    /\ overflow' = FALSE
    /\ Goto(ret)
    /\ UNCHANGED <<rcvstate, rawlen, rawbuf, start, armed, attached, signal>>

\* Mutant: enableIRIn without resume()
Enable_NoResume ==
    /\ pc = "rest"
    /\ pc' = "attach" /\ ret' = "attach" /\ studying' = TRUE
    /\ since' = <<tx, edge>>
    /\ UNCHANGED <<save, params, start, armed, attached, tx, edge, live>>

\* prepareStudyIR (a study opens, perhaps in place of another): enableIRIn
Enable ==
    /\ pc = "rest"
    /\ pc' = "resume_state" /\ ret' = "attach" /\ studying' = TRUE
    /\ since' = <<tx, edge>>
    /\ UNCHANGED <<save, params, start, armed, attached, tx, edge, live>>

\* enableIRIn, the rest: the timer is set up, then the interrupt attached.
\* An edge between the two is seen only if the handler was still attached.
AttachTimer ==
    /\ pc = "attach"
    /\ armed' = FALSE
    /\ Goto("attach_intr")
    /\ UNCHANGED <<params, start, attached, signal>>

Attach ==
    /\ pc = "attach_intr"
    /\ attached' = TRUE
    /\ Goto("rest")
    /\ UNCHANGED <<params, start, armed, signal>>

\* disableIRIn, by a cancel or by the ticker (a study stays open then), and
\* at the end of recvIR: the timer is disarmed, then the interrupt detached
Disable ==
    /\ pc \in {"rest", "blink"}
    /\ armed' = FALSE
    /\ pc' = "detach"
    /\ studying' \in IF pc = "blink" THEN {FALSE} ELSE {FALSE, studying}
    /\ UNCHANGED <<save, ret, params, start, attached, signal>>

Detach ==
    /\ pc = "detach"
    /\ attached' = FALSE
    /\ Goto("rest")
    /\ UNCHANGED <<params, start, armed, signal>>

\* recvIR calls decode, which goes on only in kStopState and clears the entry
\* after the last one
DecodeClear ==
    /\ pc = "rest" /\ studying
    /\ rcvstate = "STOP"
    /\ rawbuf' = [rawbuf EXCEPT ![rawlen] = Junk]
    /\ Goto("copy_params")
    /\ UNCHANGED <<rcvstate, rawlen, overflow, start, armed, attached, signal>>

\* copyIrParams: the structure, then the buffer
CopyParams ==
    /\ pc = "copy_params"
    /\ pc' = "copy_buffer"
    /\ save' = [save EXCEPT !.rawlen = rawlen, !.overflow = overflow]
    /\ UNCHANGED <<ret, studying, params, start, armed, attached, signal>>

CopyBuffer ==
    /\ pc = "copy_buffer"
    /\ pc' = "resume_state" /\ ret' = "decoded"
    /\ save' = [save EXCEPT !.rawbuf =
                   [i \in Cells |-> IF i < BufSize THEN rawbuf[i] ELSE Junk]]
    /\ UNCHANGED <<studying, params, start, armed, attached, signal>>

\* A decoder accepts the copy, decodeHash if no other; recvIR builds its string
\* and rearms once more
DecodeAccepted ==
    /\ pc = "decoded"
    /\ save.rawlen # 0
    /\ Resume("blink")
    /\ UNCHANGED <<params, start, armed, attached, signal>>

\* All of them refuse it: noise, too short even for decodeHash
DecodeRefused ==
    /\ pc = "decoded"
    /\ save.rawlen < Threshold
    /\ Goto("rest")
    /\ UNCHANGED <<params, start, armed, attached, signal>>

-----------------------------------------------------------------------------
Init ==
    /\ rcvstate = "IDLE" /\ rawlen = 0 /\ overflow = FALSE
    /\ rawbuf = [i \in Cells |-> Junk]
    /\ start = NoEdge /\ armed = FALSE /\ attached = FALSE
    /\ save = EmptySave
    /\ pc = "rest" /\ ret = "rest" /\ studying = FALSE
    /\ tx = 0 /\ edge = 0 /\ live = FALSE /\ since = NoEdge

Interrupt == ReadTimeout \/ FirstEdge \/ NextEdge

MainCode ==
    \/ ResumeState \/ ResumeLength \/ ResumeOverflow \/ Enable \/ AttachTimer \/ Attach
    \/ Disable \/ Detach \/ DecodeClear \/ CopyParams \/ CopyBuffer
    \/ DecodeAccepted \/ DecodeRefused

Next == Interrupt \/ MainCode

Spec == Init /\ [][Next]_vars

\* The main code goes on, and every pass of loop() calls recvIR, whatever the
\* messages and tickers between two passes do; the timer fires.
FairSpec ==
    /\ Spec
    /\ WF_vars(MainCode /\ pc # "rest")
    /\ SF_vars(DecodeClear)
    /\ WF_vars(ReadTimeout)

-----------------------------------------------------------------------------
(* Properties.                                                              *)

Edges == (0 .. MaxTx) \X (0 .. MaxEdges)

Buffers == [Cells -> Edges \X Edges]

\* The types of the variables: the interrupt never counts past its buffer.
TypeOK ==
    /\ rcvstate \in {"IDLE", "MARK", "STOP"}
    /\ rawlen \in 0 .. BufSize
    /\ {overflow, armed, attached, studying, live} \subseteq BOOLEAN
    /\ rawbuf \in Buffers
    /\ start \in Edges
    /\ save \in [rawlen : 0 .. BufSize, rawbuf : Buffers, overflow : BOOLEAN]
    /\ pc \in {"rest", "blink", "resume_state", "resume_length", "resume_overflow",
               "attach", "attach_intr", "detach", "copy_params", "copy_buffer", "decoded"}
    /\ ret \in {"rest", "attach", "decoded", "blink"}
    /\ tx \in 0 .. MaxTx /\ edge \in 0 .. MaxEdges /\ since \in Edges

Copied == <<rcvstate, rawlen, rawbuf>>

\* copyIrParams "Only call this when you know the interrupt handlers won't
\* modify anything": an edge or a timeout during the copy changes neither the
\* state, nor the length, nor an entry.
CopyStable ==
    [][(pc \in {"copy_params", "copy_buffer"}) => (UNCHANGED Copied)]_vars

\* What recvIR may turn into a code.
Accepted == pc = "decoded" /\ save.rawlen # 0

\* Edge e is the one after p, in its transmission or at the start of the next.
Follows(p, e) == e = <<p[1], p[2] + 1>> \/ e = <<p[1] + 1, 1>>

\* The first n entries of buf are consecutive intervals.
Chain(buf, n) ==
    \A i \in 1 .. n - 1 :
        /\ buf[i][1] = buf[i - 1][2]
        /\ Follows(buf[i - 1][2], buf[i][2])

\* A code is a run of consecutive intervals: no edge is lost in the middle, none
\* is counted twice and none is left over from an older capture, whatever the
\* interrupt does while the receiver is rearmed, detached or copied.
CodeIsContiguous == Accepted => Chain(save.rawbuf, save.rawlen)

\* The buffer the interrupt fills: outside the write of rawlen by resume(), it
\* is a run of consecutive intervals that ends with the last edge seen.
BufferInv ==
    /\ rcvstate = "MARK" /\ attached => start = <<tx, edge>>
    /\ pc # "resume_length" =>
           /\ rcvstate = "IDLE" => rawlen = 0
           /\ Chain(rawbuf, rawlen)
           /\ rawlen # 0 => rawbuf[rawlen - 1][2] = start

\* The main code: the interrupt cannot have left kIdleState while it is not
\* attached, nor kStopState while the buffer is copied.
RearmInv ==
    /\ pc \in {"resume_length", "resume_overflow", "attach", "attach_intr"} =>
           attached \/ rcvstate = "IDLE"
    /\ pc \in {"copy_params", "copy_buffer"} => rcvstate = "STOP"

\* The copy, from the moment it is made until a decoder has looked at it.
CopyInv ==
    /\ pc = "copy_buffer" => save.rawlen = rawlen
    /\ pc \in {"resume_state", "resume_length", "resume_overflow"} /\ ret = "decoded" =>
           Chain(save.rawbuf, save.rawlen)
    /\ pc = "decoded" => Chain(save.rawbuf, save.rawlen)

\* Interrupt, main code and copy agree, at every point an edge may interrupt:
\* what makes a code contiguous is that nothing is appended to a buffer that
\* resume() has not emptied, or whose last edge is not the one before.
CaptureInv == BufferInv /\ RearmInv /\ CopyInv

\* decode clears an entry of the buffer, the one after the last.
ClearsInBuffer == [][DecodeClear => rawlen < BufSize]_vars

\* A frame in the receiver is always taken out of it while a study polls it.
FrameIsTaken == rcvstate = "STOP" /\ studying ~> rcvstate # "STOP" \/ ~studying

-----------------------------------------------------------------------------
(* The receiver that StudyControl builds on.                                *)

After(e, f) == e[1] > f[1] \/ (e[1] = f[1] /\ e[2] > f[2])

\* The first n entries of buf lie between edges seen since the study was opened.
Fresh(buf, n) ==
    \A i \in 0 .. n - 1 :
        /\ After(buf[i][2], since)
        /\ buf[i][1] = NoEdge \/ After(buf[i][1], since)

\* prepareStudyIR is on its way: before its first write, and altogether
Stale == pc = "resume_state" /\ ret = "attach"

Opening ==
    \/ pc \in {"resume_state", "resume_length", "resume_overflow"} /\ ret = "attach"
    \/ pc \in {"attach", "attach_intr"}

Mode ==
    IF attached \/ Opening THEN "on" ELSE IF armed THEN "tail" ELSE "off"

\* resume() is about to empty a buffer that overflowed before its second write.
Frame ==
    IF rcvstate # "STOP" \/ Stale THEN "none"
    ELSE IF pc = "resume_length" \/ Fresh(rawbuf, rawlen) THEN "fresh" ELSE "stale"

\* The buffer, and the edge the next entry starts from, are of this study as soon
\* as resume() has emptied the buffer; a complete frame has no timer.
FreshInv ==
    /\ since = <<tx, edge>> \/ After(<<tx, edge>>, since)
    /\ ~(ret = "attach" /\ pc \in {"resume_state", "resume_length"}) =>
           Fresh(rawbuf, rawlen)
    /\ rcvstate = "MARK" /\ ~Stale => After(start, since)
    /\ rcvstate = "STOP" => ~armed

\* The receiver is one: opened by its five writes as if at once, whatever edges
\* fall between them; a frame holds no edge from before the study; and after
\* disableIRIn, whose two writes let one edge in, at most one more completes.
AsReceiver == INSTANCE Receiver WITH mode <- Mode, frame <- Frame

ReceiverKept == AsReceiver!Spec
=============================================================================
