--------------------------- MODULE IrCaptureProofs ---------------------------
(***************************************************************************)
(* Theorems about IrCapture, for every buffer size and every number of      *)
(* transmissions and edges.                                                 *)
(***************************************************************************)
EXTENDS IrCapture, TLAPS

-----------------------------------------------------------------------------
(* Types.                                                                   *)

LEMMA TypeInit == Init => TypeOK
<1> SUFFICES ASSUME Init PROVE TypeOK
  OBVIOUS
<1>1. NoEdge \in Edges /\ 0 \in 0 .. BufSize /\ 0 \in 0 .. MaxTx /\ 0 \in 0 .. MaxEdges
  BY BoundsAssumption DEF NoEdge, Edges
<1>2. [i \in Cells |-> Junk] \in Buffers
  BY <1>1 DEF Buffers, Junk
<1>3. EmptySave \in [rawlen : 0 .. BufSize, rawbuf : Buffers, overflow : BOOLEAN]
  BY <1>1, <1>2 DEF EmptySave
<1> QED
  BY <1>1, <1>2, <1>3 DEF Init, TypeOK

\* What the interrupt does to an edge of the signal keeps the types.
LEMMA SeenType ==
    ASSUME TypeOK, NEW e \in Edges, Seen(e)
    PROVE  /\ rcvstate' \in {"IDLE", "MARK", "STOP"}
           /\ rawlen' \in 0 .. BufSize
           /\ overflow' \in BOOLEAN /\ armed' \in BOOLEAN
           /\ rawbuf' \in Buffers
           /\ start' \in Edges
<1>1. CASE Record(e) /\ rawlen < BufSize
  <2>1. rawlen + 1 \in 0 .. BufSize
    BY <1>1, BoundsAssumption DEF TypeOK
  <2>2. NoEdge \in Edges
    BY BoundsAssumption DEF Edges, NoEdge
  <2>3. Marker(e) \in Edges \X Edges /\ Entry(start, e) \in Edges \X Edges
    BY <2>2 DEF Marker, Entry, TypeOK
  <2>4. rawbuf' \in Buffers
    BY <1>1, <2>3 DEF Record, TypeOK, Buffers
  <2> QED
    BY <1>1, <2>1, <2>4 DEF Record, TypeOK
<1>2. CASE Overflow \/ Ignore \/ UNCHANGED <<params, start, armed>>
  BY <1>2 DEF Overflow, Ignore, params, TypeOK
<1>3. rawlen < BufSize \/ rawlen >= BufSize
  BY BoundsAssumption DEF TypeOK
<1> QED
  BY <1>1, <1>2, <1>3, BoundsAssumption DEF Seen, GpioIntr, TypeOK

LEMMA TypeStep == TypeOK /\ [Next]_vars => TypeOK'
<1> SUFFICES ASSUME TypeOK, [Next]_vars PROVE TypeOK'
  OBVIOUS
<1>1. CASE FirstEdge
  <2>1. tx' \in 0 .. MaxTx /\ edge' \in 0 .. MaxEdges /\ live' \in BOOLEAN
    BY <1>1, BoundsAssumption DEF FirstEdge, TypeOK
  <2>2. <<tx', 1>> \in Edges
    BY <2>1, BoundsAssumption DEF Edges
  <2>3. Seen(<<tx', 1>>)
    BY <1>1 DEF FirstEdge
  <2> QED
    BY <1>1, <2>1, <2>2, <2>3, SeenType DEF FirstEdge, TypeOK, main
<1>2. CASE NextEdge
  <2>1. tx' \in 0 .. MaxTx /\ edge' \in 0 .. MaxEdges /\ live' \in BOOLEAN
    BY <1>2, BoundsAssumption DEF NextEdge, TypeOK
  <2>2. <<tx, edge'>> \in Edges
    BY <1>2, <2>1 DEF Edges, TypeOK
  <2>3. Seen(<<tx, edge'>>)
    BY <1>2 DEF NextEdge
  <2> QED
    BY <1>2, <2>1, <2>2, <2>3, SeenType DEF NextEdge, TypeOK, main
<1>3. CASE ReadTimeout
  BY <1>3 DEF ReadTimeout, TypeOK, main
<1>4. CASE ResumeState \/ ResumeOverflow
  BY <1>4 DEF ResumeState, ResumeOverflow, Goto, TypeOK, signal
<1>5. CASE ResumeLength
  BY <1>5, BoundsAssumption DEF ResumeLength, Goto, TypeOK, signal
<1>6. CASE Enable
  <2>1. <<tx, edge>> \in Edges
    BY DEF TypeOK, Edges
  <2> QED
    BY <1>6, <2>1 DEF Enable, TypeOK, params
<1>12. CASE AttachTimer \/ Attach \/ Disable \/ Detach
  BY <1>12 DEF AttachTimer, Attach, Disable, Detach, Goto, TypeOK, signal, params
<1>7. CASE DecodeClear
  <2>1. Junk \in Edges \X Edges
    BY BoundsAssumption DEF Junk, NoEdge, Edges
  <2>2. rawbuf' \in Buffers
    BY <1>7, <2>1 DEF DecodeClear, TypeOK, Buffers
  <2> QED
    BY <1>7, <2>2 DEF DecodeClear, Goto, TypeOK, signal
<1>8. CASE CopyParams
  BY <1>8 DEF CopyParams, TypeOK, signal, params
<1>9. CASE CopyBuffer
  <2>1. Junk \in Edges \X Edges
    BY BoundsAssumption DEF Junk, NoEdge, Edges
  <2>2. [i \in Cells |-> IF i < BufSize THEN rawbuf[i] ELSE Junk] \in Buffers
    BY <2>1 DEF TypeOK, Buffers
  <2>3. save' \in [rawlen : 0 .. BufSize, rawbuf : Buffers, overflow : BOOLEAN]
    BY <1>9, <2>2 DEF CopyBuffer, TypeOK
  <2> QED
    BY <1>9, <2>3 DEF CopyBuffer, TypeOK, signal, params
<1>10. CASE DecodeAccepted \/ DecodeRefused
  BY <1>10 DEF DecodeAccepted, DecodeRefused, Resume, Goto, TypeOK, signal, params
<1>11. CASE UNCHANGED vars
  BY <1>11 DEF vars, TypeOK, main, signal, params
<1> QED
  BY <1>1, <1>2, <1>3, <1>4, <1>5, <1>6, <1>7, <1>8, <1>9, <1>10, <1>11, <1>12
     DEF Next, Interrupt, MainCode

\* The interrupt never writes past its buffer or counts past its end, the copy
\* is never longer than the buffer.
THEOREM TypeCorrect == Spec => []TypeOK
<1>1. Init => TypeOK
  BY TypeInit
<1>2. TypeOK /\ [Next]_vars => TypeOK'
  BY TypeStep
<1> QED
  BY <1>1, <1>2, PTL DEF Spec

-----------------------------------------------------------------------------
(* The buffer is a chain of intervals.                                      *)

\* Writing the entry after the last one extends the chain, if it starts where
\* the last one ended.
LEMMA ChainExtends ==
    ASSUME NEW buf \in Buffers, NEW n \in 0 .. BufSize - 1, Chain(buf, n),
           NEW x, NEW e,
           n # 0 => x = Entry(buf[n - 1][2], e) /\ Follows(buf[n - 1][2], e)
    PROVE  Chain([buf EXCEPT ![n] = x], n + 1)
<1> DEFINE new == [buf EXCEPT ![n] = x]
<1>1. SUFFICES ASSUME NEW i \in 1 .. n
               PROVE  /\ new[i][1] = new[i - 1][2]
                      /\ Follows(new[i - 1][2], new[i][2])
  BY BoundsAssumption DEF Chain
<1>2. i \in Cells /\ i - 1 \in Cells /\ i - 1 # n /\ n # 0
  BY BoundsAssumption DEF Cells
<1>3. new[i - 1] = buf[i - 1]
  BY <1>2 DEF Buffers
<1>4. CASE i = n
  <2>1. new[i] = Entry(buf[n - 1][2], e)
    BY <1>2, <1>4 DEF Buffers
  <2> QED
    BY <2>1, <1>2, <1>3, <1>4 DEF Entry
<1>5. CASE i # n
  <2>1. new[i] = buf[i] /\ i \in 1 .. n - 1
    BY <1>2, <1>5 DEF Buffers
  <2> QED
    BY <2>1, <1>3 DEF Chain
<1> QED
  BY <1>4, <1>5

\* Chains are about the first n entries only.
LEMMA ChainAgrees ==
    ASSUME NEW b, NEW c, NEW n \in 0 .. BufSize, Chain(b, n),
           \A i \in 0 .. n - 1 : c[i] = b[i]
    PROVE  Chain(c, n)
<1> SUFFICES ASSUME NEW i \in 1 .. n - 1
             PROVE  c[i][1] = c[i - 1][2] /\ Follows(c[i - 1][2], c[i][2])
  BY DEF Chain
<1>1. i \in 0 .. n - 1 /\ i - 1 \in 0 .. n - 1
  BY BoundsAssumption
<1> QED
  BY <1>1 DEF Chain

LEMMA CaptureInit == Init => CaptureInv
BY BoundsAssumption
   DEF Init, CaptureInv, BufferInv, RearmInv, CopyInv, Chain, EmptySave

\* An edge that may interrupt at any point of the main code: the next of its
\* transmission, or the first of the next one.
LEMMA EdgeStep ==
    ASSUME TypeOK, TypeOK', CaptureInv, NEW e \in Edges, Seen(e),
           Follows(<<tx, edge>>, e), <<tx', edge'>> = e,
           UNCHANGED <<attached, main>>
    PROVE  CaptureInv'
<1> USE DEF CaptureInv
<1>1. CASE attached /\ Record(e) /\ rawlen < BufSize /\ rcvstate # "STOP"
  <2>1. rcvstate' = "MARK" /\ start' = e /\ rawlen' = rawlen + 1
    BY <1>1 DEF Record, TypeOK
  <2>2. rawbuf'[rawlen] = IF rcvstate = "IDLE" THEN Marker(e) ELSE Entry(start, e)
    BY <1>1, BoundsAssumption DEF Record, TypeOK, Buffers, Cells
  <2>3. rawbuf'[rawlen][2] = e
    BY <2>2 DEF Marker, Entry
  <2>4. ASSUME pc # "resume_length" PROVE Chain(rawbuf', rawlen')
    <3>1. rawlen # 0 => /\ rcvstate = "MARK"
                        /\ start = rawbuf[rawlen - 1][2]
                        /\ start = <<tx, edge>>
      BY <1>1, <2>4 DEF BufferInv, TypeOK
    <3>2. rawlen \in 0 .. BufSize - 1
      BY <1>1, BoundsAssumption DEF TypeOK
    <3>3. Chain(rawbuf, rawlen) /\ rawbuf \in Buffers
      BY <2>4 DEF BufferInv, TypeOK
    <3> DEFINE x == IF rcvstate = "IDLE" THEN Marker(e) ELSE Entry(start, e)
    <3>4. rawbuf' = [rawbuf EXCEPT ![rawlen] = x]
      BY <1>1 DEF Record
    <3>5. rawlen # 0 => /\ x = Entry(rawbuf[rawlen - 1][2], e)
                        /\ Follows(rawbuf[rawlen - 1][2], e)
      BY <3>1
    <3> HIDE DEF x
    <3>6. Chain([rawbuf EXCEPT ![rawlen] = x], rawlen + 1)
      BY <3>2, <3>3, <3>5, ChainExtends
    <3> QED
      BY <3>4, <3>6, <2>1
  <2>5. BufferInv'
    <3>1. rawlen' - 1 = rawlen
      BY <2>1, BoundsAssumption DEF TypeOK
    <3> QED
      BY <2>1, <2>3, <2>4, <3>1 DEF BufferInv, main
  <2>6. RearmInv' /\ CopyInv'
    BY <1>1, <2>1 DEF RearmInv, CopyInv, main
  <2> QED
    BY <2>5, <2>6
<1>2. CASE attached /\ (Overflow \/ (Ignore /\ rcvstate = "STOP"))
  BY <1>2 DEF Overflow, Ignore, BufferInv, RearmInv, CopyInv, params, main
<1>3. CASE ~attached
  BY <1>3 DEF Seen, BufferInv, RearmInv, CopyInv, params, main
<1>4. rawlen < BufSize \/ rawlen >= BufSize
  BY BoundsAssumption DEF TypeOK
<1> QED
  BY <1>1, <1>2, <1>3, <1>4 DEF Seen, GpioIntr

LEMMA CaptureStep == TypeOK /\ TypeOK' /\ CaptureInv /\ [Next]_vars => CaptureInv'
<1> SUFFICES ASSUME TypeOK, TypeOK', CaptureInv, [Next]_vars PROVE CaptureInv'
  OBVIOUS
<1> USE DEF CaptureInv
<1>1. CASE FirstEdge
  <2>1. <<tx', 1>> \in Edges /\ Follows(<<tx, edge>>, <<tx', 1>>) /\ edge' = 1
    BY <1>1, BoundsAssumption DEF FirstEdge, Edges, Follows, TypeOK
  <2> QED
    BY <1>1, <2>1, EdgeStep DEF FirstEdge
<1>2. CASE NextEdge
  <2>1. <<tx, edge'>> \in Edges /\ Follows(<<tx, edge>>, <<tx, edge'>>) /\ tx' = tx
    BY <1>2, BoundsAssumption DEF NextEdge, Edges, Follows, TypeOK
  <2> QED
    BY <1>2, <2>1, EdgeStep DEF NextEdge
<1>3. CASE ReadTimeout
  BY <1>3 DEF ReadTimeout, BufferInv, RearmInv, CopyInv, main
<1>4. CASE ResumeState
  BY <1>4 DEF ResumeState, Goto, BufferInv, RearmInv, CopyInv, signal
<1>5. CASE ResumeLength
  <2>1. Chain(rawbuf, 0)
    BY DEF Chain
  <2> QED
    BY <1>5, <2>1 DEF ResumeLength, Goto, BufferInv, RearmInv, CopyInv, signal
<1>6. CASE ResumeOverflow
  BY <1>6 DEF ResumeOverflow, Goto, BufferInv, RearmInv, CopyInv, signal, TypeOK
<1>7. CASE Enable \/ AttachTimer \/ Attach
  BY <1>7 DEF Enable, AttachTimer, Attach, Goto, BufferInv, RearmInv, CopyInv, signal, params
<1>8. CASE Disable \/ Detach
  <2>1. /\ pc \in {"rest", "blink", "detach"} /\ pc' \in {"rest", "detach"}
        /\ attached' = attached \/ attached' = FALSE
        /\ UNCHANGED <<rcvstate, rawlen, rawbuf, start, save, tx, edge>>
    BY <1>8 DEF Disable, Detach, Goto, signal, params
  <2>2. CASE attached' = attached
    BY <2>1, <2>2 DEF BufferInv, RearmInv, CopyInv
  <2>3. CASE attached' = FALSE
    BY <2>1, <2>3 DEF BufferInv, RearmInv, CopyInv
  <2> QED
    BY <2>1, <2>2, <2>3
<1>9. CASE DecodeClear
  <2>1. \A i \in 0 .. rawlen - 1 : rawbuf'[i] = rawbuf[i]
    BY <1>9, BoundsAssumption DEF DecodeClear, TypeOK, Buffers, Cells
  <2>2. Chain(rawbuf', rawlen)
    BY <1>9, <2>1, ChainAgrees DEF DecodeClear, BufferInv, TypeOK
  <2>3. rawlen # 0 => rawbuf'[rawlen - 1] = rawbuf[rawlen - 1]
    BY <2>1, BoundsAssumption DEF TypeOK
  <2> QED
    BY <1>9, <2>2, <2>3 DEF DecodeClear, Goto, BufferInv, RearmInv, CopyInv, signal
<1>10. CASE CopyParams
  <2>1. save'.rawlen = rawlen
    BY <1>10 DEF CopyParams, TypeOK
  <2> QED
    BY <1>10, <2>1 DEF CopyParams, BufferInv, RearmInv, CopyInv, signal, params
<1>11. CASE CopyBuffer
  <2>1. save'.rawlen = rawlen
    BY <1>11 DEF CopyBuffer, CopyInv, TypeOK
  <2>2. save'.rawbuf = [i \in Cells |-> IF i < BufSize THEN rawbuf[i] ELSE Junk]
    BY <1>11 DEF CopyBuffer, TypeOK
  <2>3. \A i \in 0 .. rawlen - 1 : save'.rawbuf[i] = rawbuf[i]
    BY <2>2, BoundsAssumption DEF TypeOK, Cells
  <2>4. Chain(save'.rawbuf, save'.rawlen)
    BY <1>11, <2>1, <2>3, ChainAgrees DEF CopyBuffer, BufferInv, TypeOK
  <2> QED
    BY <1>11, <2>4 DEF CopyBuffer, BufferInv, RearmInv, CopyInv, signal, params
<1>12. CASE DecodeAccepted \/ DecodeRefused
  BY <1>12 DEF DecodeAccepted, DecodeRefused, Resume, Goto, BufferInv, RearmInv, CopyInv,
               signal, params
<1>13. CASE UNCHANGED vars
  BY <1>13 DEF vars, BufferInv, RearmInv, CopyInv, main, signal, params
<1> QED
  BY <1>1, <1>2, <1>3, <1>4, <1>5, <1>6, <1>7, <1>8, <1>9, <1>10, <1>11, <1>12, <1>13
     DEF Next, Interrupt, MainCode

\* Interrupt, main code and copy agree wherever an edge interrupts.
THEOREM CaptureInvariance == Spec => []CaptureInv
<1>1. Init => TypeOK /\ CaptureInv
  BY TypeInit, CaptureInit
<1>2. TypeOK /\ CaptureInv /\ [Next]_vars => (TypeOK /\ CaptureInv)'
  BY TypeStep, CaptureStep
<1> QED
  BY <1>1, <1>2, PTL DEF Spec

\* A code recvIR reports is a run of consecutive intervals.
THEOREM ContiguousCode == Spec => []CodeIsContiguous
<1>1. CaptureInv => CodeIsContiguous
  BY DEF CaptureInv, CopyInv, CodeIsContiguous, Accepted
<1> QED
  BY <1>1, CaptureInvariance, PTL

\* The comment of copyIrParams is kept: nothing changes under the copy.
THEOREM StableCopy == Spec => CopyStable
<1>1. TypeOK /\ CaptureInv /\ [Next]_vars
        => [(pc \in {"copy_params", "copy_buffer"}) => (UNCHANGED Copied)]_vars
  <2> SUFFICES ASSUME TypeOK, CaptureInv, Next, pc \in {"copy_params", "copy_buffer"}
               PROVE  UNCHANGED Copied
    BY DEF vars, Copied, params
  <2>1. rcvstate = "STOP"
    BY DEF CaptureInv, RearmInv
  <2>2. CASE FirstEdge \/ NextEdge
    <3>1. ASSUME NEW e, Seen(e) PROVE UNCHANGED Copied
      BY <3>1, <2>1 DEF Seen, GpioIntr, Overflow, Ignore, Copied, params
    <3> QED
      BY <2>2, <3>1 DEF FirstEdge, NextEdge
  <2>3. CASE CopyParams \/ CopyBuffer
    BY <2>3 DEF CopyParams, CopyBuffer, params, Copied
  <2> QED
    BY <2>2, <2>3
       DEF Next, Interrupt, MainCode, ReadTimeout, ResumeState, ResumeLength, ResumeOverflow,
           Enable, AttachTimer, Attach, Disable, Detach, DecodeClear, DecodeAccepted, DecodeRefused
<1>2. Spec => []TypeOK
  BY TypeCorrect
<1>3. Spec => []CaptureInv
  BY CaptureInvariance
<1> QED
  BY <1>1, <1>2, <1>3, PTL DEF Spec, CopyStable
-----------------------------------------------------------------------------
(* The receiver that StudyControl builds on.                                *)

\* The next edge is after every edge that now is not before.
LEMMA AfterNext ==
    ASSUME NEW s \in Edges, NEW p \in Edges, NEW e \in Edges,
           Follows(p, e), s = p \/ After(p, s)
    PROVE  After(e, s)
BY BoundsAssumption DEF Edges, Follows, After

LEMMA FreshInit == Init => FreshInv
BY BoundsAssumption DEF Init, FreshInv, Fresh, Stale, NoEdge

\* An edge that may interrupt at any point of the main code.
LEMMA FreshEdge ==
    ASSUME TypeOK, FreshInv, NEW e \in Edges, Seen(e),
           Follows(<<tx, edge>>, e), <<tx', edge'>> = e,
           UNCHANGED <<attached, main, since>>
    PROVE  FreshInv'
<1> USE DEF FreshInv, Stale, main
<1>1. After(e, since)
  <2>1. <<tx, edge>> \in Edges /\ since \in Edges
    BY DEF TypeOK, Edges
  <2> QED
    BY <2>1, AfterNext
<1>2. (since = <<tx, edge>> \/ After(<<tx, edge>>, since))'
  BY <1>1 DEF After
<1>3. CASE Record(e) /\ rawlen < BufSize /\ rcvstate # "STOP"
  <2>1. rcvstate' = "MARK" /\ start' = e /\ rawlen' = rawlen + 1
    BY <1>3 DEF Record, TypeOK
  <2> DEFINE x == IF rcvstate = "IDLE" THEN Marker(e) ELSE Entry(start, e)
  <2>2. rawbuf' = [rawbuf EXCEPT ![rawlen] = x]
    BY <1>3 DEF Record
  <2>3. ASSUME ~(ret = "attach" /\ pc \in {"resume_state", "resume_length"})
        PROVE  Fresh(rawbuf, rawlen)'
    <3>1. Fresh(rawbuf, rawlen) /\ (rcvstate = "MARK" => After(start, since))
      BY <2>3
    <3>2. After(x[2], since) /\ (x[1] = NoEdge \/ After(x[1], since))
      BY <1>1, <1>3, <3>1 DEF Marker, Entry, TypeOK
    <3> HIDE DEF x
    <3>3. SUFFICES ASSUME NEW i \in 0 .. rawlen
                   PROVE  /\ After(rawbuf'[i][2], since)
                          /\ rawbuf'[i][1] = NoEdge \/ After(rawbuf'[i][1], since)
      BY <2>1, BoundsAssumption DEF Fresh, After, TypeOK
    <3>4. i \in Cells /\ rawlen \in Cells
      BY <1>3, BoundsAssumption DEF Cells, TypeOK
    <3>5. CASE i = rawlen
      BY <2>2, <3>2, <3>4, <3>5 DEF TypeOK, Buffers
    <3>6. CASE i # rawlen
      <4>1. rawbuf'[i] = rawbuf[i] /\ i \in 0 .. rawlen - 1
        BY <2>2, <3>4, <3>6, BoundsAssumption DEF TypeOK, Buffers
      <4> QED
        BY <3>1, <4>1 DEF Fresh
    <3> QED
      BY <3>5, <3>6
  <2> QED
    BY <1>1, <1>2, <2>1, <2>3 DEF After
<1>4. CASE Overflow \/ (Ignore /\ rcvstate = "STOP") \/ UNCHANGED <<params, start, armed>>
  <2>1. UNCHANGED <<rawbuf, rawlen, start>> /\ (rcvstate' = "STOP" \/ rcvstate' = rcvstate)
    BY <1>4 DEF Overflow, Ignore, params
  <2>2. rcvstate' = "STOP" => ~armed'
    BY <1>4 DEF Overflow, Ignore, params
  <2> QED
    BY <1>2, <2>1, <2>2 DEF Fresh, After
<1>5. rawlen < BufSize \/ rawlen >= BufSize
  BY BoundsAssumption DEF TypeOK
<1> QED
  BY <1>3, <1>4, <1>5 DEF Seen, GpioIntr

LEMMA FreshStep == TypeOK /\ FreshInv /\ [Next]_vars => FreshInv'
<1> SUFFICES ASSUME TypeOK, FreshInv, [Next]_vars PROVE FreshInv'
  OBVIOUS
<1> USE DEF FreshInv, Stale, Fresh, After
<1>1. CASE FirstEdge
  <2>1. <<tx', 1>> \in Edges /\ Follows(<<tx, edge>>, <<tx', 1>>) /\ edge' = 1
    BY <1>1, BoundsAssumption DEF FirstEdge, Edges, Follows, TypeOK
  <2> QED
    BY <1>1, <2>1, FreshEdge DEF FirstEdge
<1>2. CASE NextEdge
  <2>1. <<tx, edge'>> \in Edges /\ Follows(<<tx, edge>>, <<tx, edge'>>) /\ tx' = tx
    BY <1>2, BoundsAssumption DEF NextEdge, Edges, Follows, TypeOK
  <2> QED
    BY <1>2, <2>1, FreshEdge DEF NextEdge
<1>3. CASE ReadTimeout
  BY <1>3 DEF ReadTimeout, main
<1>4. CASE ResumeState \/ ResumeLength
  BY <1>4, BoundsAssumption DEF ResumeState, ResumeLength, Goto, signal
<1>5. CASE ResumeOverflow
  BY <1>5 DEF ResumeOverflow, Goto, signal, TypeOK
<1>6. CASE Enable
  BY <1>6 DEF Enable, params
<1>7. CASE AttachTimer \/ Attach \/ Disable \/ Detach
  <2>1. /\ pc \in {"attach", "attach_intr", "rest", "blink", "detach"}
        /\ pc' \in {"attach_intr", "rest", "detach"}
        /\ armed' = armed \/ armed' = FALSE
        /\ UNCHANGED <<ret, rcvstate, rawlen, rawbuf, start, tx, edge, since>>
    BY <1>7 DEF AttachTimer, Attach, Disable, Detach, Goto, signal, params
  <2> QED
    BY <2>1
<1>8. CASE DecodeClear
  <2>1. \A i \in 0 .. rawlen - 1 : rawbuf'[i] = rawbuf[i]
    BY <1>8, BoundsAssumption DEF DecodeClear, TypeOK, Buffers, Cells
  <2> QED
    BY <1>8, <2>1 DEF DecodeClear, Goto, signal
<1>9. CASE CopyParams \/ CopyBuffer \/ DecodeAccepted \/ DecodeRefused
  BY <1>9 DEF CopyParams, CopyBuffer, DecodeAccepted, DecodeRefused, Resume, Goto, signal, params
<1>10. CASE UNCHANGED vars
  BY <1>10 DEF vars, main, signal, params
<1> QED
  BY <1>1, <1>2, <1>3, <1>4, <1>5, <1>6, <1>7, <1>8, <1>9, <1>10
     DEF Next, Interrupt, MainCode

\* What is in the buffer was seen since the study was opened.
THEOREM FreshInvariance == Spec => []FreshInv
<1>1. Init => TypeOK /\ FreshInv
  BY TypeInit, FreshInit
<1>2. TypeOK /\ FreshInv /\ [Next]_vars => (TypeOK /\ FreshInv)'
  BY TypeStep, FreshStep
<1> QED
  BY <1>1, <1>2, PTL DEF Spec

Waits == rcvstate = "STOP" /\ ~Stale

LEMMA ReceiverInit == Init => AsReceiver!Init
BY DEF Init, AsReceiver!Init, Mode, Frame, Opening, Stale

\* An edge completes a frame when the buffer is full, and is otherwise unseen.
LEMMA ReceiverEdge ==
    ASSUME TypeOK, FreshInv, FreshInv', NEW e, Seen(e), UNCHANGED <<attached, main, since>>
    PROVE  AsReceiver!Next \/ UNCHANGED <<Mode, Frame>>
<1>1. /\ Frame = IF Waits THEN "fresh" ELSE "none"
      /\ Frame' = IF Waits' THEN "fresh" ELSE "none"
  BY DEF FreshInv, Frame, Waits, Stale
<1>2. /\ Stale' = Stale /\ Opening' = Opening
      /\ attached' = attached
  BY DEF main, Stale, Opening
<1>3. Mode' = Mode
  BY <1>2 DEF Mode, Seen
<1>4. CASE Waits' = Waits
  BY <1>1, <1>3, <1>4
<1>5. CASE Waits' # Waits
  <2>1. attached /\ ~Waits /\ Waits'
    BY <1>2, <1>5 DEF Waits, Seen, GpioIntr, Overflow, Ignore, Record, params, TypeOK
  <2> QED
    BY <1>1, <1>3, <2>1 DEF AsReceiver!Next, AsReceiver!Complete, Mode
<1> QED
  BY <1>4, <1>5

LEMMA ReceiverStep ==
    TypeOK /\ TypeOK' /\ FreshInv /\ FreshInv' /\ [Next]_vars
        => [AsReceiver!Next]_<<Mode, Frame>>
<1> SUFFICES ASSUME TypeOK, TypeOK', FreshInv, FreshInv', [Next]_vars
             PROVE  AsReceiver!Next \/ UNCHANGED <<Mode, Frame>>
  OBVIOUS
<1>0. /\ Frame = IF Waits THEN "fresh" ELSE "none"
      /\ Frame' = IF Waits' THEN "fresh" ELSE "none"
  BY DEF FreshInv, Frame, Waits, Stale
<1> USE DEF Waits, Stale, Mode, Opening
<1>1. CASE FirstEdge \/ NextEdge
  BY <1>1, ReceiverEdge DEF FirstEdge, NextEdge
<1>2. CASE ReadTimeout
  <2>1. CASE armed /\ rawlen # 0
    BY <1>0, <1>2, <2>1
       DEF ReadTimeout, main, FreshInv, AsReceiver!Next, AsReceiver!Complete
  <2>2. CASE ~(armed /\ rawlen # 0)
    BY <1>0, <1>2, <2>2 DEF ReadTimeout, main, AsReceiver!Next, AsReceiver!Close
  <2> QED
    BY <2>1, <2>2
<1>3. CASE ResumeState
  BY <1>0, <1>3 DEF ResumeState, Goto, AsReceiver!Next, AsReceiver!Take
<1>4. CASE ResumeLength \/ ResumeOverflow
  BY <1>0, <1>4 DEF ResumeLength, ResumeOverflow, Goto, TypeOK
<1>5. CASE Enable
  BY <1>0, <1>5 DEF Enable, params, AsReceiver!Next, AsReceiver!Open
<1>6. CASE AttachTimer \/ Attach
  BY <1>0, <1>6 DEF AttachTimer, Attach, Goto, params
<1>7. CASE Disable
  <2>1. Frame' = Frame
    BY <1>0, <1>7 DEF Disable, params
  <2>2. Mode' = Mode \/ Mode' = "off"
    BY <1>7 DEF Disable
  <2> QED
    BY <2>1, <2>2 DEF AsReceiver!Next, AsReceiver!Close
<1>10. CASE Detach
  <2>1. Frame' = Frame
    BY <1>0, <1>10 DEF Detach, Goto, params
  <2>2. Mode' = IF armed THEN "tail" ELSE "off"
    BY <1>10 DEF Detach, Goto
  <2>3. armed => Frame = "none"
    BY <1>0 DEF FreshInv
  <2>4. Mode = "on" \/ Mode = Mode'
    BY <1>10, <2>2 DEF Detach
  <2> QED
    BY <2>1, <2>2, <2>3, <2>4 DEF AsReceiver!Next, AsReceiver!Close
<1>8. CASE DecodeClear \/ CopyParams \/ CopyBuffer \/ DecodeAccepted \/ DecodeRefused
  BY <1>0, <1>8
     DEF DecodeClear, CopyParams, CopyBuffer, DecodeAccepted, DecodeRefused, Resume, Goto, params
<1>9. CASE UNCHANGED vars
  BY <1>0, <1>9 DEF vars, main, signal, params
<1> QED
  BY <1>1, <1>2, <1>3, <1>4, <1>5, <1>6, <1>7, <1>8, <1>9, <1>10
     DEF Next, Interrupt, MainCode

\* The receiver of gpio_intr and its five-write rearming implements the receiver
\* that StudyControl opens, closes and reads in one step.
THEOREM ImplementsReceiver == Spec => ReceiverKept
<1>1. Init => AsReceiver!Init
  BY ReceiverInit
<1>2. TypeOK /\ TypeOK' /\ FreshInv /\ FreshInv' /\ [Next]_vars
          => [AsReceiver!Next]_<<Mode, Frame>>
  BY ReceiverStep
<1>3. Spec => []TypeOK
  BY TypeCorrect
<1>4. Spec => []FreshInv
  BY FreshInvariance
<1> QED
  BY <1>1, <1>2, <1>3, <1>4, PTL DEF Spec, ReceiverKept, AsReceiver!Spec, AsReceiver!vars
=============================================================================
