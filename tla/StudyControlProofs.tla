------------------------- MODULE StudyControlProofs -------------------------
(***************************************************************************)
(* Theorems about StudyControl, for every set of consoles and remotes and   *)
(* every bound on the number of studies.                                    *)
(*                                                                         *)
(* StudyInv is the inductive invariant: reports are right because the files *)
(* are, the files because the code of recvIR is, the code because enableIRIn*)
(* empties the receiver when a study opens.                                 *)
(***************************************************************************)
EXTENDS StudyControl, TLAPS

\* A frame is never the absence of one: its size is one of Sizes.
LEMMA NoFrameIsNoFrame == NoFrame \notin Frames
BY NamesAssumption DEF NoFrame, Frames, AllSizes

\* A message may name neither a console nor a remote.
LEMMA NoCtxIsMsgCtx == NoCtx \in MsgCtxs
BY DEF NoCtx, MsgCtxs

LEMMA TypeInit == Init => TypeOK
<1> SUFFICES ASSUME Init PROVE TypeOK
  OBVIOUS
<1>1. NoReport \in Reports
  BY DEF NoReport, Reports, Resps
<1>2. NoStudy \in [id : Nat, console : Consoles \cup {NoConsole},
                  remote : Remotes \cup {NoRemote}]
  BY DEF NoStudy
<1> QED
  BY <1>1, <1>2, NoCtxIsMsgCtx DEF Init, TypeOK, Statuses

\* The outcome that ends a study, whoever asks for it, is a report.
LEMMA OutcomeType ==
    ASSUME TypeOK, NEW c \in MsgCtxs, Studied(c)
    PROVE  report' \in Reports
<1>1. Loaded(c.remote) \in Frames \cup {NoFrame}
  BY DEF Loaded, TypeOK, MsgCtxs
<1>2. Payload(Loaded(c.remote)) \in Frames \cup {NoFrame}
  BY <1>1 DEF Payload
<1>3. c.console \in Consoles \cup {NoConsole} /\ c.remote \in Remotes \cup {NoRemote}
  BY DEF MsgCtxs
<1>4. ASSUME NEW f \in Frames \cup {NoFrame}, NEW resp \in Resps, Send(resp, c, f)
      PROVE  report' \in Reports
  <2>1. (online /\ f.size # "overPacket") \in BOOLEAN
    OBVIOUS
  <2> QED
    BY <1>3, <1>4, <2>1 DEF Send, Reports
<1> QED
  BY <1>2, <1>4 DEF Studied, Resps

\* Every step keeps the types.
LEMMA TypeStep == TypeOK /\ [Next]_vars => TypeOK'
<1> SUFFICES ASSUME TypeOK, [Next]_vars PROVE TypeOK'
  OBVIOUS
<1> USE NoFrameIsNoFrame, NoCtxIsMsgCtx DEF TypeOK, Statuses
<1>1. CASE DecodeFrame
  BY <1>1 DEF DecodeFrame
<1>2. CASE DecodeNoise
  BY <1>2 DEF DecodeNoise
<1>3. CASE SaveReceived
  BY <1>3 DEF SaveReceived
<1>4. CASE FinishStudy
  <2>1. report' \in Reports
    BY <1>4, OutcomeType DEF FinishStudy
  <2> QED
    BY <1>4, <2>1 DEF FinishStudy, Studied, DisableIRIn, Detach, UpdateStatus
<1>5. CASE ResetUploaded
  BY <1>5 DEF ResetUploaded, ResetStatus
<1>6. CASE LoopIdle
  BY <1>6 DEF LoopIdle
<1>7. ASSUME NEW c \in MsgCtxs, NotifyReady(c) PROVE TypeOK'
  <2>1. report' \in Reports
    BY <1>7 DEF NotifyReady, Send, Reports, Resps, MsgCtxs
  <2>2. files' \in [Remotes -> Frames \cup {NoFrame}]
    BY <1>7 DEF NotifyReady, Removed
  <2>3. study' \in [id : Nat, console : Consoles \cup {NoConsole},
                    remote : Remotes \cup {NoRemote}]
    BY <1>7 DEF NotifyReady, MsgCtxs
  <2> QED
    BY <1>7, <2>1, <2>2, <2>3 DEF NotifyReady, UpdateStatus, EnableIRIn
<1>8. ASSUME NEW c \in MsgCtxs, NotifyStudied(c) PROVE TypeOK'
  <2>1. report' \in Reports
    BY <1>8, OutcomeType DEF NotifyStudied
  <2> QED
    BY <1>8, <2>1 DEF NotifyStudied, Studied, DisableIRIn, Detach, UpdateStatus
<1>9. ASSUME NEW c \in MsgCtxs, NotifyCancel(c) PROVE TypeOK'
  BY <1>9 DEF NotifyCancel, DisableIRIn, Detach, Send, ResetStatus, Reports, Resps, MsgCtxs
<1>10. ASSUME NEW c \in MsgCtxs, NotifyTest(c) PROVE TypeOK'
  BY <1>10 DEF NotifyTest, Send, ResetStatus, Reports, Resps, MsgCtxs
<1>11. CASE EmitCode
  BY <1>11 DEF EmitCode, Detach, ResetStatus
<1>12. CASE EmitNothing
  BY <1>12 DEF EmitNothing, ResetStatus
<1>13. CASE NetQuiet
  BY <1>13 DEF NetQuiet
<1>14. CASE Reconnect
  BY <1>14 DEF Reconnect
<1>15. CASE DisableTask
  BY <1>15 DEF DisableTask, DisableIRIn, Detach
<1>16. CASE TasksQuiet
  BY <1>16 DEF TasksQuiet
<1>17. CASE IRFrame
  <2>1. capture' \in Frames
    BY <1>17 DEF IRFrame, Frames
  <2> QED
    BY <1>17, <2>1 DEF IRFrame
<1>18. CASE LinkDown
  BY <1>18 DEF LinkDown
<1>19. CASE Reboot
  BY <1>19 DEF Reboot, Booted, ResetStatus
<1>20. CASE FactoryReset
  BY <1>20 DEF FactoryReset, Booted, ResetStatus
<1>21. CASE UNCHANGED vars
  BY <1>21 DEF vars
<1> QED
  BY <1>1, <1>2, <1>3, <1>4, <1>5, <1>6, <1>7, <1>8, <1>9, <1>10, <1>11,
     <1>12, <1>13, <1>14, <1>15, <1>16, <1>17, <1>18, <1>19, <1>20, <1>21
     DEF Next, Main, LoopStep, NetStep, TaskStep

\* The variables keep their types, and an idle kit has no context.
THEOREM TypeCorrect == Spec => []TypeOK
BY TypeInit, TypeStep, PTL DEF Spec

-----------------------------------------------------------------------------
(* The inductive invariant.                                                 *)

LEMMA InvInit == Init => StudyInv
BY MaxStudiesAssumption
   DEF Init, StudyInv, ReadyIsCurrent, CodeIsCurrent, FilesAreOwn, NoStudy

\* Every step keeps receiver, code, files and status of one study together.
LEMMA InvStep == TypeOK /\ StudyInv /\ [Next]_vars => StudyInv'
<1> SUFFICES ASSUME TypeOK, StudyInv, [Next]_vars PROVE StudyInv'
  OBVIOUS
<1> USE NoFrameIsNoFrame
    DEF TypeOK, Statuses, StudyInv, ReadyIsCurrent, CodeIsCurrent, FilesAreOwn
<1>1. CASE DecodeFrame
  BY <1>1 DEF DecodeFrame
<1>2. CASE DecodeNoise
  BY <1>2 DEF DecodeNoise
<1>3. CASE SaveReceived
  BY <1>3 DEF SaveReceived
<1>4. CASE FinishStudy
  BY <1>4 DEF FinishStudy, Studied, DisableIRIn, Detach, UpdateStatus
<1>5. CASE ResetUploaded
  BY <1>5 DEF ResetUploaded, ResetStatus
<1>6. CASE LoopIdle
  BY <1>6 DEF LoopIdle
<1>7. ASSUME NEW c \in MsgCtxs, NotifyReady(c) PROVE StudyInv'
  <2>1. /\ study'.id = study.id + 1
        /\ study'.console = c.console
        /\ study'.remote = c.remote
        /\ ctx' = c /\ pc' = "tasks" /\ capture' = NoFrame /\ code' = NoFrame
    BY <1>7 DEF NotifyReady, UpdateStatus, EnableIRIn
  <2>2. ReadyIsCurrent' /\ CodeIsCurrent' /\ (study.id <= MaxStudies)'
    <3>1. study.id + 1 <= MaxStudies /\ study.id + 1 > 0
      BY <1>7, MaxStudiesAssumption DEF NotifyReady
    <3>2. c = [console |-> c.console, remote |-> c.remote]
      BY DEF MsgCtxs
    <3> QED
      BY <2>1, <3>1, <3>2
  <2>3. ASSUME NEW r \in Remotes
        PROVE  files'[r] = (IF r = c.remote THEN NoFrame ELSE files[r])
    BY <1>7, NamesAssumption DEF NotifyReady, Removed
  <2>4. FilesAreOwn'
    BY <2>1, <2>3
  <2> QED
    BY <2>2, <2>4
<1>8. ASSUME NEW c \in MsgCtxs, NotifyStudied(c) PROVE StudyInv'
  BY <1>8 DEF NotifyStudied, Studied, DisableIRIn, Detach, UpdateStatus
<1>9. ASSUME NEW c \in MsgCtxs, NotifyCancel(c) PROVE StudyInv'
  BY <1>9 DEF NotifyCancel, DisableIRIn, Detach, ResetStatus
<1>10. ASSUME NEW c \in MsgCtxs, NotifyTest(c) PROVE StudyInv'
  BY <1>10 DEF NotifyTest, ResetStatus
<1>11. CASE EmitCode
  BY <1>11 DEF EmitCode, ResetStatus
<1>12. CASE EmitNothing
  BY <1>12 DEF EmitNothing, ResetStatus
<1>13. CASE NetQuiet
  BY <1>13 DEF NetQuiet
<1>14. CASE Reconnect
  BY <1>14 DEF Reconnect
<1>15. CASE DisableTask
  BY <1>15 DEF DisableTask, DisableIRIn, Detach
<1>16. CASE TasksQuiet
  BY <1>16 DEF TasksQuiet
<1>17. CASE IRFrame
  BY <1>17 DEF IRFrame
<1>18. CASE LinkDown
  BY <1>18 DEF LinkDown
<1>19. CASE Reboot
  BY <1>19 DEF Reboot, Booted, ResetStatus
<1>20. CASE FactoryReset
  BY <1>20 DEF FactoryReset, Booted, ResetStatus
<1>21. CASE UNCHANGED vars
  BY <1>21 DEF vars
<1> QED
  BY <1>1, <1>2, <1>3, <1>4, <1>5, <1>6, <1>7, <1>8, <1>9, <1>10, <1>11,
     <1>12, <1>13, <1>14, <1>15, <1>16, <1>17, <1>18, <1>19, <1>20, <1>21
     DEF Next, Main, LoopStep, NetStep, TaskStep

\* Receiver, files and status agree on the study, at any size.
THEOREM Invariance == Spec => []StudyInv
BY TypeInit, TypeStep, InvInit, InvStep, PTL DEF Spec

-----------------------------------------------------------------------------
(* What follows from it.                                                    *)

\* An outcome is addressed to c and carries, if a code at all, the one in
\* the file of c's remote.
LEMMA OutcomeContent ==
    ASSUME TypeOK, StudyInv, NEW c \in MsgCtxs, Studied(c)
    PROVE  /\ report'.console = c.console
           /\ report'.remote = c.remote
           /\ report'.payload # NoFrame =>
                 c.remote \in Remotes /\ report'.payload = files[c.remote]
<1>1. ASSUME NEW resp, NEW f, Send(resp, c, f)
      PROVE  report'.console = c.console /\ report'.remote = c.remote /\ report'.payload = f
  BY <1>1 DEF Send
<1>2. Loaded(c.remote) # NoFrame => c.remote \in Remotes /\ Loaded(c.remote) = files[c.remote]
  BY DEF Loaded, MsgCtxs
<1>3. CASE Loaded(c.remote) # NoFrame
  <2>1. Send("study_completed", c, Payload(Loaded(c.remote)))
    BY <1>3 DEF Studied
  <2> QED
    BY <1>1, <1>2, <1>3, <2>1 DEF Payload
<1>4. CASE Loaded(c.remote) = NoFrame
  <2>1. Send("study_error", c, NoFrame)
    BY <1>4 DEF Studied
  <2> QED
    BY <1>1, <2>1
<1> QED
  BY <1>3, <1>4

\* No code is ever reported under the name of another remote.
THEOREM OwnRemote == Spec => []CompletedOwnRemote
<1>1. Init => CompletedOwnRemote
  BY DEF Init, CompletedOwnRemote, NoReport
<1>2. ASSUME TypeOK, StudyInv, CompletedOwnRemote, [Next]_vars
      PROVE  CompletedOwnRemote'
  <2>1. ASSUME NEW c \in MsgCtxs, Studied(c) PROVE CompletedOwnRemote'
    BY <1>2, <2>1, OutcomeContent DEF StudyInv, FilesAreOwn, CompletedOwnRemote
  <2>2. ASSUME NEW resp, NEW c, Send(resp, c, NoFrame) PROVE CompletedOwnRemote'
    BY <2>2 DEF Send, CompletedOwnRemote
  <2>3. CASE UNCHANGED report
    BY <1>2, <2>3 DEF CompletedOwnRemote
  <2>4. FinishStudy => ctx \in MsgCtxs
    BY <1>2 DEF FinishStudy, TypeOK
  <2> QED
    BY <1>2, <2>1, <2>2, <2>3, <2>4
       DEF Next, Main, LoopStep, NetStep, TaskStep, DecodeFrame, DecodeNoise,
           SaveReceived, FinishStudy, ResetUploaded, LoopIdle, NotifyReady,
           NotifyStudied, NotifyCancel, NotifyTest, EmitCode, EmitNothing,
           NetQuiet, Reconnect, DisableTask, TasksQuiet, IRFrame, LinkDown,
           Reboot, FactoryReset, vars
<1> QED
  BY <1>1, <1>2, TypeCorrect, Invariance, PTL DEF Spec

\* The outcome recvIR sends is of the open study, and fresh.
THEOREM OutcomeIsFresh == Spec => FreshOutcome
<1>1. ASSUME TypeOK, StudyInv, FinishStudy
      PROVE  /\ report'.console = study.console
             /\ report'.remote = study.remote
             /\ report'.payload # NoFrame => report'.payload.study = study.id
  <2>1. status = "READY_TO_STUDY" /\ ctx \in MsgCtxs /\ Studied(ctx)
    BY <1>1 DEF TypeOK, FinishStudy
  <2>2. ctx.console = study.console /\ ctx.remote = study.remote
    BY <1>1, <2>1 DEF StudyInv, ReadyIsCurrent
  <2> QED
    BY <1>1, <2>1, <2>2, OutcomeContent DEF StudyInv, FilesAreOwn
<1> QED
  BY <1>1, TypeCorrect, Invariance, PTL DEF FreshOutcome

-----------------------------------------------------------------------------
(* The promise to the server.                                               *)

\* The slot of the service is the open study.
Slot == IF status = "READY_TO_STUDY" THEN study ELSE NoStudy

LEMMA SlotInit == Init => Service!Init
BY DEF Init, Service!Init, NoStudy, NoReport, NoFrame, Service!NoStudy,
   Service!NoFrame, Service!NothingKept

\* An answer of the code is an answer of the service.
LEMMA SendAnswers ==
    ASSUME NEW resp, NEW c, NEW f, online \in BOOLEAN, Send(resp, c, f)
    PROVE  Service!Answer(resp, c.console, c.remote, f)
<1>1. (online /\ f.size # "overPacket") \in BOOLEAN
  OBVIOUS
<1> QED
  BY <1>1 DEF Send, Service!Answer

\* An outcome of the kit is one of the service: what the file of the remote
\* holds, as far as the document has room for it.
LEMMA OutcomeAnswers ==
    ASSUME TypeOK, NEW c \in MsgCtxs, Studied(c)
    PROVE  Service!Outcome(c)
<1>n. Service!NoFrame = NoFrame
  BY DEF Service!NoFrame, NoFrame
<1>1. Loaded(c.remote) = Service!Held(c.remote)
  BY <1>n DEF Loaded, Service!Held
<1>2. CASE Loaded(c.remote) = NoFrame
  <2>1. Service!Answer("study_error", c.console, c.remote, NoFrame)
    BY <1>2, SendAnswers DEF Studied, TypeOK
  <2> QED
    BY <1>n, <1>1, <1>2, <2>1 DEF Service!Outcome
<1>3. CASE Loaded(c.remote) # NoFrame
  <2>1. Service!Answer("study_completed", c.console, c.remote, Payload(Loaded(c.remote)))
    BY <1>3, SendAnswers DEF Studied, TypeOK
  <2>2. CASE Loaded(c.remote).size = "overDoc"
    BY <1>n, <1>1, <2>1, <2>2 DEF Service!Outcome, Payload
  <2>3. CASE Loaded(c.remote).size # "overDoc"
    BY <1>n, <1>1, <1>3, <2>1, <2>3 DEF Service!Outcome, Payload
  <2> QED
    BY <2>2, <2>3
<1> QED
  BY <1>2, <1>3

\* Every step of the kit is a step of the service or leaves it alone.
LEMMA SlotStep == TypeOK /\ StudyInv /\ [Next]_vars => [Service!Next]_(Service!vars)
<1> SUFFICES ASSUME TypeOK, StudyInv, [Next]_vars
             PROVE  Service!Next \/ UNCHANGED <<asked, Slot, study.id, files, report>>
  BY DEF Service!vars, Slot
<1>q. Service!Requests = MsgCtxs
  BY DEF Service!Requests, MsgCtxs
<1>n. /\ Service!NoStudy = NoStudy /\ Service!NoFrame = NoFrame
      /\ Service!NothingKept = [r \in Remotes |-> NoFrame]
  BY DEF Service!NoStudy, NoStudy, Service!NoFrame, NoFrame, Service!NothingKept
<1>a. pc # "tasks" => asked = {}
  BY DEF TypeOK
<1>1. CASE SaveReceived
  <2>1. /\ status = "READY_TO_STUDY" /\ code \in Frames \cup {NoFrame}
        /\ code.study = study.id /\ code.remote = study.remote
        /\ ctx.remote = study.remote /\ ctx.remote \in Remotes \cup {NoRemote}
        /\ study # NoStudy
    BY <1>1 DEF SaveReceived, TypeOK, StudyInv, ReadyIsCurrent, CodeIsCurrent, MsgCtxs, NoStudy
  <2>2. Slot = study /\ Slot' = Slot /\ UNCHANGED <<asked, study, report>> /\ asked = {}
    BY <1>1, <1>a, <2>1 DEF SaveReceived, Slot
  <2>3. ASSUME ctx.remote # NoRemote,
               NEW f \in {code, NoFrame}, files' = [files EXCEPT ![ctx.remote] = f]
        PROVE  Service!Capture
    <3>1. f \in [study : {study.id}, remote : {study.remote}, size : Sizes] \cup {NoFrame}
      BY <2>1, <2>3 DEF Frames
    <3> QED
      BY <1>n, <2>1, <2>2, <2>3, <3>1 DEF Service!Capture, Slot
  <2> QED
    BY <1>1, <2>2, <2>3 DEF SaveReceived, Service!Next
<1>2. CASE FinishStudy
  <2>1. status = "READY_TO_STUDY" /\ ctx \in MsgCtxs /\ Studied(ctx) /\ asked = {}
        /\ status' # "READY_TO_STUDY" /\ UNCHANGED <<study, files, asked>>
    BY <1>2, <1>a DEF TypeOK, FinishStudy, Studied, UpdateStatus
  <2>2. Slot = study /\ study # NoStudy /\ Slot' = NoStudy
        /\ ctx.console = Slot.console /\ ctx.remote = Slot.remote
    BY <2>1 DEF Slot, StudyInv, ReadyIsCurrent, NoStudy
  <2>3. Service!Outcome(Slot)
    <3>1. Service!Outcome(ctx)
      BY <2>1, OutcomeAnswers
    <3> QED
      BY <2>2, <3>1 DEF Service!Outcome
  <2>4. Service!Conclude
    BY <1>n, <2>1, <2>2, <2>3 DEF Service!Conclude, Slot
  <2> QED
    BY <2>1, <2>4 DEF Service!Next
<1>3. ASSUME NEW c \in MsgCtxs, NotifyReady(c) PROVE Service!Next
  <2>1. /\ study' = [id |-> study.id + 1, console |-> c.console, remote |-> c.remote]
        /\ status' = "READY_TO_STUDY" /\ study.id < MaxStudies
        /\ files' = Removed(c.remote)
        /\ Send("study_prepared", c, NoFrame)
        /\ asked = {} /\ asked' = {c}
    BY <1>3, <1>a DEF NotifyReady, UpdateStatus
  <2>2. Removed(c.remote) = [r \in Remotes |-> IF r = c.remote THEN NoFrame ELSE files[r]]
    BY NamesAssumption DEF Removed, TypeOK, MsgCtxs
  <2>3. Service!Open(c)
    BY <1>n, <2>1, <2>2, SendAnswers DEF Service!Open, TypeOK
  <2> QED
    BY <1>q, <2>1, <2>3 DEF Service!Next
<1>4. ASSUME NEW c \in MsgCtxs, NotifyStudied(c) PROVE Service!Next
  <2>1. Studied(c) /\ status' # "READY_TO_STUDY" /\ UNCHANGED <<study, files>>
        /\ asked = {} /\ asked' = {c}
    BY <1>4, <1>a DEF NotifyStudied, Studied, UpdateStatus
  <2>2. Service!Reload(c)
    BY <1>n, <2>1, OutcomeAnswers DEF Service!Reload
  <2> QED
    BY <1>q, <2>1, <2>2 DEF Service!Next
<1>5. ASSUME NEW c \in MsgCtxs, NotifyCancel(c) \/ NotifyTest(c) PROVE Service!Next
  <2>1. /\ status' # "READY_TO_STUDY" /\ UNCHANGED <<study, files>>
        /\ asked = {} /\ asked' = {c}
        /\ \/ Send("study_cancelled", c, NoFrame)
           \/ Send("test_ok", [console |-> c.console, remote |-> NoRemote], NoFrame)
    BY <1>5, <1>a DEF NotifyCancel, NotifyTest, ResetStatus
  <2>2. Service!Close(c)
    BY <1>n, <2>1, SendAnswers DEF Service!Close, TypeOK
  <2> QED
    BY <1>q, <2>1, <2>2 DEF Service!Next
<1>6. CASE ResetUploaded \/ EmitCode \/ EmitNothing \/ Reboot \/ FactoryReset
  <2>1. /\ status' # "READY_TO_STUDY" /\ UNCHANGED <<study, report>> /\ asked' = {}
        /\ files' = files \/ files' = [r \in Remotes |-> NoFrame]
    BY <1>6, <1>a DEF ResetUploaded, EmitCode, EmitNothing, Reboot, FactoryReset, Booted, ResetStatus
  <2>2. Service!Lose
    BY <1>n, <2>1 DEF Service!Lose
  <2> QED
    BY <2>1, <2>2 DEF Service!Next
<1>7. CASE DisableTask \/ TasksQuiet
  <2>1. UNCHANGED <<status, study, files, report>> /\ asked' = {}
    BY <1>7 DEF DisableTask, TasksQuiet
  <2> QED
    BY <2>1 DEF Service!Next, Service!Done
<1>8. CASE \/ DecodeFrame \/ DecodeNoise \/ LoopIdle \/ NetQuiet
           \/ Reconnect \/ IRFrame \/ LinkDown \/ UNCHANGED vars
  <2>1. UNCHANGED <<status, study, files, report, asked>>
    BY <1>8 DEF DecodeFrame, DecodeNoise, LoopIdle, NetQuiet,
       Reconnect, IRFrame, LinkDown, vars
  <2> QED
    BY <2>1 DEF Slot
<1> QED
  BY <1>1, <1>2, <1>3, <1>4, <1>5, <1>6, <1>7, <1>8
     DEF Next, Main, LoopStep, NetStep, TaskStep

\* The kit implements the study service: the outcome of a study goes to the
\* console that opened it, with the code saved in that very study or as an
\* error, and every other answer goes to the console that asked for it.
THEOREM ImplementsService == Spec => ServiceKept
BY SlotInit, SlotStep, TypeCorrect, Invariance, PTL DEF Spec, ServiceKept, Service!Spec

-----------------------------------------------------------------------------
(* The receiver, between StudyControl and IrCapture.                        *)

Mode == IF attached THEN "on" ELSE IF tail THEN "tail" ELSE "off"

Frame == IF capture = NoFrame THEN "none"
         ELSE IF capture.study = study.id THEN "fresh" ELSE "stale"

Device == INSTANCE Receiver WITH mode <- Mode, frame <- Frame

\* The handlers use the receiver only as Receiver allows, which IrCapture is
\* shown to implement: it is opened empty, a frame is taken once and is of the
\* last study, and after disableIRIn at most one more comes.
ReceiverUsed == Device!Init /\ [][Device!Next \/ Booted]_<<Mode, Frame>>

\* A frame is of the last study that was opened, whatever became of it.
ReceiverInv ==
    /\ attached => ~tail
    /\ capture # NoFrame => capture.study = study.id

LEMMA ReceiverInvStep == TypeOK /\ ReceiverInv /\ [Next]_vars => ReceiverInv'
<1> SUFFICES ASSUME TypeOK, ReceiverInv, [Next]_vars PROVE ReceiverInv'
  OBVIOUS
<1>1. CASE UNCHANGED vars \/ \E c \in MsgCtxs : NotifyReady(c)
  BY <1>1 DEF vars, NotifyReady, EnableIRIn, ReceiverInv
<1>2. CASE \/ FinishStudy \/ DisableTask
           \/ \E c \in MsgCtxs : NotifyStudied(c) \/ NotifyCancel(c)
  BY <1>2 DEF FinishStudy, Studied, DisableTask, NotifyStudied, NotifyCancel,
     DisableIRIn, Detach, ReceiverInv
<1>3. CASE EmitCode
  BY <1>3 DEF EmitCode, Detach, ReceiverInv
<1>4. CASE IRFrame
  BY <1>4 DEF IRFrame, ReceiverInv
<1>5. CASE Reboot \/ FactoryReset
  BY <1>5 DEF Reboot, FactoryReset, Booted, ReceiverInv
<1>6. CASE DecodeFrame \/ DecodeNoise
  BY <1>6 DEF DecodeFrame, DecodeNoise, ReceiverInv
<1>7. CASE \/ SaveReceived \/ ResetUploaded \/ LoopIdle \/ EmitNothing \/ NetQuiet
           \/ Reconnect \/ TasksQuiet \/ LinkDown
           \/ \E c \in MsgCtxs : NotifyTest(c)
  <2>1. UNCHANGED <<attached, tail, capture, study>>
    BY <1>7 DEF SaveReceived, ResetUploaded, LoopIdle, EmitNothing, NetQuiet,
       Reconnect, TasksQuiet, LinkDown, NotifyTest
  <2> QED
    BY <2>1 DEF ReceiverInv
<1> QED
  BY <1>1, <1>2, <1>3, <1>4, <1>5, <1>6, <1>7
     DEF Next, Main, LoopStep, NetStep, TaskStep

\* Detaching closes the receiver, or leaves one that is off alone.
LEMMA DetachCloses ==
    ASSUME TypeOK, ReceiverInv, Detach, UNCHANGED <<capture, study>>
    PROVE  Device!Close
<1>1. Frame' = Frame
  BY DEF Frame
<1>2. Mode' = "off" \/ (Mode = "on" /\ Frame = "none" /\ Mode' = "tail")
  BY DEF Detach, Mode, Frame, TypeOK
<1> QED
  BY <1>1, <1>2 DEF Device!Close

LEMMA DeviceStep ==
    TypeOK /\ ReceiverInv /\ [Next]_vars => [Device!Next \/ Booted]_<<Mode, Frame>>
<1> SUFFICES ASSUME TypeOK, ReceiverInv, [Next]_vars
             PROVE  Device!Next \/ Booted \/ UNCHANGED <<Mode, Frame>>
  OBVIOUS
<1>0. Frame = IF capture = NoFrame THEN "none" ELSE "fresh"
  BY DEF Frame, ReceiverInv
<1>1. CASE \E c \in MsgCtxs : NotifyReady(c)
  <2>1. Device!Open
    BY <1>1 DEF NotifyReady, EnableIRIn, Device!Open, Mode, Frame
  <2> QED
    BY <2>1 DEF Device!Next
<1>2. CASE \/ FinishStudy \/ DisableTask \/ EmitCode
           \/ \E c \in MsgCtxs : NotifyStudied(c) \/ NotifyCancel(c)
  <2>1. Detach /\ UNCHANGED <<capture, study>>
    BY <1>2 DEF FinishStudy, Studied, DisableTask, EmitCode, NotifyStudied,
       NotifyCancel, DisableIRIn
  <2> QED
    BY <2>1, DetachCloses DEF Device!Next
<1>3. CASE IRFrame
  <2>1. PICK s \in Sizes :
            capture' = [study |-> study.id, remote |-> study.remote, size |-> s]
    BY <1>3 DEF IRFrame
  <2>2. capture' # NoFrame /\ capture'.study = study'.id
    BY <1>3, <2>1, NamesAssumption DEF IRFrame, NoFrame, AllSizes
  <2>3. Device!Complete
    BY <1>3, <2>2 DEF IRFrame, Device!Complete, Mode, Frame, ReceiverInv, TypeOK
  <2> QED
    BY <2>3 DEF Device!Next
<1>4. CASE DecodeFrame \/ DecodeNoise
  <2>1. capture # NoFrame /\ capture' = NoFrame /\ UNCHANGED <<attached, tail, study>>
    BY <1>4, NoFrameIsNoFrame DEF DecodeFrame, DecodeNoise
  <2>2. Device!Take
    BY <1>0, <2>1 DEF Device!Take, Mode, Frame
  <2> QED
    BY <2>2 DEF Device!Next
<1>5. CASE Reboot \/ FactoryReset
  BY <1>5 DEF Reboot, FactoryReset
<1>6. CASE \/ SaveReceived \/ ResetUploaded \/ LoopIdle \/ EmitNothing \/ NetQuiet
           \/ Reconnect \/ TasksQuiet \/ LinkDown \/ UNCHANGED vars
           \/ \E c \in MsgCtxs : NotifyTest(c)
  <2>1. UNCHANGED <<attached, tail, capture, study>>
    BY <1>6 DEF SaveReceived, ResetUploaded, LoopIdle, EmitNothing, NetQuiet,
       Reconnect, TasksQuiet, LinkDown, NotifyTest, vars
  <2> QED
    BY <2>1 DEF Mode, Frame
<1> QED
  BY <1>1, <1>2, <1>3, <1>4, <1>5, <1>6 DEF Next, Main, LoopStep, NetStep, TaskStep

\* The study state machine keeps to the receiver that IrCapture implements.
THEOREM UsesReceiver == Spec => ReceiverUsed
<1>1. Init => Device!Init /\ ReceiverInv
  BY DEF Init, Device!Init, Mode, Frame, ReceiverInv
<1> QED
  BY <1>1, ReceiverInvStep, DeviceStep, TypeCorrect, PTL DEF Spec, ReceiverUsed

\* And it is ready for whatever that receiver does by itself: a frame it may
\* complete, of any size and at any moment, is a step of StudyControl.
THEOREM AdmitsReceiver ==
    ASSUME TypeOK, ReceiverInv, Device!Complete, tail' = FALSE,
           capture'.remote = study.remote, capture'.size \in Sizes,
           capture' \in Frames \cup {NoFrame},
           UNCHANGED <<status, ctx, attached, led, code, files, pc, online, report, study, asked>>
    PROVE  IRFrame
<1>1. Frame = "none" /\ Frame' = "fresh" /\ Mode # "off"
  BY DEF Device!Complete
<1>2. capture = NoFrame /\ (attached \/ tail)
  BY <1>1 DEF Frame, Mode, ReceiverInv
<1>3. capture' # NoFrame /\ capture'.study = study.id
  BY <1>1 DEF Frame
<1>4. capture' = [study |-> study.id, remote |-> study.remote, size |-> capture'.size]
  BY <1>3 DEF Frames
<1> QED
  BY <1>2, <1>4 DEF IRFrame
=============================================================================
