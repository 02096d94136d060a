---------------------------- MODULE StudyControl ----------------------------
(***************************************************************************)
(* The study state machine of IRIS Kit: g_iris_kit_status, the IR receiver  *)
(* it switches, the received-code files it keeps, and the main loop that    *)
(* interleaves recvIR, the downstream message handlers and the two tickers  *)
(* (src/src/iris_kit.cpp, iris_client.cpp, ir_drv_ctrl.cpp).                *)
(*                                                                         *)
(* One iteration of loop() is the walk of pc                                *)
(*   "loop" -> ["blink" -> "saved" ->] "net" -> "tasks" -> "loop":          *)
(* recvIR or the reset of an uploaded study, keepAliveIot with at most one  *)
(* received packet, and the scheduled functions, which the core runs once   *)
(* loop() has returned.  Interrupts (a finished IR frame), the link and a   *)
(* power cut happen at any pc.                                              *)
(***************************************************************************)
EXTENDS Integers

CONSTANTS
    Consoles,    \* ids of the consoles that ask for a study
    NoConsole,   \* console_id 0: none, or that of a message that names none
    Remotes,     \* remote indexes a message can name
    NoRemote,    \* the empty remote_index
    Sizes,       \* how large a captured frame is, see the operators below
    MaxStudies   \* bound: studies opened in one behaviour

(* Sizes are told apart by what the code does with them: a "noise" frame is *)
(* refused by decodeHash, a "fits" frame travels, an "overPacket" one makes *)
(* a message that publish refuses, an "overDoc" one does not fit the        *)
(* JSON document mqtt_upstream_topic_ind_doc.                               *)
AllSizes == {"noise", "fits", "overPacket", "overDoc"}

ASSUME NamesAssumption ==
    /\ NoConsole \notin Consoles
    /\ NoRemote \notin Remotes
    /\ Sizes \subseteq AllSizes

ASSUME MaxStudiesAssumption == MaxStudies \in Nat

VARIABLES
    status,    \* g_iris_kit_status.status
    ctx,       \* the other fields of g_iris_kit_status
    attached,  \* is gpio_intr attached to the receiver pin
    tail,      \* detached, may the receiver still complete a frame
    led,       \* the receive LED
    capture,   \* the complete frame waiting in irparams (kStopState), or NoFrame
    code,      \* g_recv_ir_code_str while recvIR runs
    files,     \* /ir/ir_<remote>.rcv, NoFrame when absent or empty
    pc,        \* where the main loop is
    online,    \* is the MQTT session up
    report,    \* observation: the last answer handed to sendData
    study,     \* observation: the last study that was opened
    asked      \* observation: the study message of this iteration, {} or {c}

vars == <<status, ctx, attached, tail, led, capture, code, files, pc, online, report, study, asked>>

-----------------------------------------------------------------------------
(* Values.                                                                  *)

Statuses == {"IDLE", "READY_TO_STUDY", "UPLOADED"}

NoFrame == [study |-> 0, remote |-> NoRemote, size |-> "none"]

Frames == [study : Nat, remote : Remotes \cup {NoRemote}, size : Sizes]

NoCtx == [console |-> NoConsole, remote |-> NoRemote]

\* What a message may name: handleNotifyStatus checks neither field
MsgCtxs == [console : Consoles \cup {NoConsole}, remote : Remotes \cup {NoRemote}]

Resps == {"none", "study_prepared", "study_completed", "study_error",
          "study_cancelled", "test_ok"}

NoReport == [resp |-> "none", console |-> NoConsole, remote |-> NoRemote,
             payload |-> NoFrame, sent |-> FALSE]

NoStudy == [id |-> 0, console |-> NoConsole, remote |-> NoRemote]

-----------------------------------------------------------------------------
(* Pieces of the handlers.                                                  *)

\* Mutant: the status is reset, the context of the study is kept
ResetStatus_StatusOnly ==
    /\ status' = "IDLE"
    /\ UNCHANGED ctx

\* resetIrisKitStatus
ResetStatus ==
    /\ status' = "IDLE"
    /\ ctx' = NoCtx

\* updateIrisKitStatus
UpdateStatus(s, c) ==
    /\ status' = s
    /\ ctx' = c

\* Mutant: enableIRIn without resume()
EnableIRIn_NoResume ==
    /\ UNCHANGED capture
    /\ attached' = TRUE
    /\ tail' = FALSE
    /\ led' = TRUE

\* enableIRIn: resume() drops what was captured, then the interrupt is attached
EnableIRIn ==
    /\ capture' = NoFrame
    /\ attached' = TRUE
    /\ tail' = FALSE
    /\ led' = TRUE

\* IRrecv::disableIRIn: the timer is disarmed, then the interrupt detached; an
\* edge between the two arms the timer again, and what it has is completed
Detach ==
    /\ attached' = FALSE
    /\ tail' \in IF attached /\ capture = NoFrame THEN BOOLEAN ELSE {FALSE}

\* Mutant: only the LED is switched off
DisableIRIn_LedOnly ==
    /\ led' = FALSE
    /\ UNCHANGED <<attached, tail, capture>>

\* disableIRIn: the interrupt is detached; what was captured stays in irparams
DisableIRIn ==
    /\ Detach
    /\ led' = FALSE
    /\ UNCHANGED capture

\* Mutant: the file of the previous study is kept
Removed_Kept(r) == files

\* removeReceived
Removed(r) == IF r = NoRemote THEN files ELSE [files EXCEPT ![r] = NoFrame]

\* loadReceived: the code of the file of remote r, nothing when it is missing
Loaded(r) == IF r = NoRemote THEN NoFrame ELSE files[r]

\* buildStudyCompletedIndication: the JSON document drops a payload it cannot hold
Payload(f) == IF f.size = "overDoc" THEN NoFrame ELSE f

\* sendData of an answer: publish fails offline and for an oversized packet
Send(resp, c, payload) ==
    report' = [resp    |-> resp,
               console |-> c.console,
               remote  |-> c.remote,
               payload |-> payload,
               sent    |-> online /\ payload.size # "overPacket"]

\* Mutant: the file is loaded before updateIrisKitStatus has named its remote
Studied_LoadedFirst(c) ==
    /\ DisableIRIn
    /\ IF Loaded(ctx.remote) # NoFrame
       THEN Send("study_completed", c, Payload(Loaded(ctx.remote)))
       ELSE Send("study_error", c, NoFrame)
    /\ UpdateStatus("UPLOADED", c)

\* case IRIS_KIT_STATUS_STUDIED of processStatusChange, from its two callers
Studied(c) ==
    /\ DisableIRIn
    /\ IF Loaded(c.remote) # NoFrame
       THEN Send("study_completed", c, Payload(Loaded(c.remote)))
       ELSE Send("study_error", c, NoFrame)
    /\ UpdateStatus("UPLOADED", c)

-----------------------------------------------------------------------------
(* loop(): the study state machine.                                         *)

\* recvIR finds a frame of at least six entries: decode copies and rearms
DecodeFrame ==
    /\ pc = "loop"
    /\ status = "READY_TO_STUDY"
    /\ capture \in Frames
    /\ capture.size # "noise"
    /\ code' = capture
    /\ capture' = NoFrame
    /\ pc' = "blink"
    /\ UNCHANGED <<status, ctx, attached, tail, led, files, online, report, study, asked>>

\* recvIR finds noise: decode has already rearmed the receiver
DecodeNoise ==
    /\ pc = "loop"
    /\ status = "READY_TO_STUDY"
    /\ capture \in Frames
    /\ capture.size = "noise"
    /\ capture' = NoFrame
    /\ pc' = "net"
    /\ UNCHANGED <<status, ctx, attached, tail, led, code, files, online, report, study, asked>>

\* recvIR, after the blinking: saveReceived.  It keeps the code; or its write
\* fails and leaves an empty file; or open fails, or there is no remote.  The string is not read again before the next decode clears it.
SaveReceived ==
    /\ pc = "blink"
    /\ led' = TRUE
    /\ \/ ctx.remote # NoRemote /\ files' = [files EXCEPT ![ctx.remote] = code]
       \/ ctx.remote # NoRemote /\ files' = [files EXCEPT ![ctx.remote] = NoFrame]
       \/ UNCHANGED files
    /\ code' = NoFrame
    /\ pc' = "saved"
    /\ UNCHANGED <<status, ctx, attached, tail, capture, online, report, study, asked>>

\* recvIR, the end: processStatusChange(IRIS_KIT_STATUS_STUDIED, ...)
FinishStudy ==
    /\ pc = "saved"
    /\ Studied(ctx)
    /\ pc' = "net"
    /\ UNCHANGED <<code, files, online, study, asked>>

\* an uploaded study is forgotten
ResetUploaded ==
    /\ pc = "loop"
    /\ status = "UPLOADED"
    /\ ResetStatus
    /\ pc' = "net"
    /\ UNCHANGED <<attached, tail, led, capture, code, files, online, report, study, asked>>

\* nothing to decode, or nothing to do
LoopIdle ==
    /\ pc = "loop"
    /\ \/ status = "READY_TO_STUDY" /\ capture = NoFrame
       \/ status = "IDLE"
    /\ pc' = "net"
    /\ UNCHANGED <<status, ctx, attached, tail, led, capture, code, files, online, report, study, asked>>

-----------------------------------------------------------------------------
(* keepAliveIot: the handler of one downstream message.                     *)

\* __notify_status with status 1: prepareStudyIR and study_prepared
NotifyReady(c) ==
    /\ pc = "net" /\ online
    /\ study.id < MaxStudies
    /\ UpdateStatus("READY_TO_STUDY", c)
    /\ files' = Removed(c.remote)
    /\ EnableIRIn
    /\ Send("study_prepared", c, NoFrame)
    /\ study' = [id |-> study.id + 1, console |-> c.console, remote |-> c.remote]
    /\ asked' = {c}
    /\ pc' = "tasks"
    /\ UNCHANGED <<code, online>>

\* __notify_status with status 2: the server ends the study itself
NotifyStudied(c) ==
    /\ pc = "net" /\ online
    /\ Studied(c)
    /\ asked' = {c}
    /\ pc' = "tasks"
    /\ UNCHANGED <<code, files, online, study>>

\* __notify_status with status 4: cancelStudyIR and study_cancelled
NotifyCancel(c) ==
    /\ pc = "net" /\ online
    /\ DisableIRIn
    /\ Send("study_cancelled", c, NoFrame)
    /\ ResetStatus
    /\ asked' = {c}
    /\ pc' = "tasks"
    /\ UNCHANGED <<code, files, online, study>>

\* __notify_status with status 10: test_ok to the console, then reset
NotifyTest(c) ==
    /\ pc = "net" /\ online
    /\ Send("test_ok", [console |-> c.console, remote |-> NoRemote], NoFrame)
    /\ ResetStatus
    /\ asked' = {c}
    /\ pc' = "tasks"
    /\ UNCHANGED <<attached, tail, led, capture, code, files, online, study>>

\* __emit_code with a code: the receiver is detached while its LED stays
EmitCode ==
    /\ pc = "net" /\ online
    /\ Detach
    /\ ResetStatus
    /\ pc' = "tasks"
    /\ UNCHANGED <<led, capture, code, files, online, report, study, asked>>

\* __emit_code whose content does not parse, or whose code cannot be split
EmitNothing ==
    /\ pc = "net" /\ online
    /\ ResetStatus
    /\ pc' = "tasks"
    /\ UNCHANGED <<attached, tail, led, capture, code, files, online, report, study, asked>>

\* no packet, or one that changes nothing here: another topic, unparsable, an
\* unknown event, __connected, __hb_response, another status, ids that differ
NetQuiet ==
    /\ pc = "net"
    /\ pc' = "tasks"
    /\ UNCHANGED <<status, ctx, attached, tail, led, capture, code, files, online, report, study, asked>>

\* keepAliveIot finds the session down and connectIot restores it
Reconnect ==
    /\ pc = "net" /\ ~online
    /\ online' = TRUE
    /\ pc' = "tasks"
    /\ UNCHANGED <<status, ctx, attached, tail, led, capture, code, files, report, study, asked>>

-----------------------------------------------------------------------------
(* The scheduled functions, after loop() has returned.                      *)

\* disable_ir_task is due, whatever the status
DisableTask ==
    /\ pc = "tasks"
    /\ DisableIRIn
    /\ asked' = {}
    /\ pc' = "loop"
    /\ UNCHANGED <<status, ctx, code, files, online, report, study>>

\* no ticker is due, or only checkIot, which sends a heartbeat
TasksQuiet ==
    /\ pc = "tasks"
    /\ asked' = {}
    /\ pc' = "loop"
    /\ UNCHANGED <<status, ctx, attached, tail, led, capture, code, files, online, report, study>>

-----------------------------------------------------------------------------
(* The world around the main loop.                                          *)

\* gpio_intr and read_timeout complete a frame; a complete one blocks the next
IRFrame ==
    /\ attached \/ tail
    /\ capture = NoFrame
    /\ \E s \in Sizes :
          capture' = [study |-> study.id, remote |-> study.remote, size |-> s]
    /\ tail' = FALSE
    /\ UNCHANGED <<status, ctx, attached, led, code, files, pc, online, report, study, asked>>

LinkDown ==
    /\ online
    /\ online' = FALSE
    /\ UNCHANGED <<status, ctx, attached, tail, led, capture, code, files, pc, report, study, asked>>

\* The state setup() leaves: status reset, receiver off, session connected
Booted ==
    /\ ResetStatus
    /\ attached' = FALSE
    /\ tail' = FALSE
    /\ led' = FALSE
    /\ capture' = NoFrame
    /\ code' = NoFrame
    /\ asked' = {}
    /\ online' = TRUE
    /\ pc' = "loop"

\* a power cut, __reboot, a failed reconnection, the end of an upgrade, or the
\* exception of splitting an empty code: memory is lost, files stay
Reboot ==
    /\ Booted
    /\ UNCHANGED <<files, report, study>>

\* wifiReset: the file system is formatted as well
FactoryReset ==
    /\ Booted
    /\ files' = [r \in Remotes |-> NoFrame]
    /\ UNCHANGED <<report, study>>

-----------------------------------------------------------------------------
Init ==
    /\ status = "IDLE"
    /\ ctx = NoCtx
    /\ attached = FALSE
    /\ tail = FALSE
    /\ led = FALSE
    /\ capture = NoFrame
    /\ code = NoFrame
    /\ files = [r \in Remotes |-> NoFrame]
    /\ pc = "loop"
    /\ online = TRUE
    /\ report = NoReport
    /\ study = NoStudy
    /\ asked = {}

LoopStep ==
    \/ DecodeFrame \/ DecodeNoise \/ SaveReceived \/ FinishStudy
    \/ ResetUploaded \/ LoopIdle

NetStep ==
    \/ \E c \in MsgCtxs :
          NotifyReady(c) \/ NotifyStudied(c) \/ NotifyCancel(c) \/ NotifyTest(c)
    \/ EmitCode \/ EmitNothing \/ NetQuiet \/ Reconnect

TaskStep == DisableTask \/ TasksQuiet

Main == LoopStep \/ NetStep \/ TaskStep

Next == Main \/ IRFrame \/ LinkDown \/ Reboot \/ FactoryReset

Spec == Init /\ [][Next]_vars

\* The main loop never stops, and the 600 s ticker keeps firing.
FairSpec == Spec /\ WF_vars(Main) /\ SF_vars(DisableTask)

-----------------------------------------------------------------------------
(* Properties.                                                              *)

Reports == [resp    : Resps,
            console : Consoles \cup {NoConsole},
            remote  : Remotes \cup {NoRemote},
            payload : Frames \cup {NoFrame},
            sent    : BOOLEAN]

\* The types of the variables; and, whichever handler ended the study, an idle
\* kit has no context, and recvIR runs in READY_TO_STUDY only.
TypeOK ==
    /\ status \in Statuses
    /\ ctx \in MsgCtxs
    /\ status = "IDLE" => ctx = NoCtx
    /\ attached \in BOOLEAN /\ tail \in BOOLEAN
    /\ led \in BOOLEAN
    /\ capture \in Frames \cup {NoFrame}
    /\ code \in Frames \cup {NoFrame}
    /\ files \in [Remotes -> Frames \cup {NoFrame}]
    /\ pc \in {"loop", "blink", "saved", "net", "tasks"}
    /\ pc \in {"blink", "saved"} => status = "READY_TO_STUDY"
    /\ online \in BOOLEAN
    /\ report \in Reports
    /\ study \in [id : Nat, console : Consoles \cup {NoConsole},
                  remote : Remotes \cup {NoRemote}]
    /\ asked \in {{}} \cup {{c} : c \in MsgCtxs}
    /\ asked # {} => pc = "tasks"

\* No code is ever reported under another remote's name: whether a study
\* ends by a key press, by the server's own STUDIED, or by STUDIED after a
\* restart that lost the context (recvIR, saveReceived and loadReceived all
\* derive the file name from g_iris_kit_status at different times).
CompletedOwnRemote ==
    report.resp = "study_completed" /\ report.payload # NoFrame
        => report.payload.remote = report.remote

\* An outcome that recvIR sends belongs to the study that is open: it goes
\* to the console that opened it, and a code in it was captured since its
\* study_prepared, never one left in the receiver or in the file by an
\* earlier study of the same remote.
FreshOutcome ==
    [][ FinishStudy =>
          /\ report'.console = study.console
          /\ report'.remote = study.remote
          /\ report'.payload # NoFrame => report'.payload.study = study.id ]_vars

\* While the kit is ready to study, what it may decode is of this study.
ReadyIsCurrent ==
    status = "READY_TO_STUDY" =>
        /\ study.id > 0
        /\ ctx = [console |-> study.console, remote |-> study.remote]
        /\ capture # NoFrame => capture.study = study.id /\ capture.remote = study.remote

\* The code recvIR holds while it blinks is of this study.
CodeIsCurrent ==
    IF pc = "blink" THEN code.study = study.id /\ code.remote = study.remote
                    ELSE code = NoFrame

\* A file holds a code of its own remote; the file of the remote being
\* studied holds one of this study.
FilesAreOwn ==
    \A r \in Remotes : files[r] # NoFrame =>
        /\ files[r].remote = r
        /\ files[r].study \in 1 .. study.id
        /\ status = "READY_TO_STUDY" /\ ctx.remote = r => files[r].study = study.id

\* Receiver, files and status agree on which study is going on, through
\* every interleaving of interrupts, messages, tickers and restarts.
StudyInv == ReadyIsCurrent /\ CodeIsCurrent /\ FilesAreOwn /\ study.id <= MaxStudies

\* READY_TO_STUDY is documented as "enter into IR receive mode": a kit that
\* is ready to study listens.
ReadyListens == status = "READY_TO_STUDY" => attached

\* UPLOADED says the outcome has left the kit.
UploadedMeansSent == status = "UPLOADED" => report.sent

\* Outside a study the receiver and its LED do not stay on, although a test
\* or a malformed emission ends a study without switching them off.
QuietEventually ==
    status # "READY_TO_STUDY" /\ (attached \/ led)
        ~> status = "READY_TO_STUDY" \/ ~(attached \/ led)

\* The promise to the server (module StudyService) is kept, whatever is in the
\* receiver and in the files: the outcome that recvIR sends goes to the console
\* of the open study with the code saved in that study, or is an error; and a
\* message is answered to the console it names, a STUDIED with the file of the
\* remote it names.
Service == INSTANCE StudyService WITH
    slot   <- IF status = "READY_TO_STUDY" THEN study ELSE NoStudy,
    opened <- study.id,
    kept   <- files

ServiceKept == Service!Spec
=============================================================================
