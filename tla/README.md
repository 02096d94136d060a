# IRIS Kit: a TLA+ verification project

IRIS Kit is firmware for an ESP8266 board that learns and plays infrared codes
for the IRext service. A *console* (a phone app, through the IRIS server) asks
the kit to study a remote control; the kit records the next key press, stores
the code in flash and sends it back over MQTT. Later the server sends codes to
emit. The firmware provisions itself through a WiFi portal, authenticates over
HTTP, keeps an MQTT session to Aliyun IoT or to an EMQX broker, and updates
itself over the air.

Paths below are relative to the repository root: the firmware is in `src/`, its
libraries in `lib/`.

## 1. Inventory

The firmware has one thread. `setup()` runs once; `loop()` runs for ever, and
the core runs the scheduled functions (two tickers) after each `loop()`. What
interleaves with it: two interrupts (the IR receiver pin and the reset button),
the timer of the IR receiver (a callback of the SDK, which runs only while the
main code yields), the network, and power.

| Component | State it keeps | Operations | What is hard about it | What makes it correct |
|---|---|---|---|---|
| Study state machine (`iris_client.cpp`, `ir_drv_ctrl.cpp`, `iris_kit.cpp`) | `g_iris_kit_status` (status, console, remote, key), `g_recv_ir_code_str`, one `.rcv` file per remote, receive LED | `processStatusChange`, `handleNotifyStatus`, `handleEmit`, `recvIR`, `resetIrisKitStatus`, `disable_ir_task` | one slot shared by all consoles; the receiver, the file and the status are changed by different handlers; key presses during the 300 ms of blinking; failed saves; power cuts | a code is reported for the study and the remote it was captured in, to the console that asked; the kit does not listen outside a study; every study ends |
| IR receiver (`lib/IRremoteESP8266/src/IRrecv.cpp`) | `irparams` (state, length, overflow, buffer), timer, attachment, the copy `decode` works on | `gpio_intr`, `read_timeout`, `enableIRIn`, `disableIRIn`, `resume`, `decode` | the interrupt falls between any two writes of the main code | a code is a run of consecutive intervals of one transmission |
| IR emission (`ir_drv_ctrl.cpp`, `utils.cpp`, `lib/IRremoteESP8266/src/IRsend.cpp`, `IRtimer.cpp`) | heap, `parts`, `series`, the timer of the carrier, send LED | `handleEmit`, `emitIR`, `split_string`, `sendRaw`, `mark`, `space` | each copy of the code may find no heap; memory that is never freed; an array whose size is known to nobody; 16-bit timings; a carrier made by busy waiting | what is emitted is what was captured; a code that fits is played |
| Messages (`iris_client.cpp`) | JSON documents, copies of the payload | `handleIrisKitMessage`, `processEvent`, seven handlers, the builders | messages come in any order and again | each handler leaves the kit able to take the next |
| Hub session (`iot_hub.cpp`) | `g_subscribed`, `g_mqtt_type`, `last_check_time` | `connectIot`, `keepAliveIot`, `checkIot`, `sendData` | flags that survive the session they describe | a connected kit hears its server |
| Aliyun client (`aliot_client.cpp`, `lib/AliyunIoTSDK`) | `mqttConnecting`, `retry_count`, `mqttStatus` | `begin`, `mqttCheckConnect`, `loop` | it reconnects behind the hub's back | a session is opened only with its own server and is subscribed |
| EMQX client (`emq_client.cpp`) | retry counter | `connectToEMQXBroker`, `emqxClientKeepAlive` | restarts the chip when it gives up | ditto |
| PubSubClient (`lib/PubSubClient`) | socket, `_state`, ping timer (`lastInActivity`, `lastOutActivity`, `pingOutstanding`) | `connect`, `connected`, `loop`, `publish`, `disconnect` | a half-open socket looks connected; one packet is read for each `loop()`, so the PINGRESP waits behind commands and their handlers | a dead link is noticed, a live one is kept |
| OTA manager (`ota_manager.cpp`) and version comparison | `current_ota_status`, pending URL and version, the staged image | `handleFirmwareUpdate`, `startOTAUpgrade`, `compareVersions` | repeated and late offers; power cuts and button resets during the download; sessions broken by the download | firmware moves up; the kit never stays busy; the server learns the outcome |
| Provisioning (`iris_kit.cpp`, `user_settings.cpp`, `http_client.cpp`) | settings file, WiFi credentials in flash, retry counter | `setup`, `loadSettings`, `saveSettings`, `authIrisKit`, `wifiReset` | a wrong entry, an unreachable server, a failed save or a power cut between two erasures | flash holds accepted credentials or none; accepted ones are not lost; the kit comes online |
| Reset button (`iris_kit.cpp`) | two static time stamps | `factoryReset` | bouncing contact, wrapping clock, clock ticks between two reads | a long press resets, a short one does not |
| LED driver, logging, globals, configuration | pins, log output | | none | |
| Vendored libraries: ArduinoJson, Crypto, RC-Switch, the IR protocol tables | | | | |

How they interact: `loop()` calls `recvIR` (study machine to receiver) and
`keepAliveIot` (hub to client to PubSubClient), which calls `iotCallback` for
one packet, hence a handler. Handlers call the study machine, the OTA manager,
`wifiRestart` or `wifiReset`, and `sendData` to answer. The button reaches
`wifiReset` from its interrupt. Everything shares the one main thread, so a
handler that blocks (an emission, a download, a connect loop) delays all others.

## 2. Modules

| Module | Code | Depends on |
|---|---|---|
| `StudyControl` | study state machine, files, receive LED, the loop and tickers around it | refines `StudyService`; uses `Receiver` |
| `StudyService` | what the server may rely on: one slot; its outcome goes, unasked and once, to the console that opened it and carries a code of that very study or an error; every other answer goes to the console that asked for it | |
| `IrCapture` | the receiver, interrupt against main code | refines `Receiver` |
| `Receiver` | the receiver as `StudyControl` uses it: opened, closed and emptied at once, with frames seen since it was opened | |
| `Emission` | a code from the message to the LED: copies, `split_string`, heap, `emitIR`, `sendRaw` and its carrier | refines `Playback` |
| `Playback` | what a console may rely on when it asks for a code: silence or the whole signal, in order and in time | |
| `MqttSession` | hub, Aliyun SDK, EMQX client and PubSubClient, sharing one client and one socket | refines `Session` |
| `KeepAlive` | the ping timer of PubSubClient, in time, against callbacks, torn packets and the broker | refines `Session` |
| `Session` | an MQTT session as the rest of the firmware and the server see it: opened subscribed by `connectIot` or deaf by the SDK, dying unnoticed, left when dead, lost alive only under strain | |
| `Version`, `Ota` | `compareVersions`; the update from offer to restart | `Ota` extends `Version` and refines `UpdateService` |
| `UpdateService` | what the server may rely on when it offers firmware: one fit update at a time, and it is told what runs | extends `Version` |
| `Provisioning` | `setup()` up to a saved credential, and the erasures | refines `Store` |
| `Store` | what flash may be relied on to hold: accepted credentials with their network, a network, or nothing | |
| `ResetButton` | `factoryReset`, read by read | |
| `*Proofs` | theorems about the module in their name | extends it and TLAPS |
| `MC*` | instances for TLC | extends it |

A definition named `X_Something` right before a definition `X` is a mutated form
of `X`, a plausible bug. It is not part of the specification; replacing `X` by it
breaks the property `PROJECT.json` pairs it with, which shows that the property
depends on that piece of code.

### StudyControl

`status`, `ctx` are `g_iris_kit_status` (key id and name travel with the console
and remote and are not kept apart); `attached` and `capture` are what the rest of
the firmware sees of `IrCapture`; `code` is `g_recv_ir_code_str` while `recvIR`
runs; `files` the `.rcv` files; `report` the last answer. `study` is a history
variable, the last study that was opened, and `asked` an observation: the study
message this pass of the loop deals with. `handleNotifyStatus` does not check the
console id it is sent, so that `MsgCtxs` has requests without a console too. `pc`
walks through one pass of the loop: `recvIR` up to the blink (`DecodeFrame`), the
save after it (`SaveReceived`), the outcome (`FinishStudy`); then `keepAliveIot`
with at most one packet (`Notify...`, `EmitCode`, `EmitNothing`); then the tickers
(`DisableTask`). `IRFrame`, `LinkDown` and `Reboot` happen at any `pc`.
`disableIRIn` disarms the timer before it detaches the interrupt, and an edge in
between arms it again: `tail` says that the receiver, although off, may still
complete one frame.

A frame has a size: `noise` is refused by `decodeHash`, `fits` travels,
`overPacket` outgrows `MQTT_MAX_PACKET_SIZE`, `overDoc` outgrows
`StaticJsonDocument<2048>`. Statuses that live only inside one handler
(`EMITTING`, `STUDIED` and the like) do not appear between steps.

`StudyService` tells two kinds of answer apart. While it deals with a request
(`asked`), the answer goes to the console that made the request: preparation,
cancellation, or, when the server itself sends STUDIED, what is kept for the remote
it names (`Reload`; the file may be of an older study). Without a request there is
one answer, the outcome of the open study (`Conclude`): to the console of the slot,
with what is kept for its remote. What is kept for a remote is discarded when a
study of it opens, and after that comes only from the study in the slot (`Capture`).
So an outcome sent to another console, sent twice, with the frame of another
remote or with that of an older study of the same remote is no step of the service.

### IrCapture

One write of the main code per step (`ResumeState`, `ResumeLength`,
`ResumeOverflow`, `AttachTimer`, `Attach`, `Detach`, `CopyParams`, `CopyBuffer`,
`DecodeClear`), and `GpioIntr` between any two. An entry of the buffer is the
pair of edges whose distance it holds, so that a wrong, stale or missing interval
is visible. An entry says which interval it is and not how long: the code stores
`(now - start) / kRawTick` in 16 bits (`IRrecv.cpp:69`), so that an interval above
131 ms, which only a code merged from two transmissions can hold, loses its upper
bits. `ReadTimeout` runs only where the main code yields (`rest`, `blink`):
the SDK's timer task does not preempt the Arduino task. Assumed: two
transmissions are further apart than the timeout plus the longest stretch of the
main code that does not yield.

`Receiver` is the same device with a `mode` (on, off, or `tail`, see above) and a
`frame`. A study opens the receiver in five writes with edges between any two of
them; the mapping takes the first of them (`Enable`) for the moment it opens,
and the history variable `since` keeps the last edge before it. `Frame` is
"fresh" when every edge in the buffer came after `since`, and "stale" otherwise:
as `Receiver` has no stale frame, `ReceiverKept` says that nothing captured
before a study is ever taken for that study.

### Emission

`pc` follows one message `__emit_code` through `handleIrisKitMessage`,
`processEvent`, `handleEmit` and `emitIR`. `heap`, `held`, `parts` and `leaked`
are a ledger of the bytes: free, held by handlers that free them, handed out by
`split_string`, and lost. Every copy of the code is an allocation that may fail,
with what the code does then: a `String` becomes empty, `split_string` frees what
it has, `strdup` of nothing crashes. `series` holds the timings cut to 16 bits and
`air` the lengths that went out, interval by interval. `spent` is the true length
of the running mark and `elapsed` what `IRtimer` tells, which is one microsecond
short after `micros()` has wrapped; the lengths of a pulse are computed with
unsigned differences, as in `IRsend::mark`. Messages that are no JSON end before
anything is modelled here and are left out.

Allocations are counted in bytes. `Chars` is the length of a key value as text (a
text of n timings has at least 2n - 1 characters) and `Cut(v, n)` what `strdup`
takes for its first n pieces, each a digit and a NUL at least
(`TextAssumption`); the configuration computes both from decimal digits and
commas. `Block` adds the header of the allocator and rounds up; `StringTakes` is a
`String` of the core, which keeps a short text inside the object and rounds the
buffer of a longer one. `Need` adds up what a message takes on its way: the copy
of the payload, the copies of the content and the names beside it, the copies of
the key value, the copy `strtok` cuts, and the pieces. Payload and
content are charged as if they were as long as their message, which is more than
they are; all else is what the code asks for, so that `Need` is not below it.

### KeepAlive

Time stamps are kept as ages, which is what `loop()` computes from them
(`t - lastInActivity`); `since` is the time since `t` was sampled, because the
code stamps a packet with the time at which `loop()` was entered. One packet is
read for each `loop()` (`ReadPublish`, `ReadPong`, `ReadTorn`), in the order in
which packets came: `ahead` and `later` count those before and behind the
PINGRESP. A torn packet holds `readByte` for `SocketTimeout`. A callback returns
within `Cycle`, except that an OTA download which fails comes back after a longer
time (`Overrun`). `Tick` is one unit of time and is bounded by what each party
may take; `deadFor`, `silent`, `asked` and `overran` observe. The kit subscribes
with QoS 0, so the PUBACK branch of `loop()` is never taken.

### MqttSession

`pc` walks through `connectIot` (the Aliyun loop, the EMQX loop, the
subscription) and `keepAliveIot` (the client's own loop, the SDK's 30 s check,
the hub's 10 s gate). `socket`, `state` are the kit's side of the session,
`alive`, `heard` the broker's: whether the session lives and holds the
subscription. `LinkDies` kills a session that the kit still believes in;
`PingTimeout` notices. That it notices dead sessions, and only those, is what
`KeepAlive` shows. `opener` observes which caller of `mqttCheckConnect`
opened the session.

### Version and Ota

Versions are four numbers, or a string that does not parse: `compareVersions` cuts
it at `_r`, the dots and `_c` with `indexOf`, and reads the parts with `toInt`. The server
(`Updates`) offers any release, custom image or nonsense, for this device class
or another, at any time and repeatedly. `StartUpdate` is the whole of
`handleFirmwareUpdate` up to the blocking download; `DownloadOk`,
`DownloadFailed`, `NoUpdates`, `EndUpdate` are `startOTAUpgrade`. The new image
runs after the restart that ends the update; a power cut loses the staged command,
and the old image runs again (`PowerCut`). `seen` and `told` are the server's
knowledge.

### Provisioning

A credential is a token and the number of times its password has been hashed.
`pc` walks through `setup()`; `Reset` and `Restart` interrupt it anywhere. Saving
may fail without notice (`saveSettings`' result is ignored), and so may loading: a
file that cannot be opened or parsed counts as none (`LoadSettings`), and the
ten attempts made without it end in its erasure. Power may go
between `LittleFS.format` (`EraseFiles`) and `resetSettings` (`EraseWifi`).
LittleFS commits a file when it is closed, so that a file is old or new, never
half. `AuthFails` stands for one pass of the retry loop, the five requests of
`httpPost` included. `asked` observes that a reset was asked for; it is the
`wanted` of `Store`, where flash is condemned either by a request or by the last
attempt, so that `FlashKept` says that nothing else erases it.

### ResetButton

Every read of `millis()` is a step and the clock may tick between them, once in a
call; the two reads that initialise the static variables, in the very first call
only, are part of `Enter`. `quiet` and `held` measure true time beside the wrapping clock; `raced`
and `stale` record the two coincidences named in section 3.

## 3. What is checked

Eight runs verify their module: safety, action and liveness properties, under the
fairness stated below. All end without an error, and deadlock is checked.

| Run | Distinct states | Properties |
|---|---|---|
| `study` | 604,140 | `CompletedOwnRemote`: no code under another remote's name.  `StudyInv`: receiver, file and status agree. `ServiceKept`: the machine implements `StudyService`, so the outcome of a study goes once, to the console that opened it, and carries the code saved in that study or an error; other answers go to whoever asked. `QuietEventually`: the receiver and its LED do not stay on outside a study |
| `ir` | 638,198 | `CodeIsContiguous`: a code is a run of consecutive intervals. `CopyStable`: nothing the copy reads changes meanwhile. `ReceiverKept`: the device implements `Receiver`, so no frame is older than its study. `FrameIsTaken`: a frame does not block the receiver |
| `emission` | 13,187 | `PartsFit`: `split_string` stays inside its caller's array. `HeapAccounted`: no path loses heap but the one that plays a code. `Replays`: a captured code goes out as it came in, but for a gap that 16 bits cannot hold. `KeyIsPlayed`: a code is given up, or the kit restarts over it, only when it was empty or the heap had fewer bytes than `Need` when it arrived. `PlaybackKept`: the kit implements `Playback`. `EmissionEnds`: every message is done with |
| `mqtt` | 5,250 | `HubSessionListens`: a live session of the hub is subscribed. `SessionKept`: hub, SDK and PubSubClient implement `Session`. `OwnServer`: each login goes to its own server. `ListensForGood`: once links hold, the kit comes back for good, to a subscribed session unless the SDK has reconnected by itself |
| `keepalive` | 352,254 | `NoFalseTimeout`: a live session is not given up, unless a callback overran. `BrokerServed`: the broker hears from a live kit before its patience ends. `DeadNoticed`, `DeadIsLeft`: a dead link is noticed within two keep-alives of the last packet that was still in the socket, and is left |
| `ota` | 5,640 | `UpdatesKept`: the handlers implement `UpdateService`, so firmware only moves to later releases or custom images, and the server never hears a version that does not run. `TakesCommands`: no busy status is left behind. `OutcomeHeard`: the server hears the version that runs after each announced attempt. `UpgradeLands`: a release that stays on offer is installed |
| `prov` | 1,445 | `ProvisionInv`: flash holds accepted credentials or none. `FlashKept`: the kit implements `Store`, so they are lost only on request or after the tenth failure, and stored ones always have their network. `OnlineInTheEnd`: the kit comes online from every state, half-erased flash included |
| `reset_button` | 30,912 | `OnlyLongPresses`, `LongPressSeen`, `HeldResets`: long presses reset the kit, short ones do not, but for two named coincidences |

Each run also checks the `TypeOK` of its module. The inductive invariants of the
proofs are run properties where they say something a reader cares about
(`StudyInv`, `ProvisionInv`); the others (`CaptureInv`, `FreshInv`, `EmissionInv`,
`SessionInv`, `KeepAliveInv`, `OtaInv`, `ButtonInv`) are proved in section 4.

### Bounds

- *Study*: three studies let one be superseded by the same remote of another
  console and then by another remote; two of each, no symmetry (it is unsound
  for the liveness properties of the run).
- *IR*: a buffer of three entries and transmissions of up to four edges give
  noise, an exact fit and an overflow; two transmissions give everything that
  may leak from one into the next. The theorems have no such bound.
- *Emission*: 16 bits are five and 32 are six; three captures (a single mark, one
  with a pause, one whose closing gap does not fit into 16 bits) and three other
  key values (empty, one number, one more than the array holds); packets up to
  and beyond `MaxPacket`; allocations with a header of one byte in blocks of two,
  Strings of up to three characters without a buffer; a heap of one message and a
  few lost codes, so that every allocation fails somewhere. The theorems have no
  such bound.
- *Keep-alive*: a backlog that takes exactly a keep-alive to work off, a torn
  packet, and an overrun longer than the keep-alive. `Tick` stops one unit after
  `DeadBound`, which `DeadNoticed` shows is never exceeded.
- *MQTT*: the retry limits are those of the code (3 and 5).
- *OTA*: four releases, each decided by another part of the version, so that a
  wrong order of the parts, a late offer and a chain of updates all occur.
- *Provisioning*: the retry limit is that of the code (10).
- *Button*: `Gap`, `Hold` and `Wrap` keep the order of 10, 3000 and 2^32; the
  button may be left alone for more than two turns of the clock.

### Fairness, and why the code justifies it

- *Main loop* (weak): nothing blocks it for ever. Connect loops have retry
  limits, the download has timeouts.
- *Tickers* (strong on `DisableTask`, `HeartBeat`, the 10 s gate and the ping
  timeout): they are due at every multiple of their period and run when the loop
  comes round.
- *The server repeats its offer* (strong), and *the portal is filled in
  correctly in the end* (`Provisioning`): assumptions about people and servers,
  not about the kit. Without the second the kit may sit in the portal for ever,
  because `autoConnect` is called without a timeout.
- `settled`: liveness of `MqttSession`, `Ota` and `Provisioning` is claimed from
  the moment failures stop, whatever happened before.
- *IR*: `DecodeClear` is strongly fair because `recvIR` is one of the things each
  pass of the loop does; edges have no fairness.
- *Emission*: the main loop goes on (`Emit`, weak); consoles, power and studies
  have no fairness.
- *Keep-alive*: `loop()` is called again and goes on (weak), and time passes
  (strong on `Tick`, which waits for `Loop` at the end of a cycle).
- *Button*: the interrupt is served and time passes.

### Where code and documentation disagree

| Run | Property | What happens |
|---|---|---|
| `study_listens` | `ReadyListens` | `disable_ir_task` detaches the receiver every 600 s, in the middle of a study too; the study stays open and deaf |
| `study_uploaded` | `UploadedMeansSent` | `sendData` drops the result of `publish`: an outcome produced offline, or too large, is marked as uploaded |
| `ir_bounds` | `ClearsInBuffer` | after a frame that fills the buffer, `decode` clears the entry past its end |
| `mqtt_deaf` | `SubscribedListens` | `AliyunIoTSDK::loop` reconnects without subscribing |

Seen while modelling, and not given a run of their own: a code that outgrows the
2048-byte JSON document is sent as null (`iris_client.cpp:440`; `StudyControl`
has the size `overDoc`, and `StudyService` allows the loss); an edge between the
first two writes of `resume()` puts the first interval of a code into entry 0,
which `recvIR` skips; what is entered in the portal is ignored when settings were
loaded, although the log asks for it (`iris_kit.cpp:145`, `:163`); the log says
that the kit resets after 3 attempts where `CREDENTIAL_INIT_RETRY_MAX` is 10
(`iris_kit.cpp:188`, `defines.h:50`). Further:

- `enableIRIn` on an attached receiver disarms the timer of an edge it has let in
  (`IRrecv.cpp:147`), so that two transmissions become one code; each entry is
  still the interval between two consecutive edges, which is what
  `CodeIsContiguous` says, but the one between the transmissions may be longer than
  131 ms and is then cut to 16 bits (`IRrecv.cpp:72`).
- `disableIRIn` disarms before it detaches (`IRrecv.cpp:157`): a receiver that is
  off may complete one more frame. The next study drops it (`ReceiverKept`).
- After one exhausted connect loop `mqttConnecting` stays set, and
  neither `AliyunIoTSDK::begin` nor the SDK's 30 s check dials again
  (`AliyunIoTSDK.cpp:156`): until a restart the kit depends on EMQX.
  `ListensForGood` holds nevertheless: EMQX is tried next, and its failure
  restarts the chip.
- `emitIR` loses the parts of each code it plays (`ir_drv_ctrl.cpp:91`), until
  codes are given up for want of heap. `HeapAccounted` names it as the only loss.
- Three times the longest gap is cut to 16 bits when it is emitted
  (`ir_drv_ctrl.cpp:94`); `Replays` excepts it.
- An empty key value, or one whose copy finds no heap, makes `split_string` call
  `strdup(nullptr)` (`utils.cpp:47`): the kit restarts.
- `IRtimer::elapsed` is one microsecond short once `micros()` has wrapped
  (`IRtimer.cpp:35`).
- `emitIR` turns the receiver off itself and leaves the receive LED of an open
  study lit.
- A code may be studied and stored that is too long to come back in a packet of
  2048 bytes; it can never be emitted.

Two coincidences in `factoryReset` contradict no text of the repository and are
exceptions in `OnlyLongPresses`: `end_time` is read before a new press sets
`start_time`, so a clock tick in between makes the difference wrap and a short
press erase the kit (`raced`); and a press that comes a whole number of turns of
the clock (49.7 days) after the last one counts as its continuation (`stale`).

## 4. What is proved

TLAPS checks the following for every value of the constants that satisfies the
named assumptions of the modules (`NamesAssumption`, `BoundsAssumption`,
`RetryAssumption`, ...): distinct names, natural bounds, and a non-empty set of
reachable brokers. Three assumptions carry an argument: a full backlog is worked
off within a keep-alive (`BacklogAssumption`; 60 s against handlers of less than
a second), the broker waits for a keep-alive and a cycle (`PatienceAssumption`;
MQTT grants half a keep-alive more), and half the buffer of PubSubClient is not
larger than `IR_SERIES_MAX` (`PacketAssumption`; 2048 and 1024).

| Module | Theorems | Argument |
|---|---|---|
| `StudyControlProofs` | `TypeCorrect`, `Invariance`, `OwnRemote`, `OutcomeIsFresh`, `ImplementsService`, `UsesReceiver`, `AdmitsReceiver` | `StudyInv` (what may be decoded, held or loaded while the kit is ready is of the open study) is inductive on top of `TypeOK`; `CompletedOwnRemote` needs `FilesAreOwn`, because the file name is computed from the context at three different times; each step then maps to a step or a stutter of `StudyService`: `FinishStudy` to its `Conclude`, as no request is dealt with then and the file of the slot's remote is of the slot's study; the handlers to what answers `asked`. The receiver: every step of the machine but a restart is a step of `Receiver` or leaves it alone, and every frame `Receiver` may complete by itself is a step of the machine; with `ImplementsReceiver` this ties the machine, which opens the receiver at once, to the device, which takes five writes |
| `IrCaptureProofs` | `TypeCorrect`, `CaptureInvariance`, `ContiguousCode`, `StableCopy`, `FreshInvariance`, `ImplementsReceiver` | `CaptureInv`: outside the one write where `resume()` has set the state but not yet the length, the buffer is a chain that ends with the last edge seen; the copy inherits the chain because the interrupt ignores edges in `kStopState`. `FreshInv`: what is in the buffer was seen since the study opened, and a complete frame has no timer; each write then maps to a step of `Receiver` or a stutter |
| `EmissionProofs` | `TypeCorrect`, `EmissionInvariance`, `HeapIsAccounted`, `PartsAlwaysFit`, `SendingIsDeaf`, `KeysArePlayed`, `CodesAreReplayed`, `ImplementsPlayback`, `EmissionAdvances` | `EmissionInv`: the ledger of the heap is balanced; the free bytes at each point are at least those at the beginning less what the copies made so far take (`PayloadTakes`, `ContentTakes`, `ValueTakes`, `CopyTakes`, `Cut`), so that a failed copy means that there were fewer than `Need`; a message of `MaxPacket` bytes holds at most `SeriesMax` timings (`PacketAssumption`); while a mark lasts, the true and the told time differ by at most one and no unsigned difference wraps. For `EmissionAdvances` the steps left of a message are a number: for each interval as many as its longest mark may last, less the time its mark has lasted |
| `MqttSessionProofs` | `TypeCorrect`, `SessionInvariance`, `HubListens`, `CredentialsKeepServer`, `ImplementsSession`, `ConnectEnds`, `ListeningIsKept` | `SessionInv`: while `connectIot` runs `g_subscribed` is clear, so it subscribes; a connected client knows it, so the SDK never dials over a session of the hub; the server set follows from where the kit is. `TypeOK` needs that a retry counter is below its limit while its loop runs. A dial inside `connectIot` is not yet a session of `Session`: it becomes one at the hook, or when the SDK's own loop made it. `ConnectEnds` counts the dials left in both loops |
| `KeepAliveProofs` | `TypeCorrect`, `KeepAliveInvariance`, `ServedInTime`, `DeathIsNoticed`, `LiveIsKept`, `ImplementsSession` | `KeepAliveInv` in four layers, each inductive on those before: the parts of a session agree; neither side is quiet for longer than a keep-alive at an entry of `loop()`; the PINGRESP moves up one place in each `loop()`; the age of a death is bounded by the packets read since, then by the incoming side, once before the ping and once after it. A client is strained, in the sense of `Session`, once a callback has overrun |
| `OtaProofs` | `TypeCorrect`, `ComparesAsOrder`, `ComparesTransitively`, `ComparesTotally`, `OtaInvariance`, `JobStaysFit`, `CommandsTaken`, `OnlyUpwards`, `ImplementsService`, `NewestIsKept`, `NeverBack` | the comparison agrees with the lexicographic order, and what `compareVersions` accepts one after another it would have accepted at once, malformed strings included; the running version does not change during a download, so the check of `handleFirmwareUpdate` still holds at its end. `NeverBack` adds a history variable, the releases left since the last custom image: the running one is later than each of them, by transitivity |
| `ProvisioningProofs` | `TypeCorrect`, `ProvisionInvariance`, `CredentialsKept`, `NetworkKept`, `ImplementsStore`, `SetupEnds` | credentials are hashed on the way from the portal and on no other; a file is written only after acceptance; erasures start only from a request or the last attempt. `FlashInv` adds what the order of the two erasures and of connection and save gives: stored credentials have a network |
| `ResetButtonProofs` | `TypeCorrect`, `ButtonInvariance`, `ShortPressKeeps`, `LongPressResets` | lemmas turn the remainders into sums (`SinceIs`, `TickSince`); `ButtonInv`: `last_interrupt_time` tells the true pause but for turns of the clock, so a press is known as new unless it is stale; `start_time` is late by at most one tick; a call that returns has found the press short, so that its length stays below a turn of the clock, which `ButtonAssumption` asks for; a race always ends in a reset |

The invariants as first stated are not inductive: that an outcome is fresh, for
example, says nothing about the file a failed save leaves behind; the
strengthening is part of the inductive invariant.

*Refinement.* Seven modules are proved to implement an abstract one: `StudyControl`
`StudyService`, `IrCapture` `Receiver`, `Emission` `Playback`, `MqttSession` and
`KeepAlive` the same `Session`, `Ota` `UpdateService`, `Provisioning` `Store`. The
abstract modules say in a page what another party may rely on, and each mapping
is an operator expression over the variables of the detailed module. In
`Session` a living session is lost only under strain: in `MqttSession` that is
the time before links and brokers settle, in `KeepAlive`, which has a clock, a
callback that has overrun. So what `MqttSession` assumes of timeouts once the
world has settled is what `KeepAlive` shows of them.

*Ends.* Liveness under fairness is out of the prover's reach, but its arithmetic is
not. `ConnectEnds`, `SetupEnds` and `EmissionAdvances` bound the steps that the
connect loops, `setup()` and a message have left, and show that each step takes
one away at least, whatever brokers, network and carrier do. This is why weak fairness of the main loop is
enough for `EmissionEnds` and, with the portal filled in, for `OnlineInTheEnd`.
`ListeningIsKept` and `NewestIsKept` are the other half of `ListensForGood` and
`UpgradeLands`: what is reached there is not lost again.

Only model-checked: all liveness properties, as the prover handles neither
fairness nor ENABLED. Every safety property of the passing runs is a theorem.
The other way round, `NoDowngrade` and `Kept` follow from the refinements the runs
check (`UpdatesKept`, `FlashKept`) and are proved by themselves (`OnlyUpwards`,
`CredentialsKept`). `FreshOutcome` says of the step of `recvIR` what `Conclude` says of
the slot; it is proved directly, as `OutcomeIsFresh`. `SendsDeaf`, the measures, `ListeningIsKept`, `NewestIsKept`, `NeverBack`, `NetworkKept` and the
refinement of `Session` by `KeepAlive` are theorems only.

## 5. What is not modelled, and modelling decisions

- `MqttSession` has no clock: a dead link times out at some time. `KeepAlive` gives
  it one, and justifies this for dead links and for sessions whose callbacks do
  not overrun; after an overrun a live session may be lost, which `MqttSession`
  has as a `LinkDies`. Both implement `Session`, which says how far they agree.
- Handlers other than a download are taken to be shorter than the keep-alive less
  the backlog. The longest is `emitIR`; the codes of ordinary remotes last less than a
  second, although the widths alone would allow more.
- The heap of `Emission` is one number of bytes: fragmentation, and what other
  components (the network stack above all) take and free during a message, are
  left out, so that `KeyIsPlayed` is about the handlers' own demand. Payload and
  content are charged as long as their message, and the names are taken together with it,
  because an event name that is lost ends the message like a content that is.
- The modelled build has `STORE_RECEIVED_IR_DATA` defined, as `platformio.ini`
  does. Boards differ in their LED pins; the blinks are modelled with their
  delays (the main code yields), which allows more interleavings than a board
  without LEDs has.
- JSON text, topics, log output, pin numbers, the generic config file and LED
  outputs are left out. `sendIR`, `downLoadFile`, `initAC` are called by nobody,
  `downloadBin` is declared only.
- `LittleFS.remove` is assumed to succeed.
- MQTT packets are not modelled: publishing succeeds when the session is up and
  the packet fits.
- `connectIot` and `setup` call `factoryReset()` on errors as if it reset the
  kit; called outside its interrupt it only refreshes time stamps.
  `connectToEMQXBroker` restarts the chip before `connectIot` reaches the call.
- Vendored libraries are modelled only where the firmware's behaviour depends on
  their state (IRrecv, IRsend, IRtimer, AliyunIoTSDK, PubSubClient). They are by
  far the largest part of the repository: the cryptographic library (of which the
  Aliyun login uses one hash), RC-Switch (unused), the examples that come with the
  libraries, and the protocol tables and decoders of IRremoteESP8266, which the
  build flags compile out. They keep no state the firmware depends on, and models
  of them would be models of other programs. Of the firmware proper, what is left
  out is listed above.

## 6. Plan

Done, in order of importance: study machine with its abstract service and
proofs; the receiver and its abstract counterpart; the MQTT session; OTA;
provisioning; the reset button; emission with its abstract playback; the
keep-alive; the abstract session, update service and store, with their refinement
proofs; bounds on the steps that connecting, setting up and emitting take.

Left:

1. `IrisKit`: the composition of `StudyControl` with `MqttSession` and `Ota`: a
   study across a reconnection, an update offered during a study.
2. The captured code as text: string, file and message and back, as operators
   with lemmas. `Emission` has both ends of that way.
