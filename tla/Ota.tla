--------------------------------- MODULE Ota ---------------------------------
(***************************************************************************)
(* Firmware update: handleFirmwareUpdate, handleReboot and handleReset of   *)
(* iris_client.cpp, startOTAUpgrade of ota_manager.cpp, and the messages    *)
(* that carry the running version to the server.                            *)
(*                                                                         *)
(* The server may send any message at any time and any number of times.     *)
(* startOTAUpgrade blocks the main loop, so no message is handled while it  *)
(* runs; power cuts and the reset button interrupt it anywhere.             *)
(***************************************************************************)
EXTENDS Version

CONSTANTS
    Releases, \* the versions there are
    Custom,  \* the version "custom"
    Newest   \* the release the server offers in the end

ASSUME CustomAssumption == Custom \notin Versions \cup {Malformed}

ASSUME ReleasesAssumption == Releases \subseteq Versions

ASSUME NewestAssumption ==
    Newest \in Releases /\ \A v \in Releases : CompareVersions(v, Newest) <= 0

VARIABLES
    fw,      \* the version that runs
    status,  \* current_ota_status
    job,     \* pending_firmware_url and pending_version: the update started last
    pc,      \* where the kit is: boot, loop, or inside startOTAUpgrade
    online,  \* is there an MQTT session
    seen,    \* the server: the version it heard of last
    told,    \* the server: what it was told last
    settled  \* environment: nothing fails any more

vars == <<fw, status, job, pc, online, seen, told, settled>>

-----------------------------------------------------------------------------
(* Messages.  A URL serves the release that is announced with it; behind a  *)
(* custom version or a malformed one there may be any image.                *)

Update(name, version, image) == [name |-> name, version |-> version, image |-> image]

Updates ==
    {Update("own", v, v) : v \in Releases}
        \cup {Update(n, v, i) : n \in {"own", "other"}, v \in {Custom, Malformed}, i \in Releases}

NoJob == Update("none", Malformed, Newest)

-----------------------------------------------------------------------------
(* The server hears the running version in connect and heart beat; what is  *)
(* published may be lost.                                                   *)

Publish(what) == told' \in IF settled THEN {what} ELSE {what, told}

\* Mutant: the message carries pending_version
PublishVersion_Pending ==
    \/ told' = "version" /\ seen' = job.version
    \/ ~settled /\ UNCHANGED <<told, seen>>

PublishVersion ==
    \/ told' = "version" /\ seen' = fw
    \/ ~settled /\ UNCHANGED <<told, seen>>

\* setup: connectIot publishes connect, initOTA resets the status
Boot ==
    /\ pc = "boot"
    /\ pc' = "loop"
    /\ status' = "IDLE"
    /\ online' = TRUE
    /\ PublishVersion
    /\ UNCHANGED <<fw, job, settled>>

\* keepAliveIot opens a new session and publishes connect
Reconnect ==
    /\ pc = "loop" /\ ~online
    /\ online' = TRUE
    /\ PublishVersion
    /\ UNCHANGED <<fw, status, job, pc, settled>>

HeartBeat ==
    /\ pc = "loop" /\ online
    /\ PublishVersion
    /\ UNCHANGED <<fw, status, job, pc, online, settled>>

\* A restart; what was staged is copied by the boot loader, unless the command
\* for it was lost with the power
Restart(staged) ==
    /\ pc' = "boot"
    /\ fw' = IF staged THEN job.image ELSE fw
    /\ status' = "IDLE"
    /\ job' = NoJob
    /\ online' = FALSE

-----------------------------------------------------------------------------
(* Handlers.                                                                *)

Busy == status \in {"DOWNLOADING", "REBOOTING"}

\* the version is not custom and not greater than the running one
Refused(m) ==
    m.version # Custom /\ CompareVersions(m.version, fw) <= 0

\* the update is refused, and the server told so, over the same session
RefuseUpdate(m) ==
    /\ pc = "loop" /\ online /\ ~Busy
    /\ m.name = "other" \/ Refused(m)
    /\ Publish("failed")
    /\ UNCHANGED <<fw, status, job, pc, online, seen, settled>>

\* startOTAUpgrade, up to the download; "connection may be broken" then, for
\* ESPhttpUpdate takes the client of the MQTT session
StartUpdate(m) ==
    /\ pc = "loop" /\ online /\ ~Busy
    /\ m.name = "own" /\ ~Refused(m)
    /\ job' = m
    /\ status' = "DOWNLOADING"
    /\ Publish("downloading")
    /\ pc' = "download"
    /\ online' \in BOOLEAN
    /\ UNCHANGED <<fw, seen, settled>>

\* handleReboot and handleReset: wifiRestart, or wifiReset which ends in a
\* restart too
RebootCommand ==
    /\ pc = "loop" /\ online /\ ~Busy /\ ~settled
    /\ Restart(FALSE)
    /\ UNCHANGED <<seen, told, settled>>

-----------------------------------------------------------------------------
(* startOTAUpgrade, from the download on.                                   *)

\* HTTP_UPDATE_OK: the image is staged; a restart follows in half a second
DownloadOk ==
    /\ pc = "download"
    /\ status' = "SUCCESS"
    /\ pc' = "installed"
    /\ UNCHANGED <<fw, job, online, seen, told, settled>>

DownloadFailed ==
    /\ pc = "download" /\ ~settled
    /\ status' = "FAILED"
    /\ pc' = "failed"
    /\ UNCHANGED <<fw, job, online, seen, told, settled>>

\* Mutant: the status is left as it is
NoUpdates_StillBusy ==
    /\ pc = "download" /\ ~settled
    /\ pc' = "loop"
    /\ UNCHANGED <<fw, status, job, online, seen, told, settled>>

\* HTTP_UPDATE_NO_UPDATES: back to the loop, without a session
NoUpdates ==
    /\ pc = "download" /\ ~settled
    /\ status' = "IDLE"
    /\ pc' = "loop"
    /\ UNCHANGED <<fw, job, online, seen, told, settled>>

\* OTA_STATUS_REBOOTING, ESP.restart
EndUpdate ==
    /\ pc \in {"installed", "failed"}
    /\ Restart(pc = "installed")
    /\ UNCHANGED <<seen, told, settled>>

-----------------------------------------------------------------------------
(* The environment.                                                         *)

LinkDies ==
    /\ ~settled /\ online
    /\ online' = FALSE
    /\ UNCHANGED <<fw, status, job, pc, seen, told, settled>>

\* the reset button, or a restart after failed connects: ESP.restart
ResetButton ==
    /\ ~settled
    /\ Restart(pc = "installed")
    /\ UNCHANGED <<seen, told, settled>>

PowerCut ==
    /\ ~settled
    /\ Restart(FALSE)
    /\ UNCHANGED <<seen, told, settled>>

Settle ==
    /\ ~settled
    /\ settled' = TRUE
    /\ UNCHANGED <<fw, status, job, pc, online, seen, told>>

-----------------------------------------------------------------------------
Init ==
    /\ fw \in Releases
    /\ status = "IDLE" /\ job = NoJob
    /\ pc = "boot" /\ online = FALSE
    /\ seen = Malformed /\ told = "none"
    /\ settled = FALSE

\* Once the world is settled the server offers the newest release only.
Offered == IF settled THEN {Update("own", Newest, Newest)} ELSE Updates

Handler == RebootCommand \/ \E m \in Offered : RefuseUpdate(m) \/ StartUpdate(m)

Upgrade == DownloadOk \/ DownloadFailed \/ NoUpdates \/ EndUpdate

Next ==
    \/ Boot \/ Reconnect \/ HeartBeat \/ Handler \/ Upgrade
    \/ LinkDies \/ ResetButton \/ PowerCut \/ Settle

Spec == Init /\ [][Next]_vars

\* setup, the keep-alive and the upgrade go on; the heart beat is due again and
\* again; the server repeats its offer.
FairSpec ==
    /\ Spec
    /\ WF_vars(Boot) /\ WF_vars(Reconnect) /\ WF_vars(Upgrade)
    /\ SF_vars(HeartBeat)
    /\ SF_vars(\E m \in Offered : StartUpdate(m))

-----------------------------------------------------------------------------
(* Properties.                                                              *)

Updating == {"download", "installed"}

\* The types of the variables.
TypeOK ==
    /\ fw \in Releases
    /\ status \in {"IDLE", "DOWNLOADING", "SUCCESS", "FAILED", "REBOOTING"}
    /\ job \in Updates \cup {NoJob}
    /\ pc \in {"boot", "loop", "failed"} \cup Updating
    /\ online \in BOOLEAN /\ settled \in BOOLEAN
    /\ seen \in Releases \cup {Malformed}
    /\ told \in {"none", "version", "downloading", "failed"}

\* The update under way is for this device class, and custom or newer than the
\* running version: the check of handleFirmwareUpdate still holds at the end of
\* a download that took minutes.
JobFits ==
    pc \in Updating =>
        /\ job.name = "own"
        /\ job.version = Custom \/ Later(job.image, fw)

\* handleFirmwareUpdate never replaces the firmware by an older one or the same
\* again, however often and in whatever order offers arrive, unless the image
\* is a custom one: every release is installed once.
NoDowngrade ==
    [][(fw' # fw \/ (EndUpdate /\ pc = "installed")) =>
           (job.version = Custom \/ Later(fw', fw))]_vars

\* The busy statuses end with startOTAUpgrade: back in the loop the kit takes
\* commands again.
TakesCommands == pc \in {"boot", "loop"} => status = "IDLE"

\* "server will detect failure via unchanged version": after an attempt was
\* announced the server hears the version that runs then.
OutcomeHeard == (told = "downloading" /\ settled) ~> (told = "version" /\ seen = fw)

\* A release that stays on offer is installed in the end, whatever happened
\* before.
UpgradeLands == settled ~> [](fw = Newest)

\* What UpgradeLands reaches is kept: a newest release that stays on offer is
\* refused by the kit that runs it, not installed again and again.
NewestStays ==
    [][settled /\ fw = Newest /\ pc \notin Updating
           => (fw = Newest /\ pc \notin Updating)']_vars

\* What the server may rely on.  The update is under way from the moment
\* handleFirmwareUpdate has let it in until the restart into it.
Service == INSTANCE UpdateService WITH
    Offers  <- Updates,
    NoOffer <- NoJob,
    running <- fw,
    update  <- IF pc \in Updating THEN job ELSE NoJob,
    known   <- seen

\* However offers are repeated or come late, and wherever the power or the
\* button ends an update: one at a time, none that does not fit, and no
\* version is reported that does not run or while it may still change.
UpdatesKept == Service!Spec
=============================================================================
