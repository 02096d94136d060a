---------------------------- MODULE Provisioning ----------------------------
(***************************************************************************)
(* From power-on to the credentials the kit runs with: setup() of           *)
(* iris_kit.cpp, loadSettings and saveSettings, the WiFiManager portal,     *)
(* authIrisKit with its retries, and wifiReset.                             *)
(*                                                                         *)
(* A credential is a token and the number of times its password has been    *)
(* hashed; the server accepts a good token whose password is hashed once.   *)
(* The file system commits a file as a whole when it is closed, so a        *)
(* settings file is the old one or the new one, whatever happens.           *)
(***************************************************************************)
EXTENDS Integers

CONSTANTS
    Good,     \* the token the server knows
    Typo,     \* another one
    RetryMax  \* CREDENTIAL_INIT_RETRY_MAX

ASSUME RetryAssumption == RetryMax \in Nat \ {0}

VARIABLES
    file,    \* flash: the settings file
    wifi,    \* flash: does the kit know a network
    loaded,  \* iris_kit_settings_loaded
    cur,     \* iris_credential_token and iris_password
    retry,   \* credential_init_retry
    pc,      \* where setup() is
    asked,   \* observation: was this erasure asked for
    apUp, serverUp,  \* environment: network and server can be reached
    settled  \* environment: nothing fails any more

flash == <<file, wifi>>
ram == <<loaded, cur, retry>>
world == <<apUp, serverUp, settled>>
vars == <<flash, ram, pc, asked, world>>

-----------------------------------------------------------------------------
(* Credentials.                                                             *)

NoToken == "empty"

ASSUME TokenAssumption == Good # Typo /\ NoToken \notin {Good, Typo}

Credentials == [token : {Good, Typo, NoToken}, hashed : 0 .. 2]

None == [token |-> NoToken, hashed |-> 0]

\* What is entered in the portal: the password as it is
Entered(t) == [token |-> t, hashed |-> 0]

Hashed(c) == [c EXCEPT !.hashed = @ + 1]

\* authIrisKit refuses an empty token itself, the server the others
Acceptable(c) == c.token = Good /\ c.hashed = 1

-----------------------------------------------------------------------------
(* setup().                                                                 *)

\* loadSettings; a file that cannot be opened or parsed counts as none
LoadSettings ==
    /\ pc = "boot"
    /\ \/ loaded' = (file # None) /\ cur' = file
       \/ ~settled /\ loaded' = FALSE /\ cur' = None
    /\ pc' = "connect"
    /\ UNCHANGED <<flash, retry, asked, world>>

\* Mutant: the password is hashed again after loading it
Use_AlwaysHashed(c) == cur' = Hashed(IF loaded THEN cur ELSE c)

\* The values of the portal count only when no settings were loaded.
Use(c) == cur' = IF loaded THEN cur ELSE Hashed(c)

\* autoConnect joins the network it knows; the fields of the portal keep their
\* defaults, with no token among them
Join ==
    /\ pc = "connect" /\ wifi /\ apUp
    /\ Use(None)
    /\ pc' = "auth"
    /\ UNCHANGED <<flash, loaded, retry, asked, world>>

\* It knows none, or the one it knows is out of reach: the portal opens, and
\* stays open until somebody fills it in
OpenPortal ==
    /\ pc = "connect"
    /\ ~wifi \/ ~apUp
    /\ pc' = "portal"
    /\ UNCHANGED <<flash, ram, asked, world>>

Submit(t) ==
    /\ pc = "portal" /\ apUp
    /\ wifi' = TRUE
    /\ Use(Entered(t))
    /\ pc' = "auth"
    /\ UNCHANGED <<file, loaded, retry, asked, world>>

Auth ==
    /\ pc = "auth"
    /\ apUp /\ serverUp /\ Acceptable(cur)
    /\ pc' = "save"
    /\ UNCHANGED <<flash, ram, asked, world>>

\* Mutant: one attempt too many
AuthFails_OneMore ==
    /\ pc = "auth"
    /\ ~(apUp /\ serverUp /\ Acceptable(cur))
    /\ retry' = retry + 1
    /\ pc' = IF retry >= RetryMax THEN "erase_fs" ELSE "auth"
    /\ asked' = FALSE
    /\ UNCHANGED <<flash, loaded, cur, world>>

\* a failed attempt; the last one erases everything
AuthFails ==
    /\ pc = "auth"
    /\ ~(apUp /\ serverUp /\ Acceptable(cur))
    /\ retry' = retry + 1
    /\ pc' = IF retry' >= RetryMax THEN "erase_fs" ELSE "auth"
    /\ asked' = FALSE
    /\ UNCHANGED <<flash, loaded, cur, world>>

\* Mutant: the old file is removed before the new one is written
SaveSettings_RemoveFirst ==
    /\ pc = "save"
    /\ file' \in IF settled THEN {cur} ELSE {cur, None}
    /\ pc' = "online"
    /\ UNCHANGED <<wifi, ram, asked, world>>

\* setIrisKitSettings and saveSettings, whose result is ignored
SaveSettings ==
    /\ pc = "save"
    /\ file' \in IF settled THEN {cur} ELSE {cur, file}
    /\ pc' = "online"
    /\ UNCHANGED <<wifi, ram, asked, world>>

\* loop()
Loop == pc = "online" /\ UNCHANGED vars

-----------------------------------------------------------------------------
(* Restarts and wifiReset.                                                  *)

\* Memory is lost.
Fresh ==
    /\ loaded' = FALSE /\ cur' = None /\ retry' = 0
    /\ asked' = FALSE
    /\ pc' = "boot"

\* LittleFS.format
EraseFiles ==
    /\ pc = "erase_fs"
    /\ file' = None
    /\ pc' = "erase_wifi"
    /\ UNCHANGED <<wifi, ram, asked, world>>

\* Mutant: the network is kept
EraseWifi_Kept ==
    /\ pc = "erase_wifi"
    /\ Fresh
    /\ UNCHANGED <<flash, world>>

\* resetSettings, WiFi.disconnect(true), ESP.restart
EraseWifi ==
    /\ pc = "erase_wifi"
    /\ wifi' = FALSE
    /\ Fresh
    /\ UNCHANGED <<file, world>>

\* the reset button at any moment, or handleReset when the kit is online
Reset ==
    /\ ~settled
    /\ pc' = "erase_fs"
    /\ asked' = TRUE
    /\ UNCHANGED <<flash, ram, world>>

\* handleReboot, a failed MQTT connect, or a power cut
Restart ==
    /\ ~settled
    /\ Fresh
    /\ UNCHANGED <<flash, world>>

-----------------------------------------------------------------------------
(* The environment.                                                         *)

WorldChanges ==
    /\ ~settled
    /\ apUp' \in BOOLEAN /\ serverUp' \in BOOLEAN
    /\ UNCHANGED <<flash, ram, pc, asked, settled>>

Settle ==
    /\ ~settled /\ apUp /\ serverUp
    /\ settled' = TRUE
    /\ UNCHANGED <<flash, ram, pc, asked, apUp, serverUp>>

\* Whoever fills in the portal gets it right in the end.
Input == IF settled THEN {Good} ELSE {Good, Typo, NoToken}

-----------------------------------------------------------------------------
Init ==
    /\ file = None /\ wifi = FALSE
    /\ loaded = FALSE /\ cur = None /\ retry = 0
    /\ pc = "boot" /\ asked = FALSE
    /\ apUp \in BOOLEAN /\ serverUp \in BOOLEAN
    /\ settled = FALSE

Setup ==
    \/ LoadSettings \/ Join \/ Auth \/ AuthFails \/ SaveSettings
    \/ EraseFiles \/ EraseWifi
    \/ OpenPortal \/ \E t \in Input : Submit(t)

Next == Setup \/ Loop \/ Reset \/ Restart \/ WorldChanges \/ Settle

Spec == Init /\ [][Next]_vars

\* setup() goes on, and somebody fills in the portal.
FairSpec == Spec /\ WF_vars(Setup)

-----------------------------------------------------------------------------
(* Properties.                                                              *)

Pcs == {"boot", "connect", "portal", "auth", "save", "online", "erase_fs", "erase_wifi"}

\* The types of the variables.
TypeOK ==
    /\ file \in Credentials /\ cur \in Credentials
    /\ wifi \in BOOLEAN /\ loaded \in BOOLEAN /\ asked \in BOOLEAN
    /\ apUp \in BOOLEAN /\ serverUp \in BOOLEAN /\ settled \in BOOLEAN
    /\ retry \in 0 .. RetryMax
    /\ pc \in Pcs

\* Only credentials the server has accepted are kept in flash, whoever enters
\* what, and whatever fails or is interrupted.
SavedAccepted == file # None => Acceptable(file)

\* authIrisKit and the MQTT login send the md5 of the password, never that of
\* its md5: the hash that was saved is not hashed again after a restart.
HashedOnce == pc \in {"auth", "save", "online"} => cur.hashed = 1

\* The kit goes online with accepted credentials only.
OnlineAccepted == pc = "online" => Acceptable(cur)

\* What makes the three of them hold: credentials are hashed on the way from
\* the portal, and on no other way; the attempts are counted from power-on.
ProvisionInv ==
    /\ SavedAccepted /\ HashedOnce /\ OnlineAccepted
    /\ pc \in {"connect", "portal"} => (loaded /\ Acceptable(cur)) \/ (~loaded /\ cur = None)
    /\ pc = "save" => Acceptable(cur)
    /\ pc \in {"boot", "connect", "portal", "auth"} => retry < RetryMax

\* Accepted credentials are lost only when a reset was asked for, or when
\* CREDENTIAL_INIT_RETRY_MAX attempts have failed since power-on; no other
\* failure, of a save or of the power, costs them.
Kept == [][file # None /\ file' = None => asked \/ retry = RetryMax]_vars

\* From every state, half-erased flash included, the kit comes online once the
\* network and the server stay up and the portal is filled in correctly.
OnlineInTheEnd == settled ~> [](pc = "online")

\* Settings are never in flash without the network they were accepted over:
\* a kit that has settings does not open its portal for want of a network.
CredentialsHaveNetwork == file # None => wifi

\* How many steps setup() has left at most, up to the loop or the restart
StepsLeft ==
    CASE pc = "boot"       -> RetryMax - retry + 5
      [] pc = "connect"    -> RetryMax - retry + 4
      [] pc = "portal"     -> RetryMax - retry + 3
      [] pc = "auth"       -> RetryMax - retry + 2
      [] pc = "erase_fs"   -> 2
      [] pc \in {"save", "erase_wifi"} -> 1
      [] OTHER             -> 0

\* setup() cannot retry for ever, whatever network and server do: each of its
\* steps takes it closer to the loop, or to the restart of wifiReset.
SetupAdvances == [][Setup /\ ~EraseWifi => StepsLeft' < StepsLeft]_vars

\* Flash as its owner may rely on it
Flash == INSTANCE Store WITH
    Accepted  <- {c \in Credentials : Acceptable(c)},
    Nothing   <- None,
    Attempts  <- RetryMax,
    stored    <- file,
    network   <- wifi,
    failed    <- retry,
    wanted    <- asked,
    condemned <- pc \in {"erase_fs", "erase_wifi"}

\* Whatever is entered, fails or is cut short, between the two erasures too:
\* flash holds accepted credentials with their network, or a network, or
\* nothing, and loses the credentials only on request or after the last attempt.
FlashKept == Flash!Spec
=============================================================================
