------------------------------ MODULE OtaProofs ------------------------------
(***************************************************************************)
(* Theorems about Version and Ota, for every set of releases.               *)
(***************************************************************************)
EXTENDS Ota, TLAPS

-----------------------------------------------------------------------------
(* compareVersions.                                                         *)

\* Later, field by field
LEMMA LaterFields ==
    ASSUME NEW a \in Versions, NEW b \in Versions
    PROVE  Later(a, b) <=>
              \/ a.major > b.major
              \/ a.major = b.major /\ a.minor > b.minor
              \/ a.major = b.major /\ a.minor = b.minor /\ a.patch > b.patch
              \/ /\ a.major = b.major /\ a.minor = b.minor /\ a.patch = b.patch
                 /\ a.release > b.release
<1> DEFINE After(i) == /\ a[Fields[i]] > b[Fields[i]]
                       /\ \A j \in 1 .. i - 1 : a[Fields[j]] = b[Fields[j]]
<1>1. Later(a, b) <=> After(1) \/ After(2) \/ After(3) \/ After(4)
  BY DEF Later
<1>2. /\ After(1) <=> a.major > b.major
      /\ After(2) <=> a.major = b.major /\ a.minor > b.minor
  BY DEF Fields
<1>3. After(3) <=> a.major = b.major /\ a.minor = b.minor /\ a.patch > b.patch
  BY DEF Fields
<1>4. After(4) <=> /\ a.major = b.major /\ a.minor = b.minor /\ a.patch = b.patch
                   /\ a.release > b.release
  BY DEF Fields
<1> QED
  BY <1>1, <1>2, <1>3, <1>4

\* compareVersions orders versions by their numbers, from the left, and answers
\* 0 to a string it cannot parse.
THEOREM ComparesAsOrder ==
    ASSUME NEW a \in Versions \cup {Malformed}, NEW b \in Versions \cup {Malformed}
    PROVE  ComparesRight(a, b)
<1>1. CASE Malformed \in {a, b}
  BY <1>1 DEF ComparesRight, CompareVersions
<1>2. CASE Malformed \notin {a, b}
  <2>1. a \in Versions /\ b \in Versions
    BY <1>2
  <2>2. /\ {a.major, a.minor, a.patch, a.release} \subseteq Int
        /\ {b.major, b.minor, b.patch, b.release} \subseteq Int
    BY <2>1, VersionAssumption DEF Versions
  <2>3. CompareVersions(a, b) = 1 <=> Later(a, b)
    BY <1>2, <2>1, <2>2, LaterFields DEF CompareVersions, Sign
  <2>4. CompareVersions(a, b) = -1 <=> Later(b, a)
    BY <1>2, <2>1, <2>2, LaterFields DEF CompareVersions, Sign
  <2> QED
    BY <1>2, <2>3, <2>4 DEF ComparesRight
<1> QED
  BY <1>1, <1>2

\* No version is later than itself, and being later is transitive.
LEMMA LaterIsStrict ==
    ASSUME NEW a \in Versions, NEW b \in Versions, NEW c \in Versions
    PROVE  ~Later(a, a) /\ (Later(a, b) /\ Later(b, c) => Later(a, c))
<1>1. /\ {a.major, a.minor, a.patch, a.release} \subseteq Int
      /\ {b.major, b.minor, b.patch, b.release} \subseteq Int
      /\ {c.major, c.minor, c.patch, c.release} \subseteq Int
  BY VersionAssumption DEF Versions
<1>2. ~Later(a, a)
  BY <1>1, LaterFields
<1>3. Later(a, b) /\ Later(b, c) => Later(a, c)
  BY <1>1, LaterFields
<1> QED
  BY <1>2, <1>3

\* Offers that handleFirmwareUpdate accepts one after another cannot lead back:
\* compareVersions finds the last of them later than what ran before the first,
\* whatever was offered, strings that do not parse included.
THEOREM ComparesTransitively ==
    ASSUME NEW a \in Versions \cup {Malformed}, NEW b \in Versions \cup {Malformed},
           NEW c \in Versions \cup {Malformed},
           CompareVersions(a, b) > 0, CompareVersions(b, c) > 0
    PROVE  CompareVersions(a, c) > 0 /\ a # c
<1>1. ASSUME NEW x \in Versions \cup {Malformed}, NEW y \in Versions \cup {Malformed},
             CompareVersions(x, y) > 0
      PROVE  x \in Versions /\ y \in Versions /\ Later(x, y)
  <2>1. x # Malformed /\ y # Malformed
    BY <1>1 DEF CompareVersions
  <2>2. CompareVersions(x, y) = 1
    BY <1>1, <2>1 DEF CompareVersions, Sign
  <2> QED
    BY <2>1, <2>2, ComparesAsOrder DEF ComparesRight
<1>2. a \in Versions /\ b \in Versions /\ c \in Versions /\ Later(a, b) /\ Later(b, c)
  BY <1>1
<1>3. Later(a, c) /\ ~Later(a, a)
  BY <1>2, LaterIsStrict
<1>4. Malformed \notin {a, c}
  BY <1>2, VersionAssumption
<1>5. CompareVersions(a, c) = 1
  BY <1>2, <1>3, <1>4, ComparesAsOrder DEF ComparesRight
<1> QED
  BY <1>3, <1>5

\* compareVersions answers 0 to equal versions only, and changes its sign when the
\* versions change places: an offer is either installed over what runs, or what
\* runs would be installed over it, or they are the same.
THEOREM ComparesTotally ==
    ASSUME NEW a \in Versions, NEW b \in Versions
    PROVE  /\ CompareVersions(a, b) = 0 <=> a = b
           /\ CompareVersions(b, a) = 0 - CompareVersions(a, b)
<1>1. /\ {a.major, a.minor, a.patch, a.release} \subseteq Int
      /\ {b.major, b.minor, b.patch, b.release} \subseteq Int
      /\ Malformed \notin {a, b}
  BY VersionAssumption DEF Versions
<1>2. a = b <=> /\ a.major = b.major /\ a.minor = b.minor
                /\ a.patch = b.patch /\ a.release = b.release
  BY DEF Versions
<1>3. CompareVersions(a, b) = 0 <=> a = b
  BY <1>1, <1>2 DEF CompareVersions, Sign
<1>4. CompareVersions(b, a) = 0 - CompareVersions(a, b)
  BY <1>1 DEF CompareVersions, Sign
<1> QED
  BY <1>3, <1>4

-----------------------------------------------------------------------------
(* The state machine.                                                       *)

OtaInv == TypeOK /\ JobFits /\ TakesCommands

LEMMA NoJobType == NoJob \in Updates \cup {NoJob} /\ NoJob.image \in Releases
BY NewestAssumption DEF NoJob, Update

LEMMA UpdateType ==
    ASSUME NEW m \in Updates
    PROVE  /\ m.name \in {"own", "other"}
           /\ m.image \in Releases
           /\ m.version \in {Custom, Malformed} \/ m.version = m.image
BY DEF Updates, Update

LEMMA OfferedType == Offered \subseteq Updates
BY NewestAssumption DEF Offered, Updates

LEMMA JobImage == TypeOK => job.image \in Releases
BY UpdateType, NoJobType DEF TypeOK

LEMMA OtaInit == Init => OtaInv
BY NoJobType DEF Init, OtaInv, TypeOK, JobFits, TakesCommands, Updating

\* What handleFirmwareUpdate lets through is newer than what runs.
LEMMA StartedIsLater ==
    ASSUME TypeOK, NEW m \in Updates, ~Refused(m)
    PROVE  m.version = Custom \/ Later(m.image, fw)
<1> SUFFICES ASSUME m.version # Custom PROVE Later(m.image, fw)
  OBVIOUS
<1>1. CompareVersions(m.version, fw) > 0
  <2>1. CompareVersions(m.version, fw) \in {0, 1, -1}
    BY DEF CompareVersions, Sign
  <2> QED
    BY <2>1 DEF Refused
<1>2. m.version # Malformed
  BY <1>1 DEF CompareVersions
<1>3. m.version = m.image /\ m.image \in Versions /\ fw \in Versions
  BY <1>2, UpdateType, ReleasesAssumption DEF TypeOK
<1>4. CompareVersions(m.image, fw) = 1
  BY <1>1, <1>3, VersionAssumption DEF CompareVersions, Sign
<1> QED
  BY <1>3, <1>4, ComparesAsOrder, VersionAssumption DEF ComparesRight

LEMMA RestartStep ==
    ASSUME OtaInv, NEW staged \in BOOLEAN, Restart(staged), UNCHANGED <<seen, told, settled>>
    PROVE  OtaInv'
BY JobImage, NoJobType
   DEF Restart, OtaInv, TypeOK, JobFits, TakesCommands, Updating

LEMMA OtaStep == OtaInv /\ [Next]_vars => OtaInv'
<1> SUFFICES ASSUME OtaInv, [Next]_vars PROVE OtaInv'
  OBVIOUS
<1> USE DEF OtaInv, TypeOK, JobFits, TakesCommands, Updating
<1>1. CASE Boot \/ Reconnect \/ HeartBeat
  BY <1>1 DEF Boot, Reconnect, HeartBeat, PublishVersion
<1>2. CASE RebootCommand \/ EndUpdate \/ ResetButton \/ PowerCut
  BY <1>2, RestartStep DEF RebootCommand, EndUpdate, ResetButton, PowerCut
<1>3. ASSUME NEW m \in Offered, RefuseUpdate(m) PROVE OtaInv'
  BY <1>3 DEF RefuseUpdate, Publish
<1>4. ASSUME NEW m \in Offered, StartUpdate(m) PROVE OtaInv'
  <2>1. m \in Updates
    BY OfferedType
  <2>2. m.version = Custom \/ Later(m.image, fw)
    BY <1>4, <2>1, StartedIsLater DEF StartUpdate
  <2> QED
    BY <1>4, <2>1, <2>2 DEF StartUpdate, Publish
<1>5. CASE DownloadOk \/ DownloadFailed \/ NoUpdates
  BY <1>5 DEF DownloadOk, DownloadFailed, NoUpdates
<1>6. CASE LinkDies \/ Settle
  BY <1>6 DEF LinkDies, Settle
<1>7. CASE UNCHANGED vars
  BY <1>7 DEF vars
<1> QED
  BY <1>1, <1>2, <1>3, <1>4, <1>5, <1>6, <1>7 DEF Next, Handler, Upgrade

THEOREM OtaInvariance == Spec => []OtaInv
<1>1. Init => OtaInv
  BY OtaInit
<1>2. OtaInv /\ [Next]_vars => OtaInv'
  BY OtaStep
<1> QED
  BY <1>1, <1>2, PTL DEF Spec

\* The check of handleFirmwareUpdate still holds when the download has ended.
THEOREM JobStaysFit == Spec => []JobFits
<1>1. OtaInv => JobFits
  BY DEF OtaInv
<1> QED
  BY <1>1, OtaInvariance, PTL

\* The busy statuses never outlive startOTAUpgrade.
THEOREM CommandsTaken == Spec => []TakesCommands
<1>1. OtaInv => TakesCommands
  BY DEF OtaInv
<1> QED
  BY <1>1, OtaInvariance, PTL

\* The firmware is only ever replaced by a later release, or by a custom image.
THEOREM OnlyUpwards == Spec => NoDowngrade
<1>1. OtaInv /\ [Next]_vars
        => [(fw' # fw \/ (EndUpdate /\ pc = "installed")) =>
                (job.version = Custom \/ Later(fw', fw))]_vars
  <2> SUFFICES ASSUME OtaInv, Next, fw' # fw \/ (EndUpdate /\ pc = "installed")
               PROVE  job.version = Custom \/ Later(fw', fw)
    BY DEF vars
  <2>1. CASE EndUpdate \/ ResetButton
    BY <2>1 DEF EndUpdate, ResetButton, Restart, OtaInv, JobFits, Updating
  <2>2. CASE PowerCut \/ RebootCommand
    BY <2>2 DEF PowerCut, RebootCommand, Restart, EndUpdate, OtaInv, JobFits, Updating
  <2>3. CASE Boot \/ Reconnect \/ HeartBeat \/ DownloadOk \/ DownloadFailed \/ NoUpdates
                \/ LinkDies \/ Settle
    BY <2>3 DEF Boot, Reconnect, HeartBeat, DownloadOk, DownloadFailed, NoUpdates, LinkDies,
                Settle, EndUpdate, Restart
  <2>4. ASSUME NEW m, RefuseUpdate(m) \/ StartUpdate(m) PROVE FALSE
    BY <2>4 DEF RefuseUpdate, StartUpdate, EndUpdate
  <2> QED
    BY <2>1, <2>2, <2>3, <2>4 DEF Next, Handler, Upgrade
<1> QED
  BY <1>1, OtaInvariance, PTL DEF Spec, NoDowngrade

\* The update under way, the versions and the server's knowledge keep their types.
THEOREM TypeCorrect == Spec => []TypeOK
<1>1. OtaInv => TypeOK
  BY DEF OtaInv
<1> QED
  BY <1>1, OtaInvariance, PTL

-----------------------------------------------------------------------------
(* The promise to the server.                                               *)

LEMMA JobIsOffer == OtaInv /\ pc \in Updating => job \in Updates /\ job # NoJob
BY DEF OtaInv, TypeOK, JobFits, NoJob, Update

\* A restart is an update that is installed or given up, or nothing at all.
LEMMA RestartServes ==
    ASSUME OtaInv, NEW staged \in BOOLEAN, staged => pc = "installed",
           Restart(staged), UNCHANGED <<seen, told>>
    PROVE  Service!Install \/ Service!Abandon
<1>1. CASE staged
  <2>1. pc \in Updating /\ pc' \notin Updating /\ fw' = job.image
    BY <1>1 DEF Restart, Updating
  <2> QED
    BY <2>1, JobIsOffer DEF Service!Install
<1>2. CASE ~staged
  BY <1>2 DEF Service!Abandon, Restart, Updating
<1> QED
  BY <1>1, <1>2

\* Every step of the kit is a step of the service or leaves it alone.
LEMMA ServiceStep == OtaInv /\ [Next]_vars => [Service!Next]_(Service!vars)
<1> SUFFICES ASSUME OtaInv, [Next]_vars
             PROVE  Service!Next \/ UNCHANGED Service!vars
  OBVIOUS
<1>q. ASSUME UNCHANGED <<fw, seen, told>>, pc \notin Updating, pc' \notin Updating
      PROVE  UNCHANGED Service!vars
  BY <1>q DEF Service!vars
<1>1. CASE Boot \/ Reconnect \/ HeartBeat
  <2>1. pc \notin Updating /\ pc' \notin Updating /\ fw' = fw /\ PublishVersion
    BY <1>1 DEF Boot, Reconnect, HeartBeat, Updating
  <2>2. CASE told' = "version" /\ seen' = fw
    BY <2>1, <2>2 DEF Service!Report, Service!Next
  <2>3. CASE UNCHANGED <<told, seen>>
    BY <1>q, <2>1, <2>3
  <2> QED
    BY <2>1, <2>2, <2>3 DEF PublishVersion
<1>2. CASE RebootCommand \/ EndUpdate \/ ResetButton \/ PowerCut
  BY <1>2, RestartServes
     DEF RebootCommand, EndUpdate, ResetButton, PowerCut, Service!Next
<1>3. ASSUME NEW m \in Offered, RefuseUpdate(m) PROVE Service!Next
  <2>1. pc \notin Updating /\ pc' \notin Updating /\ told' \in {told, "failed"}
        /\ UNCHANGED <<fw, seen>>
    BY <1>3 DEF RefuseUpdate, Publish, Updating
  <2> QED
    BY <2>1 DEF Service!Refuse, Service!Tell, Service!Next
<1>4. ASSUME NEW m \in Offered, StartUpdate(m) PROVE Service!Next
  <2>1. m \in Updates
    BY OfferedType
  <2>2. m.version = Custom \/ Later(m.image, fw)
    BY <1>4, <2>1, StartedIsLater DEF StartUpdate, OtaInv
  <2>3. /\ pc \notin Updating /\ pc' \in Updating /\ job' = m /\ m.name = "own"
        /\ told' \in {told, "downloading"} /\ UNCHANGED <<fw, seen>>
    BY <1>4 DEF StartUpdate, Publish, Updating
  <2>4. Service!Later(m.image, fw) <=> Later(m.image, fw)
    BY DEF Service!Later, Later, Service!Fields, Fields
  <2>5. Service!Accept(m)
    BY <2>2, <2>3, <2>4 DEF Service!Accept, Service!Fits, Service!Tell
  <2> QED
    BY <2>1, <2>5 DEF Service!Next
<1>5. CASE DownloadOk
  <2>1. pc \in Updating /\ pc' \in Updating /\ UNCHANGED <<job, fw, seen, told>>
    BY <1>5 DEF DownloadOk, Updating
  <2> QED
    BY <2>1 DEF Service!vars
<1>6. CASE DownloadFailed \/ NoUpdates
  <2>1. pc' \notin Updating /\ UNCHANGED <<fw, seen, told>>
    BY <1>6 DEF DownloadFailed, NoUpdates, Updating
  <2> QED
    BY <2>1 DEF Service!Abandon, Service!Next
<1>7. CASE LinkDies \/ Settle \/ UNCHANGED vars
  <2>1. UNCHANGED <<job, pc, fw, seen, told>>
    BY <1>7 DEF LinkDies, Settle, vars
  <2> QED
    BY <2>1 DEF Service!vars
<1> QED
  BY <1>1, <1>2, <1>3, <1>4, <1>5, <1>6, <1>7 DEF Next, Handler, Upgrade

\* The kit keeps the promise of UpdateService.
THEOREM ImplementsService == Spec => UpdatesKept
<1>1. Init => Service!Init
  BY DEF Init, Service!Init, Updating
<1> QED
  BY <1>1, ServiceStep, OtaInvariance, PTL DEF Spec, UpdatesKept, Service!Spec

-----------------------------------------------------------------------------
(* The newest release.                                                      *)

\* A kit that runs the newest release refuses it.
LEMMA NewestRefused ==
    ASSUME NEW m, ~Refused(m), m = Update("own", Newest, Newest), fw = Newest
    PROVE  FALSE
<1>1. m.version = Newest /\ Newest \in Versions /\ Newest # Custom
  BY NewestAssumption, ReleasesAssumption, CustomAssumption DEF Update
<1>2. CompareVersions(Newest, Newest) = 0
  BY <1>1, ComparesTotally
<1> QED
  BY <1>1, <1>2 DEF Refused

\* A newest release that stays on offer is installed once and for all.
THEOREM NewestIsKept == Spec => NewestStays
<1>1. OtaInv /\ [Next]_vars
        => [settled /\ fw = Newest /\ pc \notin Updating
                => (fw = Newest /\ pc \notin Updating)']_vars
  <2> SUFFICES ASSUME OtaInv, Next, settled, fw = Newest, pc \notin Updating
               PROVE  fw' = Newest /\ pc' \notin Updating
    BY DEF vars
  <2>1. CASE Boot \/ Reconnect \/ HeartBeat
    BY <2>1 DEF Boot, Reconnect, HeartBeat, Updating
  <2>2. CASE RebootCommand \/ ResetButton \/ PowerCut \/ LinkDies \/ Settle \/ DownloadFailed
                \/ NoUpdates \/ DownloadOk
    BY <2>2 DEF RebootCommand, ResetButton, PowerCut, LinkDies, Settle, DownloadFailed,
                NoUpdates, DownloadOk, Updating
  <2>3. CASE EndUpdate
    BY <2>3 DEF EndUpdate, Restart, Updating
  <2>4. ASSUME NEW m \in Offered, RefuseUpdate(m) PROVE fw' = Newest /\ pc' \notin Updating
    BY <2>4 DEF RefuseUpdate
  <2>5. ASSUME NEW m \in Offered, StartUpdate(m) PROVE FALSE
    <3>1. m = Update("own", Newest, Newest)
      BY DEF Offered
    <3> QED
      BY <2>5, <3>1, NewestRefused DEF StartUpdate
  <2> QED
    BY <2>1, <2>2, <2>3, <2>4, <2>5 DEF Next, Handler, Upgrade
<1> QED
  BY <1>1, OtaInvariance, PTL DEF Spec, NewestStays

-----------------------------------------------------------------------------
(* Every release is installed once.                                         *)

\* History: the releases that were left since the last custom image
VARIABLE left

RememberLeft ==
    left' = IF fw' = fw THEN left
            ELSE IF job.version = Custom THEN {} ELSE left \cup {fw}

HistorySpec ==
    /\ Init /\ left = {}
    /\ [][Next /\ RememberLeft]_<<vars, left>>

\* Upwards is for good: what was left is earlier than what runs.
LeftIsEarlier == left \subseteq Releases /\ \A v \in left : Later(fw, v)

LEMMA LeftStep ==
    ASSUME OtaInv, [Next]_vars, RememberLeft, LeftIsEarlier,
           fw' # fw => job.version = Custom \/ Later(fw', fw)
    PROVE  LeftIsEarlier'
<1>1. CASE fw' = fw
  BY <1>1 DEF RememberLeft, LeftIsEarlier
<1>2. CASE fw' # fw /\ job.version = Custom
  BY <1>2 DEF RememberLeft, LeftIsEarlier
<1>3. CASE fw' # fw /\ job.version # Custom
  <2>1. fw \in Releases /\ fw' \in Releases
    BY OtaStep DEF OtaInv, TypeOK
  <2>2. Later(fw', fw) /\ left' = left \cup {fw}
    BY <1>3 DEF RememberLeft
  <2>3. ASSUME NEW v \in left PROVE Later(fw', v)
    <3>1. fw' \in Versions /\ fw \in Versions /\ v \in Versions
      BY <2>1, ReleasesAssumption DEF LeftIsEarlier
    <3>2. Later(fw, v)
      BY DEF LeftIsEarlier
    <3> QED
      BY <2>2, <3>1, <3>2, LaterIsStrict
  <2> QED
    BY <2>1, <2>2, <2>3 DEF LeftIsEarlier
<1> QED
  BY <1>1, <1>2, <1>3

\* A release that was replaced never runs again, however long the server repeats
\* old offers and whatever interrupts the updates, unless a custom image brings
\* it back: handleFirmwareUpdate keeps no list of what it has installed.
THEOREM NeverBack == HistorySpec => [](fw \notin left)
<1>1. HistorySpec => Spec
  <2>1. [Next /\ RememberLeft]_<<vars, left>> => [Next]_vars
    OBVIOUS
  <2> QED
    BY <2>1, PTL DEF HistorySpec, Spec
<1>2. Init /\ left = {} => LeftIsEarlier
  BY DEF LeftIsEarlier
<1> DEFINE Upwards == (fw' # fw \/ (EndUpdate /\ pc = "installed")) =>
                         (job.version = Custom \/ Later(fw', fw))
<1>3. OtaInv /\ LeftIsEarlier /\ [Upwards]_vars /\ [Next /\ RememberLeft]_<<vars, left>>
          => LeftIsEarlier'
  <2> SUFFICES ASSUME OtaInv, LeftIsEarlier, [Upwards]_vars,
                      [Next /\ RememberLeft]_<<vars, left>>
               PROVE  LeftIsEarlier'
    OBVIOUS
  <2>1. CASE Next /\ RememberLeft
    <3>1. fw' # fw => job.version = Custom \/ Later(fw', fw)
      BY DEF vars
    <3> QED
      BY <2>1, <3>1, LeftStep
  <2>2. CASE UNCHANGED <<vars, left>>
    BY <2>2 DEF vars, LeftIsEarlier
  <2> QED
    BY <2>1, <2>2
<1>4. OtaInv /\ LeftIsEarlier => fw \notin left
  <2> SUFFICES ASSUME OtaInv, LeftIsEarlier, fw \in left PROVE FALSE
    OBVIOUS
  <2>1. fw \in Versions /\ Later(fw, fw)
    BY ReleasesAssumption DEF OtaInv, TypeOK, LeftIsEarlier
  <2> QED
    BY <2>1, LaterIsStrict
<1> QED
  BY <1>1, <1>2, <1>3, <1>4, OtaInvariance, OnlyUpwards, PTL DEF HistorySpec, NoDowngrade
=============================================================================
