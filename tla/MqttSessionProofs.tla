-------------------------- MODULE MqttSessionProofs --------------------------
(***************************************************************************)
(* Theorems about MqttSession, for every retry limit and every set of       *)
(* brokers that may be reachable.                                           *)
(***************************************************************************)
EXTENDS MqttSession, TLAPS

LEMMA SessionInit == Init => SessionInv
BY DEF Init, SessionInv, Connecting, Connected, Elsewhere

LEMMA SessionStep == SessionInv /\ [Next]_vars => SessionInv'
<1> SUFFICES ASSUME SessionInv, [Next]_vars PROVE SessionInv'
  OBVIOUS
<1> USE DEF SessionInv, Connecting, Connected, Elsewhere
<1>1. CASE DialAccepted
  BY <1>1 DEF DialAccepted, Accepted
<1>2. CASE DialRefused
  <2>1. /\ pc = "dial" /\ pc' \in {"dial", Caller}
        /\ UNCHANGED <<from, domain, subscribed, type, opener>>
        /\ socket' = "none" /\ alive' = FALSE
    BY <1>2 DEF DialRefused, Closed
  <2> QED
    BY <2>1 DEF Caller
<1>3. CASE DialDone
  BY <1>3 DEF DialDone, Caller, session
<1>4. CASE AliotChosen
  BY <1>4 DEF AliotChosen, session
<1>5. CASE AliotFailed
  BY <1>5 DEF AliotFailed, Noticed
<1>6. CASE EmqxAccepted
  BY <1>6 DEF EmqxAccepted, Accepted, kit
<1>7. CASE EmqxRefused
  BY <1>7 DEF EmqxRefused, Closed
<1>8. CASE EmqxDone
  BY <1>8 DEF EmqxDone, session
<1>9. CASE EmqxFailed \/ PowerCut
  BY <1>9 DEF EmqxFailed, PowerCut, Fresh, Closed
<1>10. CASE Hook
  BY <1>10 DEF Hook, Noticed
<1>11. CASE Setup
  BY <1>11 DEF Setup, Begin, CheckConnect, session
<1>12. CASE KeepAlive
  BY <1>12 DEF KeepAlive, Noticed
<1>13. CASE ClientLoop
  BY <1>13 DEF ClientLoop, AfterLoop, Noticed
<1>14. CASE PingTimeout
  BY <1>14 DEF PingTimeout, AfterLoop, Closed
<1>15. CASE SdkCheck
  BY <1>15 DEF SdkCheck, CheckConnect, session
<1>16. CASE Reconnect
  BY <1>16 DEF Reconnect, Begin, CheckConnect, Closed
<1>17. CASE GatePassed
  BY <1>17 DEF GatePassed, Noticed
<1>18. CASE LinkDies
  BY <1>18 DEF LinkDies, kit
<1>19. CASE SocketCloses
  BY <1>19 DEF SocketCloses, kit
<1>20. CASE BrokersChange \/ Settle \/ UNCHANGED vars
  BY <1>20 DEF BrokersChange, Settle, vars, kit, session
<1> QED
  BY <1>1, <1>2, <1>3, <1>4, <1>5, <1>6, <1>7, <1>8, <1>9, <1>10, <1>11,
     <1>12, <1>13, <1>14, <1>15, <1>16, <1>17, <1>18, <1>19, <1>20
     DEF Next, Kit, Refusal, Environment

\* The inductive invariant of the session.
THEOREM SessionInvariance == Spec => []SessionInv
BY SessionInit, SessionStep, PTL DEF Spec

\* A session that connectIot opened hears the downstream topic.
THEOREM HubListens == Spec => []HubSessionListens
<1>1. SessionInv => HubSessionListens
  BY DEF SessionInv, HubSessionListens, Elsewhere
<1> QED
  BY <1>1, SessionInvariance, PTL

\* No credentials are sent to the wrong broker.
THEOREM CredentialsKeepServer == Spec => OwnServer
<1>1. SessionInv => /\ DialAccepted \/ DialRefused => domain = "aliot"
                    /\ EmqxAccepted \/ EmqxRefused => domain = "emqx"
  BY DEF SessionInv, DialAccepted, DialRefused, EmqxAccepted, EmqxRefused
<1> QED
  BY <1>1, SessionInvariance, PTL DEF OwnServer

-----------------------------------------------------------------------------
(* Types.                                                                   *)

\* A running connect loop has retries left.
RetriesLeft ==
    /\ pc = "dial" => retry \in 0 .. AliotRetryMax
    /\ pc = "emqx" => retry \in 0 .. EmqxRetryMax

LEMMA TypeInit == Init => PlacesOK /\ FlagsOK /\ RetriesLeft
<1> SUFFICES ASSUME Init PROVE PlacesOK /\ FlagsOK /\ RetriesLeft
  OBVIOUS
<1>1. PlacesOK /\ RetriesLeft
  BY RetryAssumption DEF Init, PlacesOK, RetriesLeft, Pcs
<1>2. FlagsOK
  BY DEF Init, FlagsOK
<1> QED
  BY <1>1, <1>2

\* The main loop stays where it may be, in no loop beyond its retries.
LEMMA PlacesStep == PlacesOK /\ RetriesLeft /\ [Next]_vars => PlacesOK' /\ RetriesLeft'
<1> SUFFICES ASSUME PlacesOK, RetriesLeft, [Next]_vars PROVE PlacesOK' /\ RetriesLeft'
  OBVIOUS
<1> USE RetryAssumption, ReachableAssumption
    DEF PlacesOK, RetriesLeft, Pcs, Connected, Noticed, Closed, Accepted, Brokers,
        kit, session, world
<1>1. CASE DialAccepted /\ UNCHANGED world
  BY <1>1 DEF DialAccepted
<1>2. CASE DialRefused /\ UNCHANGED world
  BY <1>2 DEF DialRefused, Caller
<1>3. CASE DialDone /\ UNCHANGED world
  BY <1>3 DEF DialDone, Caller
<1>4. CASE (AliotChosen \/ AliotFailed) /\ UNCHANGED world
  BY <1>4 DEF AliotChosen, AliotFailed
<1>5. CASE EmqxAccepted /\ UNCHANGED world
  BY <1>5 DEF EmqxAccepted
<1>6. CASE EmqxRefused /\ UNCHANGED world
  BY <1>6 DEF EmqxRefused
<1>7. CASE (EmqxDone \/ Hook) /\ UNCHANGED world
  BY <1>7 DEF EmqxDone, Hook
<1>8. CASE (EmqxFailed \/ PowerCut) /\ UNCHANGED world
  BY <1>8 DEF EmqxFailed, PowerCut, Fresh
<1>9. CASE (Setup \/ SdkCheck) /\ UNCHANGED world
  BY <1>9 DEF Setup, SdkCheck, Begin, CheckConnect
<1>10. CASE (KeepAlive \/ ClientLoop \/ GatePassed) /\ UNCHANGED world
  BY <1>10 DEF KeepAlive, ClientLoop, GatePassed, AfterLoop
<1>11. CASE PingTimeout /\ UNCHANGED world
  BY <1>11 DEF PingTimeout, AfterLoop
<1>12. CASE Reconnect /\ UNCHANGED world
  BY <1>12 DEF Reconnect, Begin, CheckConnect
<1>13. CASE LinkDies
  BY <1>13 DEF LinkDies
<1>17. CASE SocketCloses
  BY <1>17 DEF SocketCloses
<1>14. CASE BrokersChange
  <2>1. reach' \subseteq Reachable
    BY <1>14 DEF BrokersChange
  <2> QED
    BY <1>14, <2>1 DEF BrokersChange
<1>15. CASE Settle
  BY <1>15 DEF Settle
<1>16. CASE UNCHANGED vars
  BY <1>16 DEF vars
<1> QED
  BY <1>1, <1>2, <1>3, <1>4, <1>5, <1>6, <1>7, <1>8, <1>9, <1>10, <1>11, <1>12, <1>13,
     <1>14, <1>15, <1>16, <1>17
     DEF Next, Kit, Refusal, Environment, PowerCut

\* A subscription is one of a living session, and a living session has its socket.
LEMMA FlagsStep == PlacesOK /\ FlagsOK /\ [Next]_vars => FlagsOK'
<1> SUFFICES ASSUME PlacesOK, FlagsOK, [Next]_vars PROVE FlagsOK'
  OBVIOUS
<1> USE DEF FlagsOK, kit, session, world
<1>1. CASE (DialAccepted \/ EmqxAccepted) /\ UNCHANGED world
  <2>1. domain # "none"
    BY DEF PlacesOK, Brokers
  <2> QED
    BY <1>1, <2>1, Zenon DEF DialAccepted, EmqxAccepted, Accepted
<1>2. CASE DialRefused /\ UNCHANGED world
  <2>1. connecting' \in BOOLEAN
    BY <1>2 DEF DialRefused
  <2> QED
    BY <1>2, <2>1, Zenon DEF DialRefused, Closed
<1>3. CASE (EmqxRefused \/ PingTimeout \/ Reconnect) /\ UNCHANGED world
  BY <1>3, Zenon DEF EmqxRefused, PingTimeout, Reconnect, Closed
<1>4. CASE (EmqxFailed \/ PowerCut) /\ UNCHANGED world
  BY <1>4, Zenon DEF EmqxFailed, PowerCut, Fresh, Closed
<1>5. CASE Hook /\ UNCHANGED world
  <2>1. heard' \in BOOLEAN /\ (heard' => alive)
    BY <1>5, Zenon DEF Hook
  <2> QED
    BY <1>5, <2>1, Zenon DEF Hook
<1>6. CASE (LinkDies \/ SocketCloses)
  BY <1>6, Zenon DEF LinkDies, SocketCloses
<1>7. CASE Settle
  BY <1>7, Zenon DEF Settle
<1>8. CASE \/ DialDone /\ UNCHANGED world
           \/ (AliotChosen \/ AliotFailed \/ EmqxDone \/ Setup) /\ UNCHANGED world
           \/ (KeepAlive \/ ClientLoop \/ SdkCheck \/ GatePassed) /\ UNCHANGED world
           \/ BrokersChange \/ UNCHANGED vars
  <2>1. UNCHANGED <<connecting, subscribed, settled, alive, heard, socket>>
    BY <1>8 DEF DialDone, AliotChosen, AliotFailed, EmqxDone, Setup, KeepAlive, ClientLoop,
                SdkCheck, GatePassed, BrokersChange, vars
  <2> QED
    BY <2>1
<1> QED
  BY <1>1, <1>2, <1>3, <1>4, <1>5, <1>6, <1>7, <1>8
     DEF Next, Kit, Refusal, Environment, PowerCut

\* No retry limit is overrun, and a subscription is always one of a living session
\* with a socket.
THEOREM TypeCorrect == Spec => []TypeOK
<1>1. Init => PlacesOK /\ FlagsOK /\ RetriesLeft
  BY TypeInit
<1>2. /\ PlacesOK /\ FlagsOK /\ RetriesLeft /\ [Next]_vars
              => (PlacesOK /\ FlagsOK /\ RetriesLeft)'
  BY PlacesStep, FlagsStep
<1>3. PlacesOK /\ FlagsOK => TypeOK
  BY DEF TypeOK
<1> QED
  BY <1>1, <1>2, <1>3, PTL DEF Spec

-----------------------------------------------------------------------------
(* The session as others see it.                                            *)

\* What connectIot works on is its own.
OwnDial == Connecting /\ Connected => opener = "begin"

LEMMA OwnDialStep == OwnDial /\ [Next]_vars => OwnDial'
<1> SUFFICES ASSUME OwnDial, [Next]_vars PROVE OwnDial'
  OBVIOUS
<1> USE DEF OwnDial, Connecting, Connected
<1>1. CASE DialAccepted \/ EmqxAccepted
  BY <1>1 DEF DialAccepted, EmqxAccepted, Accepted, kit
<1>2. CASE DialRefused \/ EmqxRefused \/ EmqxFailed \/ PowerCut \/ PingTimeout \/ Reconnect
             \/ SocketCloses
  BY <1>2 DEF DialRefused, EmqxRefused, EmqxFailed, PowerCut, PingTimeout, Reconnect,
              SocketCloses, Fresh, Closed
<1>3. CASE DialDone \/ AliotChosen \/ AliotFailed \/ EmqxDone \/ Hook \/ Setup
  BY <1>3 DEF DialDone, Caller, AliotChosen, AliotFailed, EmqxDone, Hook, Setup, session
<1>4. CASE KeepAlive \/ ClientLoop \/ SdkCheck \/ GatePassed
  BY <1>4 DEF KeepAlive, ClientLoop, AfterLoop, SdkCheck, CheckConnect, GatePassed, session
<1>5. CASE LinkDies \/ BrokersChange \/ Settle \/ UNCHANGED vars
  BY <1>5 DEF LinkDies, BrokersChange, Settle, vars, kit, session
<1> QED
  BY <1>1, <1>2, <1>3, <1>4, <1>5 DEF Next, Kit, Refusal, Environment

LEMMA ViewInit == Init => View!Init
BY Zenon DEF Init, View!Init, Connected, Shown, Line

\* While connectIot runs there is nothing to be seen of what it does.
LEMMA HiddenStep ==
    ASSUME Connecting \/ ~Connected, Connecting' \/ ~Connected'
    PROVE  View!Strain
BY DEF View!Strain, Shown, Line

\* A step that leaves the session and the part of the main loop alone
LEMMA QuietStep ==
    ASSUME UNCHANGED <<socket, alive, heard, opener>>, Connecting' <=> Connecting
    PROVE  View!Strain
BY DEF View!Strain, Connected, Shown, Line

\* Every step of hub, clients and link is a step of the session.
LEMMA ViewStep == TypeOK /\ SessionInv /\ OwnDial /\ [Next]_vars => [View!Next]_(View!vars)
<1> SUFFICES ASSUME TypeOK, SessionInv, OwnDial, Next
             PROVE  View!Next
  <2>1. UNCHANGED vars => UNCHANGED View!vars
    BY DEF vars, View!vars, kit, session, world, Connected, Connecting, Shown, Line
  <2> QED
    BY <2>1
<1> SUFFICES View!Open \/ View!Die \/ View!Leave \/ View!Strain
  BY Zenon DEF View!Next
<1>1. CASE DialAccepted
  <2>1. CASE from = "begin"
    <3>1. Connecting /\ Connecting'
      BY <1>1, <2>1 DEF DialAccepted, Connecting
    <3> QED
      BY <3>1, HiddenStep
  <2>2. CASE from = "loop"
    <3>1. ~Connected /\ ~Connecting /\ ~Connecting'
      BY <1>1, <2>2 DEF DialAccepted, Connecting
    <3>2. Connected' /\ alive' = TRUE /\ heard' = FALSE /\ opener' = "loop"
      BY <1>1, <2>2 DEF DialAccepted, Accepted, Connected, SessionInv
    <3> QED
      BY <3>1, <3>2 DEF View!Open, Shown, Line
  <2> QED
    BY <2>1, <2>2 DEF SessionInv
<1>2. CASE DialRefused \/ EmqxRefused
  <2>1. ~Connected /\ ~Connected'
    BY <1>2 DEF DialRefused, EmqxRefused, Closed, Connected
  <2> QED
    BY <2>1, HiddenStep
<1>3. CASE DialDone
  <2>1. UNCHANGED <<socket, alive, heard, opener>>
    BY <1>3 DEF DialDone, session
  <2>2. Connecting' <=> Connecting
    BY <1>3 DEF DialDone, Connecting, Caller, SessionInv
  <2> QED
    BY <2>1, <2>2, QuietStep
<1>4. CASE AliotChosen \/ AliotFailed \/ EmqxAccepted \/ EmqxDone \/ Setup
  <2>1. Connecting
    BY <1>4 DEF AliotChosen, AliotFailed, EmqxAccepted, EmqxDone, Setup, Connecting
  <2>2. Connecting'
    BY <1>4 DEF AliotChosen, AliotFailed, EmqxAccepted, EmqxDone, Setup, Connecting,
                Begin, CheckConnect, kit
  <2> QED
    BY <2>1, <2>2, HiddenStep
<1>5. CASE Hook
  <2>1. Connecting /\ ~Connecting' /\ UNCHANGED <<socket, alive, opener>>
    BY <1>5 DEF Hook, Connecting
  <2>2. CASE ~Connected
    BY <2>1, <2>2, HiddenStep DEF Connected
  <2>3. CASE Connected
    <3>1. alive => heard'
      BY <1>5, <2>1 DEF Hook, SessionInv
    <3>2. View!Open
      BY <2>1, <2>3, <3>1 DEF OwnDial, View!Open, Shown, Line, Connected
    <3> QED
      BY <3>2
  <2> QED
    BY <2>2, <2>3
<1>6. CASE EmqxFailed \/ Reconnect
  <2>1. ~Connected /\ ~Connected'
    BY <1>6 DEF EmqxFailed, Reconnect, Fresh, Closed, Connected
  <2> QED
    BY <2>1, HiddenStep
<1>7. CASE KeepAlive \/ ClientLoop \/ SdkCheck \/ GatePassed
  <2>1. UNCHANGED <<socket, alive, heard, opener>>
    BY <1>7 DEF KeepAlive, ClientLoop, SdkCheck, GatePassed, session
  <2>2. ~Connecting /\ ~Connecting'
    BY <1>7 DEF KeepAlive, ClientLoop, SdkCheck, GatePassed, CheckConnect, AfterLoop, Connecting
  <2> QED
    BY <2>1, <2>2, QuietStep
<1>8. CASE PingTimeout
  <2>1. Connected /\ ~alive /\ ~Connecting /\ ~Connected'
    BY <1>8 DEF PingTimeout, Closed, Connected, Connecting
  <2> QED
    BY <2>1 DEF View!Leave, Shown, Line
<1>9. CASE SocketCloses \/ PowerCut
  <2>1. ~settled /\ ~Connected'
    BY <1>9 DEF SocketCloses, PowerCut, Fresh, Closed, Connected
  <2>2. CASE Connecting \/ ~Connected
    BY <2>1, <2>2, HiddenStep
  <2>3. CASE ~Connecting /\ Connected
    <3>1. Line \in View!Lines
      BY <2>3 DEF Shown, Line, View!Lines
    <3> QED
      BY <2>1, <2>3, <3>1 DEF View!Leave, Shown, Line
  <2> QED
    BY <2>2, <2>3
<1>10. CASE LinkDies
  <2>1. /\ alive /\ ~alive' /\ UNCHANGED <<socket, opener>> /\ Connected
        /\ Connecting' <=> Connecting
    BY <1>10 DEF LinkDies, kit, Connecting, SessionInv
  <2>2. CASE Connecting
    BY <2>1, <2>2, HiddenStep
  <2>3. CASE ~Connecting
    BY <2>1, <2>3 DEF View!Die, Shown, Line, Connected
  <2> QED
    BY <2>2, <2>3
<1>11. CASE BrokersChange \/ Settle
  <2>1. UNCHANGED <<pc, from, socket, alive, heard, opener>>
    BY <1>11 DEF BrokersChange, Settle, kit, session
  <2> QED
    BY <2>1, QuietStep DEF Connecting
<1> QED
  BY <1>1, <1>2, <1>3, <1>4, <1>5, <1>6, <1>7, <1>8, <1>9, <1>10, <1>11
     DEF Next, Kit, Refusal, Environment

\* Hub, SDK, EMQX client and PubSubClient together keep the promise of Session.
THEOREM ImplementsSession == Spec => SessionKept
<1>1. Init => OwnDial
  BY DEF Init, OwnDial, Connected
<1> QED
  BY <1>1, OwnDialStep, ViewInit, ViewStep, TypeCorrect, SessionInvariance, PTL
     DEF Spec, SessionKept, View!Spec

-----------------------------------------------------------------------------
(* connectIot ends, and what it leaves is kept.                             *)

\* The retries are numbers, in and between the loops.
Sound == PlacesOK /\ RetriesLeft

LEMMA StepsType == Sound => StepsLeft \in 0 .. MaxSteps
BY RetryAssumption DEF Sound, PlacesOK, RetriesLeft, Pcs, StepsLeft, MaxSteps, Undialled

\* Each step of a connect loop, and each around it, is one less to go.
LEMMA KitAdvances ==
    ASSUME Sound, pc \in Dialling, Kit
    PROVE  StepsLeft' < StepsLeft
<1> USE RetryAssumption DEF Sound, RetriesLeft, Dialling, StepsLeft, Undialled, Connected
<1>1. CASE DialAccepted
  <2>1. pc = "dial" /\ pc' = "dial" /\ retry' = retry /\ socket = "none" /\ socket' # "none"
    BY <1>1 DEF DialAccepted, Accepted, PlacesOK, Brokers
  <2> QED
    BY <2>1
<1>2. CASE DialRefused
  <2>1. /\ pc = "dial" /\ retry' = retry + 1 /\ socket = "none" /\ socket' = "none"
        /\ pc' = IF retry' > AliotRetryMax THEN Caller ELSE "dial"
    BY <1>2 DEF DialRefused, Closed
  <2>2. Caller \in {"begun", "gate"}
    BY DEF Caller
  <2>3. CASE retry' > AliotRetryMax
    BY <2>1, <2>2, <2>3
  <2>4. CASE ~(retry' > AliotRetryMax)
    BY <2>1, <2>4
  <2> QED
    BY <2>3, <2>4
<1>3. CASE DialDone
  BY <1>3 DEF DialDone, Caller
<1>4. CASE AliotChosen
  BY <1>4 DEF AliotChosen
<1>5. CASE AliotFailed
  BY <1>5 DEF AliotFailed
<1>6. CASE EmqxAccepted
  <2>1. pc = "emqx" /\ pc' = "emqx" /\ retry' = retry /\ socket = "none" /\ socket' # "none"
    BY <1>6 DEF EmqxAccepted, Accepted, kit, PlacesOK, Brokers
  <2> QED
    BY <2>1
<1>7. CASE EmqxRefused
  BY <1>7 DEF EmqxRefused, Closed
<1>8. CASE EmqxDone \/ Hook
  BY <1>8 DEF EmqxDone, Hook
<1>9. CASE EmqxFailed
  BY <1>9 DEF EmqxFailed, Fresh
<1>10. CASE Setup \/ KeepAlive \/ ClientLoop \/ PingTimeout \/ SdkCheck \/ Reconnect \/ GatePassed
  BY <1>10 DEF Setup, KeepAlive, ClientLoop, PingTimeout, SdkCheck, Reconnect, GatePassed
<1> QED
  BY <1>1, <1>2, <1>3, <1>4, <1>5, <1>6, <1>7, <1>8, <1>9, <1>10 DEF Kit, Refusal

LEMMA EnvironmentSetsBack ==
    ASSUME Sound, Environment
    PROVE  /\ SocketCloses => StepsLeft' <= StepsLeft + 1
           /\ ~SocketCloses => StepsLeft' <= StepsLeft
<1>t. StepsLeft \in Nat /\ Undialled \in 0 .. 1
  BY StepsType, RetryAssumption DEF MaxSteps, Undialled
<1>1. CASE SocketCloses
  <2>1. UNCHANGED <<pc, retry>> /\ Undialled' \in 0 .. 1
    BY <1>1 DEF SocketCloses, kit, Undialled
  <2> QED
    BY <1>1, <1>t, <2>1, RetryAssumption
       DEF StepsLeft, Sound, RetriesLeft
<1>2. CASE LinkDies \/ BrokersChange \/ Settle
  <2>1. UNCHANGED <<pc, retry, socket>>
    BY <1>2 DEF LinkDies, BrokersChange, Settle, kit, session
  <2> QED
    BY <1>t, <2>1 DEF StepsLeft, Undialled, Connected
<1>3. CASE PowerCut
  <2>1. StepsLeft' = 0
    BY <1>3 DEF PowerCut, Fresh, StepsLeft
  <2> QED
    BY <1>t, <2>1
<1> QED
  BY <1>1, <1>2, <1>3 DEF Environment

\* A connectIot that nobody disturbs is over after MaxSteps steps; this is what the
\* fairness of the main loop rests on.
THEOREM ConnectEnds == Spec => [](StepsLeft \in 0 .. MaxSteps) /\ ConnectAdvances
<1>1. Init => Sound
  BY TypeInit DEF Sound
<1>2. Sound /\ [Next]_vars => Sound'
  BY PlacesStep DEF Sound
<1> DEFINE Advance ==
        /\ pc \in Dialling /\ Kit => StepsLeft' < StepsLeft
        /\ SocketCloses => StepsLeft' <= StepsLeft + 1
        /\ Environment /\ ~SocketCloses => StepsLeft' <= StepsLeft
<1>3. Sound /\ [Next]_vars => [Advance]_vars
  <2>1. SocketCloses => Environment
    BY DEF Environment
  <2> QED
    BY <2>1, KitAdvances, EnvironmentSetsBack
<1> QED
  BY <1>1, <1>2, <1>3, StepsType, PTL DEF Spec, ConnectAdvances

\* A living session of a settled world stays: every timer that could close it, or
\* dial over it, looks at it first.
THEOREM ListeningIsKept == Spec => ListensOn
<1>1. SessionInv /\ [Next]_vars => [settled /\ Listening => Listening']_vars
  <2> SUFFICES ASSUME SessionInv, Next, settled, Listening
               PROVE  Listening'
    BY DEF vars
  <2>1. pc \in Elsewhere /\ Connected /\ state = "connected"
    BY DEF Listening, SessionInv
  <2>2. CASE KeepAlive \/ ClientLoop \/ GatePassed
    <3>1. UNCHANGED <<alive, heard, opener>> /\ pc' \in Elsewhere
      BY <2>2 DEF KeepAlive, ClientLoop, GatePassed, AfterLoop, Elsewhere
    <3> QED
      BY <3>1 DEF Listening
  <2>3. CASE SdkCheck
    <3>1. UNCHANGED <<alive, heard, opener>> /\ pc' \in Elsewhere
      BY <2>1, <2>3 DEF SdkCheck, CheckConnect, session, Elsewhere
    <3> QED
      BY <3>1 DEF Listening
  <2>4. CASE BrokersChange \/ Settle \/ LinkDies \/ SocketCloses \/ PowerCut
    BY <2>4 DEF BrokersChange, Settle, LinkDies, SocketCloses, PowerCut
  <2>5. ~PingTimeout /\ ~Reconnect
    BY <2>1 DEF PingTimeout, Reconnect, Listening
  <2>6. /\ ~DialAccepted /\ ~DialRefused /\ ~DialDone /\ ~AliotChosen /\ ~AliotFailed
        /\ ~EmqxAccepted /\ ~EmqxRefused /\ ~EmqxDone /\ ~EmqxFailed /\ ~Hook /\ ~Setup
    BY <2>1 DEF DialAccepted, DialRefused, DialDone, AliotChosen, AliotFailed, EmqxAccepted,
                EmqxRefused, EmqxDone, EmqxFailed, Hook, Setup, Elsewhere
  <2> QED
    BY <2>2, <2>3, <2>4, <2>5, <2>6 DEF Next, Kit, Refusal, Environment
<1> QED
  BY <1>1, SessionInvariance, PTL DEF Spec, ListensOn
=============================================================================
