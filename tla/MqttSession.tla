----------------------------- MODULE MqttSession -----------------------------
(***************************************************************************)
(* The MQTT session of IRIS Kit: connectIot and keepAliveIot of iot_hub,    *)
(* the Aliyun client with its SDK, the EMQX client, and the parts of        *)
(* PubSubClient they drive.  Both clients share one PubSubClient and one    *)
(* socket; the kit tries Aliyun first and falls back to EMQX.               *)
(*                                                                         *)
(* pc walks through the blocking calls.  The link, the brokers and the      *)
(* timers (the 10 s gate of the hub, the 30 s gate of the SDK, the ping     *)
(* timeout of PubSubClient) act or stay quiet at any step.                  *)
(***************************************************************************)
EXTENDS Integers

CONSTANTS
    Reachable,     \* the brokers that may ever be reachable
    AliotRetryMax, \* MQTT_CONNECT_RETRY_MAX of the SDK
    EmqxRetryMax   \* MQTT_RETRY_MAX

Brokers == {"aliot", "emqx"}

ASSUME ReachableAssumption == Reachable \subseteq Brokers /\ Reachable # {}

ASSUME RetryAssumption == AliotRetryMax \in Nat /\ EmqxRetryMax \in Nat \ {0}

VARIABLES
    pc,          \* where the main loop is
    from,        \* which call of mqttCheckConnect is running
    retry,       \* retries of the running connect loop
    res,         \* mqttStatus
    domain,      \* the server set last in PubSubClient
    socket,      \* the broker the socket is connected to, or "none"
    state,       \* PubSubClient::_state: connected, or any other code
    connecting,  \* mqttConnecting of the SDK
    subscribed,  \* g_subscribed
    type,        \* g_mqtt_type
    alive,       \* is the session alive at the broker
    heard,       \* does the broker hold the downstream subscription for it
    opener,      \* observation: which connect loop opened the session
    reach,       \* environment: the brokers that accept connections now
    settled      \* environment: links and brokers change no more

kit == <<pc, from, retry, res, domain, connecting, subscribed, type>>
session == <<socket, state, alive, heard, opener>>
world == <<reach, settled>>
vars == <<kit, session, world>>

-----------------------------------------------------------------------------
(* PubSubClient.                                                            *)

\* connected() notices that the socket is gone
Connected == socket # "none"

Noticed == state' = IF Connected THEN state ELSE "down"

\* The socket is closed by this side: disconnect(), or a ping timeout
Closed ==
    /\ socket' = "none"
    /\ state' = "down"
    /\ alive' = FALSE
    /\ heard' = FALSE

\* connect() reaches the server that was set last; the session is clean
Accepted(o) ==
    /\ domain \in reach
    /\ socket' = domain
    /\ state' = "connected"
    /\ alive' = TRUE
    /\ heard' = FALSE
    /\ opener' = o

-----------------------------------------------------------------------------
(* AliyunIoTSDK.                                                            *)

\* Where mqttCheckConnect returns to
Caller == IF from = "begin" THEN "begun" ELSE "gate"

\* mqttCheckConnect, up to its loop; callers say which state they leave
CheckConnect(caller, currentState) ==
    /\ from' = caller
    /\ retry' = 0
    /\ res' = 0
    /\ pc' = IF connecting \/ currentState = "connected"
             THEN (IF caller = "begin" THEN "begun" ELSE "gate")
             ELSE "dial"

\* Mutant: the server is set by the first call only
Begin_ServerOnce ==
    /\ domain' = IF domain = "unset" THEN "aliot" ELSE domain
    /\ CheckConnect("begin", "down")

\* begin: the server is set, then the connection is checked
Begin ==
    /\ domain' = "aliot"
    /\ CheckConnect("begin", "down")

\* the loop of mqttCheckConnect: one attempt that succeeds
DialAccepted ==
    /\ pc = "dial" /\ ~Connected
    /\ Accepted(from)
    /\ connecting' = FALSE
    /\ UNCHANGED <<pc, from, retry, res, domain, subscribed, type>>

\* Mutant: the retries are not limited
DialRefused_NoLimit ==
    /\ pc = "dial" /\ ~Connected
    /\ Closed
    /\ retry' = retry + 1
    /\ res' = -1
    /\ UNCHANGED <<pc, connecting, from, domain, subscribed, type, opener>>

\* one that fails: the last one leaves the loop with mqttConnecting set
DialRefused ==
    /\ pc = "dial" /\ ~Connected
    /\ Closed
    /\ retry' = retry + 1
    /\ res' = -1
    /\ connecting' = (retry' > AliotRetryMax)
    /\ pc' = IF retry' > AliotRetryMax THEN Caller ELSE "dial"
    /\ UNCHANGED <<from, domain, subscribed, type, opener>>

DialDone ==
    /\ pc = "dial" /\ Connected
    /\ pc' = Caller
    /\ UNCHANGED <<from, retry, res, domain, connecting, subscribed, type, session>>

-----------------------------------------------------------------------------
(* connectIot, after iot.begin has returned.                                *)

\* connectToAliot succeeded
AliotChosen ==
    /\ pc = "begun"
    /\ res = 0 /\ Connected
    /\ type' = "aliot"
    /\ pc' = "hook"
    /\ UNCHANGED <<from, retry, res, domain, connecting, subscribed, session>>

\* connectToAliot failed: connectToEMQXBroker sets its own server
AliotFailed ==
    /\ pc = "begun"
    /\ res # 0 \/ ~Connected
    /\ domain' = "emqx"
    /\ retry' = 0
    /\ Noticed
    /\ pc' = "emqx"
    /\ UNCHANGED <<from, res, connecting, subscribed, type, socket, alive, heard, opener>>

EmqxAccepted ==
    /\ pc = "emqx" /\ ~Connected /\ retry < EmqxRetryMax
    /\ Accepted("begin")
    /\ UNCHANGED kit

EmqxRefused ==
    /\ pc = "emqx" /\ ~Connected /\ retry < EmqxRetryMax
    /\ Closed
    /\ retry' = retry + 1
    /\ UNCHANGED <<pc, from, res, domain, connecting, subscribed, type, opener>>

EmqxDone ==
    /\ pc = "emqx" /\ Connected
    /\ type' = "emqx"
    /\ pc' = "hook"
    /\ UNCHANGED <<from, retry, res, domain, connecting, subscribed, session>>

\* subscribe once per g_subscribed, then __connect; what is written into a
\* dead session is lost, and g_subscribed is set all the same
Hook ==
    /\ pc = "hook"
    /\ heard' = (heard \/ (~subscribed /\ alive))
    /\ subscribed' = TRUE
    /\ Noticed
    /\ pc' = "loop"
    /\ UNCHANGED <<from, retry, res, domain, connecting, type, socket, alive, opener>>

-----------------------------------------------------------------------------
(* setup and restart.                                                       *)

\* setup() calls connectIot
Setup ==
    /\ pc = "setup"
    /\ Begin
    /\ UNCHANGED <<connecting, subscribed, type, session>>

\* ESP.restart, or a power cut: memory is lost
Fresh ==
    /\ pc' = "setup"
    /\ from' = "begin"
    /\ retry' = 0
    /\ res' = 0
    /\ domain' = "unset"
    /\ connecting' = FALSE
    /\ subscribed' = FALSE
    /\ type' = "max"
    /\ Closed
    /\ opener' = "begin"

\* connectToEMQXBroker gives up
EmqxFailed ==
    /\ pc = "emqx" /\ ~Connected /\ retry = EmqxRetryMax
    /\ Fresh

-----------------------------------------------------------------------------
(* keepAliveIot.                                                            *)

KeepAlive ==
    /\ pc = "loop"
    /\ pc' = CASE Connected /\ type = "aliot" -> "aliotloop"
               [] Connected /\ type = "emqx"  -> "emqxloop"
               [] OTHER                       -> "gate"
    /\ Noticed
    /\ UNCHANGED <<from, retry, res, domain, connecting, subscribed, type,
                   socket, alive, heard, opener>>

AfterLoop == IF pc = "aliotloop" THEN "sdkgate" ELSE "gate"

\* PubSubClient::loop with nothing to notice
ClientLoop ==
    /\ pc \in {"aliotloop", "emqxloop"}
    /\ pc' = AfterLoop
    /\ Noticed
    /\ UNCHANGED <<from, retry, res, domain, connecting, subscribed, type,
                   socket, alive, heard, opener>>

\* PubSubClient::loop: the ping of a dead session was not answered
PingTimeout ==
    /\ pc \in {"aliotloop", "emqxloop"}
    /\ Connected /\ ~alive
    /\ Closed
    /\ pc' = AfterLoop
    /\ UNCHANGED <<from, retry, res, domain, connecting, subscribed, type, opener>>

\* the 30 s gate of AliyunIoTSDK::loop is open
SdkCheck ==
    /\ pc = "sdkgate"
    /\ CheckConnect("loop", state)
    /\ UNCHANGED <<domain, connecting, subscribed, type, session>>

\* Mutant: g_subscribed survives the disconnection
Reconnect_StillSubscribed ==
    /\ pc = "gate" /\ ~Connected
    /\ Closed
    /\ Begin
    /\ UNCHANGED <<subscribed, connecting, type, opener>>

\* the 10 s gate is open and the connection is lost: force disconnect, connectIot
Reconnect ==
    /\ pc = "gate" /\ ~Connected
    /\ Closed
    /\ subscribed' = FALSE
    /\ Begin
    /\ UNCHANGED <<connecting, type, opener>>

\* a gate is closed, or the connection is up
GatePassed ==
    /\ pc \in {"sdkgate", "gate"}
    /\ pc' = IF pc = "sdkgate" THEN "gate" ELSE "loop"
    /\ Noticed
    /\ UNCHANGED <<from, retry, res, domain, connecting, subscribed, type,
                   socket, alive, heard, opener>>

-----------------------------------------------------------------------------
(* The environment.                                                         *)

\* the session dies without the kit's knowing
LinkDies ==
    /\ ~settled /\ alive
    /\ alive' = FALSE
    /\ heard' = FALSE
    /\ UNCHANGED <<kit, socket, state, opener, world>>

\* the connection is closed by the other side
SocketCloses ==
    /\ ~settled /\ Connected
    /\ socket' = "none"
    /\ alive' = FALSE
    /\ heard' = FALSE
    /\ UNCHANGED <<kit, state, opener, world>>

BrokersChange ==
    /\ ~settled
    /\ reach' \in SUBSET Reachable
    /\ UNCHANGED <<kit, session, settled>>

\* from now on links hold and some broker stays reachable
Settle ==
    /\ ~settled
    /\ reach # {}
    /\ settled' = TRUE
    /\ UNCHANGED <<kit, session, reach>>

PowerCut ==
    /\ ~settled
    /\ Fresh
    /\ UNCHANGED world

-----------------------------------------------------------------------------
Init ==
    /\ pc = "setup" /\ from = "begin" /\ retry = 0 /\ res = 0
    /\ domain = "unset" /\ connecting = FALSE /\ subscribed = FALSE
    /\ type = "max"
    /\ socket = "none" /\ state = "down" /\ alive = FALSE /\ heard = FALSE
    /\ opener = "begin"
    /\ reach \in SUBSET Reachable
    /\ settled = FALSE

\* an attempt on a reachable broker of a settled world does not fail
Refusal == (settled => domain \notin reach) /\ (DialRefused \/ EmqxRefused)

Kit ==
    /\ \/ DialAccepted \/ DialDone \/ AliotChosen \/ AliotFailed \/ Refusal
       \/ EmqxAccepted \/ EmqxDone \/ EmqxFailed \/ Hook \/ Setup
       \/ KeepAlive \/ ClientLoop \/ PingTimeout \/ SdkCheck \/ Reconnect \/ GatePassed
    /\ UNCHANGED world

Environment == LinkDies \/ SocketCloses \/ BrokersChange \/ Settle \/ PowerCut

Next == Kit \/ Environment

Spec == Init /\ [][Next]_vars

\* The loop runs; the 10 s gate and the ping timeout come due.
FairSpec ==
    /\ Spec
    /\ WF_vars(Kit)
    /\ SF_vars(Reconnect /\ UNCHANGED world)
    /\ SF_vars(PingTimeout /\ UNCHANGED world)

-----------------------------------------------------------------------------
(* Properties.                                                              *)

Pcs == {"setup", "dial", "begun", "emqx", "hook", "loop", "aliotloop",
        "emqxloop", "sdkgate", "gate"}

\* The places and the numbers by themselves, and the flags
PlacesOK ==
    /\ pc \in Pcs /\ from \in {"begin", "loop"}
    /\ retry \in 0 .. (AliotRetryMax + 1) \cup 0 .. EmqxRetryMax
    /\ res \in {-1, 0}
    /\ domain \in Brokers \cup {"unset"}
    /\ socket \in Brokers \cup {"none"}
    /\ state \in {"connected", "down"}
    /\ type \in Brokers \cup {"max"}
    /\ opener \in {"begin", "loop"}
    /\ reach \subseteq Reachable

FlagsOK ==
    /\ connecting \in BOOLEAN /\ subscribed \in BOOLEAN /\ settled \in BOOLEAN
    /\ alive \in BOOLEAN /\ heard \in BOOLEAN
    /\ heard => alive
    /\ alive => socket # "none"

\* The types of the variables; a subscription is one of a living session, and
\* a living session has its socket.
TypeOK == PlacesOK /\ FlagsOK

\* The Aliyun credentials are never sent to the EMQX broker nor the other way
\* round, although both clients share one PubSubClient whose server each of
\* them sets, and the SDK reconnects long after begin.
OwnServer ==
    [][ /\ DialAccepted \/ DialRefused => domain = "aliot"
        /\ EmqxAccepted \/ EmqxRefused => domain = "emqx" ]_vars

\* A session that connectIot opened hears the downstream topic whenever the
\* main loop is elsewhere, however the previous session ended.
HubSessionListens ==
    pc = "loop" /\ alive /\ opener = "begin" => heard

\* The inductive invariant of the two above.  Which server is set follows
\* from where connectIot is and, outside of it, from the type of the session;
\* while connectIot runs g_subscribed is clear; and a connected client knows
\* it, so the SDK never dials over a session that connectIot opened.
Elsewhere == {"loop", "aliotloop", "emqxloop", "sdkgate", "gate"}

Connecting ==
    pc \in {"setup", "begun", "emqx", "hook"} \/ (pc = "dial" /\ from = "begin")

SessionInv ==
    /\ from \in {"begin", "loop"}
    /\ pc \in {"dial", "begun"} => domain = "aliot"
    /\ pc = "emqx" => domain = "emqx"
    /\ pc \in Elsewhere \cup {"hook"} /\ type = "aliot" => domain = "aliot"
    /\ pc \in {"aliotloop", "sdkgate"} => type = "aliot"
    /\ Connecting => ~subscribed
    /\ Connected => state = "connected"
    /\ alive => Connected
    /\ pc = "dial" /\ from = "loop" /\ alive => opener = "loop"
    /\ pc \in Elsewhere /\ alive /\ opener = "begin" => heard

\* Once links and brokers hold, the kit comes back to a living session: from
\* half-open ones, exhausted retries and restarts; and it hears its server,
\* but for a session the SDK has reconnected by itself.
ListensForGood == settled ~> [](alive /\ (heard \/ opener = "loop"))

\* g_subscribed says that the session is subscribed.
SubscribedListens == pc = "loop" /\ alive /\ subscribed => heard

\* The session as the rest of the firmware sees it: what connectIot works on
\* is not a session before it has returned.
Shown == Connected /\ ~Connecting

Line ==
    IF ~Shown THEN "closed"
    ELSE IF ~alive THEN "dead" ELSE IF heard THEN "live" ELSE "deaf"

View == INSTANCE Session WITH
    opener <- IF Shown THEN opener ELSE "none", line <- Line, strained <- ~settled

\* Whatever the two clients do to each other's socket and flags, the session
\* of the kit is one that connectIot has subscribed or that the SDK opened; it
\* is given up by the kit only when it is dead, and comes back only through
\* either of the two.
SessionKept == View!Spec

\* How many steps connectIot, or the SDK's check, has left at most: one for each
\* attempt, one for an attempt that succeeds, and those around the loops.
Dialling == {"dial", "begun", "emqx", "hook"}

Undialled == IF Connected THEN 0 ELSE 1

StepsLeft ==
    IF pc = "dial" THEN (AliotRetryMax - retry) + Undialled + EmqxRetryMax + 5
    ELSE IF pc = "begun" THEN EmqxRetryMax + 4
    ELSE IF pc = "emqx" THEN (EmqxRetryMax - retry) + Undialled + 2
    ELSE IF pc = "hook" THEN 1 ELSE 0

MaxSteps == AliotRetryMax + EmqxRetryMax + 6

\* connectIot cannot go round for ever, whatever the brokers answer: each of its
\* steps takes it closer to its end, and nothing but a connection that breaks
\* while it runs sets it back, by one step.
ConnectAdvances ==
    [][ /\ pc \in Dialling /\ Kit => StepsLeft' < StepsLeft
        /\ SocketCloses => StepsLeft' <= StepsLeft + 1
        /\ Environment /\ ~SocketCloses => StepsLeft' <= StepsLeft ]_vars

\* The kit hears its server and is back in its main loop.
Listening == pc \in Elsewhere /\ alive /\ (heard \/ opener = "loop")

\* What ListensForGood reaches is kept: neither the gates nor the timers of hub,
\* SDK and PubSubClient touch a session that lives.
ListensOn == [][settled /\ Listening => Listening']_vars
=============================================================================
