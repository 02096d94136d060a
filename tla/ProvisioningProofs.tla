------------------------- MODULE ProvisioningProofs -------------------------
(***************************************************************************)
(* Theorems about Provisioning, for every retry limit.                      *)
(***************************************************************************)
EXTENDS Provisioning, TLAPS

Inv == TypeOK /\ ProvisionInv

LEMMA NoneType == None \in Credentials /\ None.hashed = 0
BY DEF None, Credentials

LEMMA ProvisionInit == Init => Inv
<1> SUFFICES ASSUME Init PROVE Inv
  OBVIOUS
<1>1. TypeOK
  <2>1. retry \in 0 .. RetryMax
    BY RetryAssumption DEF Init
  <2> QED
    BY <2>1, NoneType DEF Init, TypeOK, Pcs
<1>2. ProvisionInv
  BY RetryAssumption DEF Init, ProvisionInv, SavedAccepted, HashedOnce, OnlineAccepted
<1> QED
  BY <1>1, <1>2 DEF Inv

\* Whatever is entered is hashed once when it is used; loaded settings are used
\* as they are.
LEMMA UseType ==
    ASSUME Inv, pc = "connect" \/ pc = "portal",
           NEW t \in {Good, Typo, NoToken}, Use(Entered(t))
    PROVE  cur' \in Credentials /\ cur'.hashed = 1
<1>1. CASE loaded
  BY <1>1 DEF Use, Inv, TypeOK, ProvisionInv, Acceptable
<1>2. CASE ~loaded
  <2>1. cur' = [token |-> t, hashed |-> 1]
    BY <1>2 DEF Use, Hashed, Entered
  <2> QED
    BY <2>1 DEF Credentials
<1> QED
  BY <1>1, <1>2

LEMMA FreshStep ==
    ASSUME Inv, Fresh, file' \in {file, None}, wifi' \in BOOLEAN,
           apUp' \in BOOLEAN, serverUp' \in BOOLEAN, settled' \in BOOLEAN
    PROVE  Inv'
<1>1. TypeOK'
  <2>1. retry' \in 0 .. RetryMax
    BY RetryAssumption DEF Fresh
  <2> QED
    BY <2>1, NoneType DEF Inv, TypeOK, Fresh, Pcs
<1>2. ProvisionInv'
  BY RetryAssumption
     DEF Inv, ProvisionInv, SavedAccepted, HashedOnce, OnlineAccepted, Fresh, Acceptable
<1> QED
  BY <1>1, <1>2 DEF Inv

LEMMA ProvisionStep == Inv /\ [Next]_vars => Inv'
<1> SUFFICES ASSUME Inv, [Next]_vars PROVE Inv'
  OBVIOUS
<1> USE DEF Inv, ProvisionInv, SavedAccepted, HashedOnce, OnlineAccepted, flash, ram, world
<1>1. CASE LoadSettings
  BY <1>1, NoneType DEF LoadSettings, TypeOK, Pcs
<1>2. CASE Join
  <2>1. None = Entered(NoToken)
    BY DEF None, Entered
  <2>2. cur' \in Credentials /\ cur'.hashed = 1
    BY <1>2, <2>1, UseType DEF Join
  <2> QED
    BY <1>2, <2>2 DEF Join, TypeOK, Pcs
<1>3. CASE OpenPortal
  BY <1>3 DEF OpenPortal, TypeOK, Pcs
<1>4. ASSUME NEW t \in Input, Submit(t) PROVE Inv'
  <2>1. t \in {Good, Typo, NoToken}
    BY DEF Input
  <2>2. cur' \in Credentials /\ cur'.hashed = 1
    BY <1>4, <2>1, UseType DEF Submit
  <2> QED
    BY <1>4, <2>2 DEF Submit, TypeOK, Pcs
<1>5. CASE Auth
  BY <1>5 DEF Auth, TypeOK, Pcs
<1>6. CASE AuthFails
  <2>1. retry' \in 0 .. RetryMax /\ (pc' = "auth" => retry' < RetryMax)
    BY <1>6, RetryAssumption DEF AuthFails, TypeOK
  <2>2. pc' \in {"auth", "erase_fs"}
    BY <1>6 DEF AuthFails
  <2>3. TypeOK'
    BY <1>6, <2>1, <2>2 DEF AuthFails, TypeOK, Pcs
  <2> QED
    BY <1>6, <2>1, <2>2, <2>3 DEF AuthFails
<1>7. CASE SaveSettings
  BY <1>7 DEF SaveSettings, TypeOK, Pcs
<1>8. CASE EraseFiles
  BY <1>8, NoneType DEF EraseFiles, TypeOK, Pcs
<1>9. CASE EraseWifi \/ Restart
  BY <1>9, FreshStep DEF EraseWifi, Restart, TypeOK
<1>10. CASE Reset
  BY <1>10 DEF Reset, TypeOK, Pcs
<1>11. CASE WorldChanges \/ Settle
  <2>1. UNCHANGED <<file, wifi, loaded, cur, retry, pc, asked>>
    BY <1>11 DEF WorldChanges, Settle
  <2>2. apUp' \in BOOLEAN /\ serverUp' \in BOOLEAN /\ settled' \in BOOLEAN
    BY <1>11, Zenon DEF WorldChanges, Settle, TypeOK
  <2> QED
    BY <2>1, <2>2 DEF TypeOK
<1>12. CASE Loop \/ UNCHANGED vars
  BY <1>12 DEF Loop, vars, TypeOK, Pcs
<1> QED
  BY <1>1, <1>2, <1>3, <1>4, <1>5, <1>6, <1>7, <1>8, <1>9, <1>10, <1>11, <1>12
     DEF Next, Setup

\* The kit keeps in flash, and goes online with, only credentials the server has
\* accepted, with a password hashed once.
THEOREM ProvisionInvariance == Spec => []ProvisionInv
<1>1. Init => Inv
  BY ProvisionInit
<1>2. Inv /\ [Next]_vars => Inv'
  BY ProvisionStep
<1>3. Inv => ProvisionInv
  BY DEF Inv
<1> QED
  BY <1>1, <1>2, <1>3, PTL DEF Spec

\* The attempts stay within the limit, and a credential is hashed at most once.
THEOREM TypeCorrect == Spec => []TypeOK
<1>1. Init => Inv
  BY ProvisionInit
<1>2. Inv /\ [Next]_vars => Inv'
  BY ProvisionStep
<1>3. Inv => TypeOK
  BY DEF Inv
<1> QED
  BY <1>1, <1>2, <1>3, PTL DEF Spec

\* The erasing part of wifiReset is reached only when asked for, or when the
\* attempts are used up.
EraseInv == pc = "erase_fs" => asked \/ retry = RetryMax

LEMMA EraseStep == Inv /\ EraseInv /\ [Next]_vars => EraseInv'
<1> SUFFICES ASSUME Inv, EraseInv, [Next]_vars PROVE EraseInv'
  OBVIOUS
<1> USE DEF EraseInv, flash, ram, world
<1>1. CASE AuthFails
  <2>1. retry < RetryMax /\ retry \in Nat
    BY <1>1 DEF AuthFails, Inv, TypeOK, ProvisionInv
  <2> QED
    BY <1>1, <2>1, RetryAssumption DEF AuthFails
<1>2. CASE Reset
  BY <1>2 DEF Reset
<1>3. CASE WorldChanges \/ Settle
  BY <1>3 DEF WorldChanges, Settle
<1>4. CASE LoadSettings \/ Join \/ OpenPortal \/ Auth \/ SaveSettings \/ EraseFiles
            \/ EraseWifi \/ Restart
  BY <1>4 DEF LoadSettings, Join, OpenPortal, Auth, SaveSettings, EraseFiles, EraseWifi,
              Restart, Fresh
<1>5. ASSUME NEW t, Submit(t) PROVE EraseInv'
  BY <1>5 DEF Submit
<1>6. CASE Loop \/ UNCHANGED vars
  BY <1>6 DEF Loop, vars
<1> QED
  BY <1>1, <1>2, <1>3, <1>4, <1>5, <1>6 DEF Next, Setup

\* Accepted credentials are lost only to a reset that was asked for, or after
\* the last attempt.
THEOREM CredentialsKept == Spec => Kept
<1>1. Init => Inv /\ EraseInv
  BY ProvisionInit DEF Init, EraseInv
<1>2. Inv /\ EraseInv /\ [Next]_vars => (Inv /\ EraseInv)'
  BY ProvisionStep, EraseStep
<1>3. Inv /\ EraseInv /\ [Next]_vars
        => [file # None /\ file' = None => asked \/ retry = RetryMax]_vars
  <2> SUFFICES ASSUME Inv, EraseInv, Next, file # None, file' = None
               PROVE  asked \/ retry = RetryMax
    BY DEF vars
  <2>1. CASE EraseFiles
    BY <2>1 DEF EraseFiles, EraseInv
  <2>2. CASE SaveSettings
    <3>1. cur = None
      BY <2>2 DEF SaveSettings
    <3>2. cur.hashed = 1
      BY <2>2 DEF SaveSettings, Inv, ProvisionInv, HashedOnce
    <3> QED
      BY <3>1, <3>2, NoneType
  <2>3. ASSUME NEW t, Submit(t) PROVE FALSE
    BY <2>3 DEF Submit
  <2>4. CASE Next /\ ~EraseFiles /\ ~SaveSettings /\ ~(\E t \in Input : Submit(t))
    <3>1. file' = file
      BY <2>4 DEF Next, Setup, LoadSettings, Join, OpenPortal, Auth, AuthFails, EraseWifi,
                  Loop, Reset, Restart, WorldChanges, Settle, flash, vars
    <3> QED
      BY <3>1
  <2> QED
    BY <2>1, <2>2, <2>3, <2>4
<1> QED
  BY <1>1, <1>2, <1>3, PTL DEF Spec, Kept

-----------------------------------------------------------------------------
(* Flash as its owner may rely on it.                                       *)

\* Where the network and the file stand while setup() runs
FlashInv ==
    /\ CredentialsHaveNetwork
    /\ pc \in {"auth", "save", "online"} => wifi
    /\ pc = "erase_wifi" => file = None

LEMMA FlashStep == Inv /\ FlashInv /\ [Next]_vars => FlashInv'
<1> SUFFICES ASSUME Inv, FlashInv, [Next]_vars PROVE FlashInv'
  OBVIOUS
<1> USE DEF FlashInv, CredentialsHaveNetwork, flash, ram, world
<1>1. CASE LoadSettings \/ OpenPortal \/ Reset
  BY <1>1 DEF LoadSettings, OpenPortal, Reset
<1>2. CASE Join
  BY <1>2 DEF Join
<1>3. ASSUME NEW t \in Input, Submit(t) PROVE FlashInv'
  BY <1>3 DEF Submit
<1>4. CASE Auth \/ SaveSettings
  BY <1>4 DEF Auth, SaveSettings
<1>5. CASE AuthFails
  <2>1. pc = "auth" /\ pc' \in {"auth", "erase_fs"} /\ UNCHANGED <<file, wifi>>
    BY <1>5 DEF AuthFails
  <2> QED
    BY <2>1
<1>6. CASE EraseFiles
  BY <1>6 DEF EraseFiles
<1>7. CASE EraseWifi \/ Restart
  BY <1>7 DEF EraseWifi, Restart, Fresh
<1>8. CASE WorldChanges \/ Settle \/ Loop \/ UNCHANGED vars
  BY <1>8 DEF WorldChanges, Settle, Loop, vars
<1> QED
  BY <1>1, <1>2, <1>3, <1>4, <1>5, <1>6, <1>7, <1>8 DEF Next, Setup

THEOREM FlashInvariance == Spec => [](Inv /\ FlashInv)
<1>1. Init => Inv /\ FlashInv
  BY ProvisionInit DEF Init, FlashInv, CredentialsHaveNetwork
<1>2. Inv /\ FlashInv /\ [Next]_vars => (Inv /\ FlashInv)'
  BY ProvisionStep, FlashStep
<1> QED
  BY <1>1, <1>2, PTL DEF Spec

\* Credentials are never left behind without their network: wifiReset erases the
\* file first, and saveSettings comes after the connection.
THEOREM NetworkKept == Spec => []CredentialsHaveNetwork
<1>1. FlashInv => CredentialsHaveNetwork
  BY DEF FlashInv
<1> QED
  BY <1>1, FlashInvariance, PTL

\* Every step of setup() and wifiReset is a step of the store or leaves it alone.
LEMMA StoreStep == Inv /\ FlashInv /\ [Next]_vars => [Flash!Next]_(Flash!vars)
<1> SUFFICES ASSUME Inv, FlashInv, [Next]_vars
             PROVE  Flash!Next \/ UNCHANGED Flash!vars
  OBVIOUS
<1> DEFINE Condemned == pc \in {"erase_fs", "erase_wifi"}
<1>q. ASSUME UNCHANGED <<file, wifi, retry, asked>>, Condemned' <=> Condemned
      PROVE  UNCHANGED Flash!vars
  BY <1>q DEF Flash!vars
<1> USE DEF flash, ram, world
<1>1. CASE LoadSettings \/ OpenPortal \/ Auth
  BY <1>q, <1>1 DEF LoadSettings, OpenPortal, Auth
<1>2. CASE Join
  BY <1>q, <1>2 DEF Join
<1>3. ASSUME NEW t \in Input, Submit(t) PROVE Flash!Next
  <2>1. ~Condemned /\ ~Condemned' /\ wifi' = TRUE /\ UNCHANGED <<file, retry, asked>>
    BY <1>3 DEF Submit
  <2> QED
    BY <2>1 DEF Flash!Join, Flash!Next
<1>4. CASE SaveSettings
  <2>1. ~Condemned /\ ~Condemned' /\ wifi /\ UNCHANGED <<wifi, retry, asked>>
    BY <1>4 DEF SaveSettings, FlashInv
  <2>2. CASE file' = cur
    <3>1. file' \in {c \in Credentials : Acceptable(c)}
      BY <1>4, <2>2 DEF SaveSettings, Inv, TypeOK, ProvisionInv
    <3> QED
      BY <2>1, <3>1 DEF Flash!Keep, Flash!Next
  <2>3. CASE file' = file
    BY <1>q, <2>1, <2>3
  <2> QED
    BY <1>4, <2>2, <2>3 DEF SaveSettings
<1>5. CASE AuthFails
  <2>1. ~Condemned /\ asked' = FALSE /\ UNCHANGED <<file, wifi>>
    BY <1>5 DEF AuthFails
  <2>2. retry < RetryMax /\ retry' = retry + 1
    BY <1>5 DEF AuthFails, Inv, ProvisionInv
  <2>3. Condemned' <=> retry' = RetryMax
    BY <1>5, <2>2, RetryAssumption DEF AuthFails, Inv, TypeOK
  <2> QED
    BY <2>1, <2>2, <2>3 DEF Flash!Fail, Flash!Next
<1>6. CASE EraseFiles
  BY <1>6 DEF EraseFiles, Flash!EraseStored, Flash!Next
<1>7. CASE EraseWifi
  <2>1. /\ Condemned /\ ~Condemned' /\ file = None /\ wifi' = FALSE
        /\ retry' = 0 /\ asked' = FALSE /\ file' = file
    BY <1>7 DEF EraseWifi, Fresh, FlashInv
  <2> QED
    BY <2>1 DEF Flash!EraseNetwork, Flash!Next
<1>8. CASE Restart
  BY <1>8 DEF Restart, Fresh, Flash!Restart, Flash!Next
<1>9. CASE Reset
  BY <1>9 DEF Reset, Flash!Ask, Flash!Next
<1>10. CASE WorldChanges \/ Settle \/ Loop \/ UNCHANGED vars
  BY <1>q, <1>10 DEF WorldChanges, Settle, Loop, vars
<1> QED
  BY <1>1, <1>2, <1>3, <1>4, <1>5, <1>6, <1>7, <1>8, <1>9, <1>10 DEF Next, Setup

\* setup(), the portal and wifiReset keep the promise of Store.
THEOREM ImplementsStore == Spec => FlashKept
<1>1. Init => Flash!Init
  BY DEF Init, Flash!Init
<1> QED
  BY <1>1, StoreStep, FlashInvariance, PTL DEF Spec, FlashKept, Flash!Spec

-----------------------------------------------------------------------------
(* setup() ends.                                                            *)

LEMMA StepsType == Inv => StepsLeft \in 0 .. RetryMax + 5
BY RetryAssumption DEF Inv, TypeOK, Pcs, StepsLeft

\* Every start of the kit ends after at most RetryMax + 5 steps, the one of whoever
\* fills in the portal among them: in the loop, or in the restart of wifiReset.
THEOREM SetupEnds == Spec => [](StepsLeft \in 0 .. RetryMax + 5) /\ SetupAdvances
<1>1. Init => Inv
  BY ProvisionInit
<1>2. Inv /\ [Next]_vars => Inv'
  BY ProvisionStep
<1>3. Inv /\ [Next]_vars => [Setup /\ ~EraseWifi => StepsLeft' < StepsLeft]_vars
  <2> SUFFICES ASSUME Inv, Setup, ~EraseWifi PROVE StepsLeft' < StepsLeft
    BY Zenon
  <2>n. retry \in Nat /\ retry <= RetryMax /\ RetryMax \in Nat
    BY RetryAssumption DEF Inv, TypeOK
  <2> USE DEF StepsLeft, ram
  <2>1. CASE LoadSettings
    BY <2>1, <2>n DEF LoadSettings
  <2>2. CASE OpenPortal \/ Auth
    BY <2>2, <2>n DEF OpenPortal, Auth
  <2>3. CASE Join
    BY <2>3, <2>n DEF Join
  <2>4. ASSUME NEW t \in Input, Submit(t) PROVE StepsLeft' < StepsLeft
    BY <2>4, <2>n DEF Submit
  <2>5. CASE AuthFails
    <3>1. pc = "auth" /\ retry' = retry + 1 /\ retry < RetryMax
      BY <2>5 DEF AuthFails, Inv, ProvisionInv
    <3>2. pc' \in {"auth", "erase_fs"}
      BY <2>5 DEF AuthFails
    <3> QED
      BY <2>n, <3>1, <3>2
  <2>6. CASE SaveSettings \/ EraseFiles
    BY <2>6 DEF SaveSettings, EraseFiles
  <2> QED
    BY <2>1, <2>2, <2>3, <2>4, <2>5, <2>6 DEF Setup
<1> QED
  BY <1>1, <1>2, <1>3, StepsType, PTL DEF Spec, SetupAdvances
=============================================================================
