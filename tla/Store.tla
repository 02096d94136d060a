-------------------------------- MODULE Store ---------------------------------
(***************************************************************************)
(* Flash, as its owner may rely on it: it holds credentials the server has  *)
(* accepted, or none, and the network they were accepted over.  They are    *)
(* replaced by other accepted ones, and lost only when the kit is condemned *)
(* to be erased: because somebody asked for it, or because the attempts     *)
(* since power-on are used up.  Credentials go first and the network after  *)
(* them; a restart in between leaves a network without credentials, never   *)
(* credentials without a network.  Provisioning is shown to implement this. *)
(***************************************************************************)
EXTENDS Naturals

CONSTANTS
    Accepted,  \* the credentials the server accepts
    Nothing,   \* no credentials
    Attempts   \* how many attempts may fail

VARIABLES
    stored,    \* the credentials in flash
    network,   \* does flash know a network
    failed,    \* the attempts that failed since power-on
    wanted,    \* did somebody ask for flash to be erased
    condemned  \* is flash being erased

vars == <<stored, network, failed, wanted, condemned>>

Init == stored = Nothing /\ ~network /\ failed = 0 /\ ~wanted /\ ~condemned

Join ==
    /\ ~condemned
    /\ network' = TRUE
    /\ UNCHANGED <<stored, failed, wanted, condemned>>

Keep ==
    /\ ~condemned /\ network
    /\ stored' \in Accepted
    /\ UNCHANGED <<network, failed, wanted, condemned>>

Fail ==
    /\ ~condemned
    /\ failed < Attempts
    /\ failed' = failed + 1
    /\ condemned' = (failed' = Attempts)
    /\ wanted' = FALSE
    /\ UNCHANGED <<stored, network>>

Ask ==
    /\ wanted' = TRUE /\ condemned' = TRUE
    /\ UNCHANGED <<stored, network, failed>>

EraseStored ==
    /\ condemned
    /\ stored' = Nothing
    /\ UNCHANGED <<network, failed, wanted, condemned>>

EraseNetwork ==
    /\ condemned /\ stored = Nothing
    /\ network' = FALSE
    /\ failed' = 0 /\ wanted' = FALSE /\ condemned' = FALSE
    /\ UNCHANGED stored

Restart ==
    /\ failed' = 0 /\ wanted' = FALSE /\ condemned' = FALSE
    /\ UNCHANGED <<stored, network>>

Next == Join \/ Keep \/ Fail \/ Ask \/ EraseStored \/ EraseNetwork \/ Restart

Spec == Init /\ [][Next]_vars
=============================================================================
