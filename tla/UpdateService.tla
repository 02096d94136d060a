---------------------------- MODULE UpdateService -----------------------------
(***************************************************************************)
(* What the server may rely on when it offers firmware: the kit carries out *)
(* one update at a time, of its own device class, custom or later than what *)
(* it runs; the firmware changes by that update and by nothing else; and    *)
(* the version the server hears is the one that runs, never while an update *)
(* is under way: whatever it hears after it was told "downloading" is the   *)
(* outcome.  Ota is shown to implement this.                                *)
(***************************************************************************)
EXTENDS Version

CONSTANTS
    Releases, \* the versions there are
    Custom,   \* the version "custom"
    Offers,   \* the updates the server may offer
    NoOffer   \* none of them

VARIABLES
    running, \* the version that runs
    update,  \* the update that is carried out, or NoOffer
    known,   \* the version the server heard of last
    told     \* what the server was told last

vars == <<running, update, known, told>>

Fits(offer) ==
    offer.name = "own" /\ (offer.version = Custom \/ Later(offer.image, running))

Init ==
    /\ running \in Releases
    /\ update = NoOffer
    /\ known = Malformed
    /\ told = "none"

Tell(what) == told' \in {told, what}

Refuse ==
    /\ update = NoOffer
    /\ Tell("failed")
    /\ UNCHANGED <<running, update, known>>

Accept(offer) ==
    /\ update = NoOffer
    /\ Fits(offer)
    /\ update' = offer
    /\ Tell("downloading")
    /\ UNCHANGED <<running, known>>

Install ==
    /\ update # NoOffer
    /\ running' = update.image
    /\ update' = NoOffer
    /\ UNCHANGED <<known, told>>

\* A download that fails, or whose image is lost with the power
Abandon ==
    /\ update' = NoOffer
    /\ UNCHANGED <<running, known, told>>

Report ==
    /\ update = NoOffer
    /\ known' = running
    /\ told' = "version"
    /\ UNCHANGED <<running, update>>

Next == Refuse \/ Install \/ Abandon \/ Report \/ \E offer \in Offers : Accept(offer)

Spec == Init /\ [][Next]_vars
=============================================================================
