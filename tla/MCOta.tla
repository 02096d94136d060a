-------------------------------- MODULE MCOta --------------------------------
(* Instances of Ota for TLC. *)
EXTENDS Ota

Release(j, n, p, r) == [major |-> j, minor |-> n, patch |-> p, release |-> r]

MCNewest == Release(1, 0, 0, 0)

\* Each part decides a comparison against the ones after it.
MCReleases ==
    {Release(0, 0, 0, 1), Release(0, 0, 1, 0), Release(0, 1, 0, 0), MCNewest}
=============================================================================
