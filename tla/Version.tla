------------------------------- MODULE Version -------------------------------
(***************************************************************************)
(* Firmware versions, "major.minor.patch_rN" with an optional "_cN", and    *)
(* compareVersions of iris_client.cpp.                                      *)
(*                                                                         *)
(* A version is the four numbers compareVersions reads; the device class    *)
(* after "_c" is cut off before the comparison.  Strings that do not parse  *)
(* (empty, without "_r", with fewer than two dots) are one value.           *)
(***************************************************************************)
EXTENDS Integers

CONSTANTS
    Numbers,   \* what toInt may return
    Malformed  \* a string that does not parse

Versions == [major : Numbers, minor : Numbers, patch : Numbers, release : Numbers]

ASSUME VersionAssumption == Numbers \subseteq Int /\ Malformed \notin Versions

Sign(a, b) == IF a > b THEN 1 ELSE -1

\* Mutant: the release decides before the patch
CompareVersions_ReleaseFirst(a, b) ==
    CASE Malformed \in {a, b}   -> 0
      [] OTHER ->
         IF a.major # b.major THEN Sign(a.major, b.major)
         ELSE IF a.minor # b.minor THEN Sign(a.minor, b.minor)
         ELSE IF a.release # b.release THEN Sign(a.release, b.release)
         ELSE IF a.patch # b.patch THEN Sign(a.patch, b.patch)
         ELSE 0

\* compareVersions
CompareVersions(a, b) ==
    CASE Malformed \in {a, b}   -> 0
      [] OTHER ->
         IF a.major # b.major THEN Sign(a.major, b.major)
         ELSE IF a.minor # b.minor THEN Sign(a.minor, b.minor)
         ELSE IF a.patch # b.patch THEN Sign(a.patch, b.patch)
         ELSE IF a.release # b.release THEN Sign(a.release, b.release)
         ELSE 0

-----------------------------------------------------------------------------
(* The reference: versions are ordered by their numbers, from the left.     *)

Fields == <<"major", "minor", "patch", "release">>

Later(a, b) ==
    \E i \in 1 .. 4 :
        /\ a[Fields[i]] > b[Fields[i]]
        /\ \A j \in 1 .. i - 1 : a[Fields[j]] = b[Fields[j]]

\* compareVersions tells which of two versions is later, and answers 0 to what
\* it cannot parse, which handleFirmwareUpdate takes for a refusal.
ComparesRight(a, b) ==
    CASE Malformed \in {a, b} -> CompareVersions(a, b) = 0
      [] OTHER -> /\ CompareVersions(a, b) = 1 <=> Later(a, b)
                  /\ CompareVersions(a, b) = -1 <=> Later(b, a)
=============================================================================
