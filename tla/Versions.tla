------------------------------ MODULE Versions ------------------------------
(***************************************************************************)
(* internal/update/version.go: release versions MAJOR.MINOR.PATCH, their   *)
(* order, and what a client of one version is told about an update.        *)
(***************************************************************************)
EXTENDS Integers

Version == [major : Nat, minor : Nat, patch : Nat]

\* Compare: -1, 0 or 1, as the first part in which they differ says.
Order(a, b) == IF a < b THEN -1 ELSE IF a > b THEN 1 ELSE 0

Compare(v, w) ==
    IF v.major # w.major THEN Order(v.major, w.major)
    ELSE IF v.minor # w.minor THEN Order(v.minor, w.minor)
    ELSE Order(v.patch, w.patch)

\* What the manifest of a server says of a client: Manifest.validate refuses
\* one whose minimum exceeds its latest version.
Manifest == {m \in [latest : Version, minimum : Version] :
                Compare(m.minimum, m.latest) <= 0}

DecisionFor(current, latest, minimum) ==
    IF Compare(current, minimum) < 0 THEN "required"
    ELSE IF Compare(current, latest) < 0 THEN "optional"
    ELSE IF Compare(current, latest) > 0 THEN "ahead"
    ELSE "current"

=============================================================================
