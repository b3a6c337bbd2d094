------------------------------- MODULE SemVer -------------------------------
(***************************************************************************)
(* The order of hub release versions (versions.py, _compare_semver and its *)
(* neighbours).  Versions are the parsed groups of SEMVER_RE.  Build       *)
(* metadata is left out: no comparison looks at it.                        *)
(***************************************************************************)
EXTENDS Integers, Sequences

\* A prerelease identifier is <<0, n>> for the number n and <<1, n>> for the
\* n-th of the strings that are not numbers, in their ASCII order.
Identifier == {0, 1} \X Nat

\* pre = <<>> is a version without prerelease part.
Version == [core : Nat \X Nat \X Nat, pre : Seq(Identifier)]

\* The three numbers compared as Python compares tuples.
CoreBelow(a, b) ==
  \/ a[1] < b[1]
  \/ a[1] = b[1] /\ a[2] < b[2]
  \/ a[1] = b[1] /\ a[2] = b[2] /\ a[3] < b[3]

IdentifierBelow(a, b) ==
  \/ a[1] < b[1]
  \/ a[1] = b[1] /\ a[2] < b[2]

AgreeBefore(a, b, i) == \A j \in 1 .. i - 1 : a[j] = b[j]

(* The first identifiers that differ decide; if there are none, the longer *)
(* list is above; and no prerelease at all is above any.                   *)
PrereleaseBelow(a, b) ==
  /\ a # <<>>
  /\ \/ b = <<>>
     \/ \E i \in 1 .. Len(a) :
          i <= Len(b) /\ AgreeBefore(a, b, i) /\ IdentifierBelow(a[i], b[i])
     \/ Len(a) < Len(b) /\ AgreeBefore(a, b, Len(a) + 1)

\* _compare_semver(a, b) is -1.
Below(a, b) ==
  \/ CoreBelow(a.core, b.core)
  \/ a.core = b.core /\ PrereleaseBelow(a.pre, b.pre)

MaxSemver(first, second) == IF Below(first, second) THEN second ELSE first

BumpPatch(version) ==
  [core |-> <<version.core[1], version.core[2], version.core[3] + 1>>, pre |-> <<>>]
=============================================================================
