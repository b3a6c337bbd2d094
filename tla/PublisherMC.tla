---------------------------- MODULE PublisherMC ----------------------------
(* Constants of Publisher for TLC. *)
EXTENDS Publisher

CONSTANTS p1, p2, c1, c2, t1, t2

Final(major, minor, patch) == [core |-> <<major, minor, patch>>, pre |-> <<>>]
Alpha(major, minor, patch) == [Final(major, minor, patch) EXCEPT !.pre = <<<<1, 1>>>>]

(* 0.1.0-alpha and 0.1.1: the patch version after the first, and above it. *)
AlphaAndPatch == {Alpha(0, 1, 0), Final(0, 1, 1)}
(* 1.0.0-alpha and the release it leads up to.                             *)
AlphaAndFinal == {Alpha(1, 0, 0), Final(1, 0, 0)}

(* One version throughout.                                                 *)
Alphas == {Alpha(0, 1, 0)}

(* What the toolchains make of c1 differs outside the version basis only,  *)
(* what they make of c2 differs in it.                                     *)
Basis == [c \in Content, t \in Toolchain |-> IF c = c1 THEN <<c1>> ELSE <<c, t>>]

(* Publishers are interchangeable, and so are toolchains.                  *)
Names == Permutations({p1, p2}) \cup Permutations({t1, t2})
=============================================================================
