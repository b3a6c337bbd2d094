---------------------------- MODULE EnrollmentMC ----------------------------
(* Constants of Enrollment for TLC. *)
EXTENDS Enrollment

CONSTANTS e1, e2, n, c

(* Two session starts, an enroll command and a collector. *)
Kinds == [p \in Process |-> IF p = n THEN "enroll" ELSE IF p = c THEN "collect" ELSE "ensure"]
=============================================================================
