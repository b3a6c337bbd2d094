--------------------------- MODULE SessionStartMC ---------------------------
(* Constants of SessionStart for TLC. *)
EXTENDS SessionStart, TLC

(* The slots are interchangeable: what runs in one, its start decides. *)
Slots == Permutations(Process)
=============================================================================
