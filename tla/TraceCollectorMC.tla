-------------------------- MODULE TraceCollectorMC --------------------------
(* Constants of TraceCollector for TLC. *)
EXTENDS TraceCollector

CONSTANTS s1, s2, rec, new, nl

(* Two sessions hook the same transcript; or s1 hooks the first source and s2,
   as in Claude Desktop, none.                                               *)
SharedTranscript == [p \in Process |-> 1]
OneTranscript == [p \in Process |-> IF p = s1 THEN 1 ELSE 0]

(* A whole record, a piece of one, and the piece that ends it. *)
WholeAndPartial == {<<rec, nl>>, <<rec>>, <<nl>>}
WholeRecords == {<<rec, nl>>}
OneByteRecords == {<<nl>>}

(* Truncation to nothing, and another first record in place of the old one. *)
TruncatedOrNew == {<<>>, <<new, nl>>}
=============================================================================
