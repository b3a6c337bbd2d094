------------------------- MODULE TranscriptDelivery -------------------------
(***************************************************************************)
(* What trace collection promises of a transcript that only grows: the     *)
(* worker receives its records in order, whole and once, and the machine   *)
(* considers as sent only what the worker received.                        *)
(***************************************************************************)
EXTENDS SourceRanges

CONSTANT Source

VARIABLES transcript, delivered, acknowledged

vars == <<transcript, delivered, acknowledged>>

Init ==
  /\ transcript = [s \in Source |-> <<>>]
  /\ delivered = transcript
  /\ acknowledged = transcript

(* From old to new, which begins with it and is longer. *)
Extends(old, new) == Begins(old, new) /\ old # new

Write(s) ==
  /\ Extends(transcript[s], transcript'[s])
  /\ transcript' = [transcript EXCEPT ![s] = transcript'[s]]
  /\ UNCHANGED <<delivered, acknowledged>>

(* The worker receives the next records: one or more, none of them partial. *)
Deliver(s) ==
  /\ \E end \in RecordEnds(transcript[s], Len(delivered[s])) :
       delivered' = [delivered EXCEPT ![s] = Slice(transcript[s], 0, end)]
  /\ Extends(delivered[s], delivered'[s])
  /\ UNCHANGED <<transcript, acknowledged>>

Acknowledge(s) ==
  /\ \E end \in (Len(acknowledged[s]) + 1) .. Len(delivered[s]) :
       acknowledged' = [acknowledged EXCEPT ![s] = Slice(delivered[s], 0, end)]
  /\ Extends(acknowledged[s], acknowledged'[s])
  /\ UNCHANGED <<transcript, delivered>>

Next == \E s \in Source : Write(s) \/ Deliver(s) \/ Acknowledge(s)

Spec == Init /\ [][Next]_vars
=============================================================================
