----------------------------- MODULE HostConfig -----------------------------
(***************************************************************************)
(* The host's own configuration file (host_config.py).  Bootstraps of the  *)
(* past wrote a managed telemetry block into it; every run of ensure       *)
(* removes what it finds of that.  The file belongs to the user and has no *)
(* lock: what a run read, it writes back without the block, after copying  *)
(* the file as it is by then to a backup.                                  *)
(*                                                                         *)
(* One file: Codex' config.toml, whose block can be malformed.  Claude's   *)
(* settings.json has the same three steps; what does not parse there is an *)
(* error of the run.  The user's text is abstracted to the edits it has;   *)
(* an edit adds something, and may damage, repair or remove the markers.   *)
(***************************************************************************)
EXTENDS Integers

CONSTANTS
  Process,
  MaxEdits       \* bound: the user's edits

ASSUME EditsAreNat == MaxEdits \in Nat

VARIABLES
  file,          \* the configuration file: its markers and the edits in it
  saved,         \* the edits that some backup has
  copy,          \* what each process has read
  replacing,     \* the processes between their backup and their replacement
  \* Bookkeeping.
  made,          \* edits so far
  unsafe         \* edits made while a process was about to replace the file

configVars == <<file, saved, copy, replacing, made, unsafe>>

Markers == {"none", "managed", "malformed"}
Edit == 1 .. MaxEdits
Contents == [markers : Markers, edits : SUBSET Edit]
Empty == [markers |-> "none", edits |-> {}]

ConfigTypeOK ==
  /\ file \in Contents
  /\ saved \in SUBSET Edit
  /\ copy \in [Process -> Contents]
  /\ replacing \in SUBSET Process
  /\ made \in 0 .. MaxEdits
  /\ unsafe \in SUBSET Edit

ConfigInit ==
  /\ file \in [markers : {"none", "managed"}, edits : {{}}]   \* as a bootstrap left it
  /\ saved = {} /\ unsafe = {}
  /\ copy = [p \in Process |-> Empty]
  /\ replacing = {}
  /\ made = 0

(* What has no managed block is not written back. *)
ReadFile(p) ==
  /\ copy' = [copy EXCEPT ![p] = IF file.markers = "managed" THEN file ELSE Empty]
  /\ UNCHANGED <<file, saved, replacing, made, unsafe>>

(* Mistake: keeps what was read instead of what is there. *)
BackUpWhatWasRead(p) ==
  /\ saved' = saved \cup copy[p].edits
  /\ replacing' = replacing \cup {p}
  /\ UNCHANGED <<file, copy, made, unsafe>>

(* The copy that _write_with_backup makes is one of the file as it is now. *)
BackUp(p) ==
  /\ saved' = saved \cup file.edits
  /\ replacing' = replacing \cup {p}
  /\ UNCHANGED <<file, copy, made, unsafe>>

(* The atomic replacement; the new contents come from what p read. *)
ReplaceFile(p) ==
  /\ file' = [markers |-> "none", edits |-> copy[p].edits]
  /\ replacing' = replacing \ {p}
  /\ copy' = [copy EXCEPT ![p] = Empty]
  /\ UNCHANGED <<saved, made, unsafe>>

(* p ends before its replacement, if it had one to make. *)
Forget(p) ==
  /\ copy' = [copy EXCEPT ![p] = Empty]
  /\ replacing' = replacing \ {p}
  /\ UNCHANGED <<file, saved, made, unsafe>>

UserEdits(m) ==
  /\ made < MaxEdits
  /\ file.markers = "none" => m = "none"
  /\ made' = made + 1
  /\ file' = [markers |-> m, edits |-> file.edits \cup {made'}]
  /\ unsafe' = IF replacing = {} THEN unsafe ELSE unsafe \cup {made'}
  /\ UNCHANGED <<saved, copy, replacing>>
-----------------------------------------------------------------------------
(* Whatever the user wrote is in the file or in a backup, however many runs
   clean the file at the same time; the exception is what was written in the
   moment between some run's backup and its replacement of the file
   (_write_with_backup).                                                     *)
EditsAreKept == 1 .. made \subseteq file.edits \cup saved \cup unsafe
=============================================================================
