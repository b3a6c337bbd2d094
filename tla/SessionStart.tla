---------------------------- MODULE SessionStart ----------------------------
(***************************************************************************)
(* A session starts.  The hook's process spawns a detached supervisor,     *)
(* says what is due to be said and ends; the supervisor enrolls, cleans    *)
(* the host's configuration and leaves its result for a later session to   *)
(* announce.  `ensure' does all of it in one process that the user sees    *)
(* (cli.py, notices.py, output.py; the reset of status.py).                *)
(*                                                                         *)
(* Three kinds of notices come out of it: the plugin was updated to a      *)
(* version, the host is enrolled (once per host and reset), and a welcome  *)
(* for internal users (once per version).  What was announced is kept in   *)
(* the state file.  Every section under the file's lock is one step.       *)
(*                                                                         *)
(* Abstracted: how a credential is obtained (Enrollment) is an outcome;    *)
(* the policy and the check-in succeed or fail; the supervisor's collect   *)
(* (TraceCollector) comes after; logs and the last status are left out.    *)
(* One agent host.  The two locked sections of the welcome, the test of    *)
(* the identity and the claim, are one step: only the latter writes, and   *)
(* it checks again what it writes.                                         *)
(***************************************************************************)
EXTENDS HostConfig

CONSTANTS
  Commands,      \* what is started: of "launcher", "ensure", "quiet ensure"
  MaxVersion,    \* bound: plugin versions, installed one after the other
  MaxMishaps     \* bound: deaths, failures, resets and edits together

ASSUME CommandsAreKnown == Commands \subseteq {"launcher", "ensure", "quiet ensure"}
ASSUME BoundsAreNat == MaxVersion \in Nat \ {0} /\ MaxMishaps \in Nat

VARIABLES
  \* host-enrollment.json, as far as notices go; 0 is no version.
  seen,          \* last_seen_plugin_versions
  firstPending,  \* the deferred first success: a status, or "none"
  firstShown,    \* first_enrollment_success_shown
  welcomed,      \* internal_promptless_welcome_shown_versions
  \* Each process.
  pc, kind,
  version,       \* of the plugin it was started from
  lastSeen,      \* what it read as last seen, or UpToDate
  status,        \* the status of its final output
  held,          \* notices in hand
  out,           \* the queued control output
  \* The installed plugin, and bookkeeping.
  installed,
  resets, mishaps,
  shown,         \* notices the host was given, and those that died with their process
  repeated,      \* one-time notices it was given again
  baseline       \* `seen' was recorded by a run that knew of no version before

stateFile == <<seen, firstPending, firstShown, welcomed>>
runVars == <<pc, kind, version, lastSeen, status, held, out>>
history == <<shown, repeated, baseline>>
bounds == <<resets, mishaps>>
vars == <<stateFile, runVars, installed, bounds, history, configVars>>

Version == 1 .. MaxVersion
UpToDate == -1
Healthy == {"configured", "needs_restart"}
Priority == [notice |-> 0, browser_enrollment_starting |-> 10, configured |-> 20,
             needs_restart |-> 80, setup_pending |-> 90, blocked |-> 100, error |-> 110]
Nothing == [priority |-> -1, notices |-> {}]
Kinds == {"launcher", "ensure", "quiet ensure", "supervisor"}
Pc == {"off", "read update", "claim first", "enroll", "read config", "back up",
       "replace", "settle", "welcome", "emit", "flush"}

Update(v) == <<"update", v>>
First == <<"first", resets>>
Welcome(v) == <<"welcome", v>>
OneTime == {<<"first", r>> : r \in 0 .. MaxMishaps} \cup {Welcome(v) : v \in Version}
Notice == OneTime \cup {Update(v) : v \in Version}
Control == [priority : -1 .. 110, notices : SUBSET Notice]

TypeOK ==
  /\ ConfigTypeOK
  /\ seen \in 0 .. MaxVersion
  /\ firstPending \in Healthy \cup {"none"}
  /\ firstShown \in BOOLEAN
  /\ welcomed \in SUBSET Version
  /\ pc \in [Process -> Pc] /\ kind \in [Process -> Kinds]
  /\ version \in [Process -> Version]
  /\ lastSeen \in [Process -> UpToDate .. MaxVersion]
  /\ status \in [Process -> DOMAIN Priority]
  /\ held \in [Process -> SUBSET Notice]
  /\ out \in [Process -> Control]
  /\ installed \in Version
  /\ mishaps \in 0 .. MaxMishaps /\ resets \in 0 .. mishaps
  /\ shown \in SUBSET Notice /\ repeated \in SUBSET OneTime
  /\ baseline \in BOOLEAN

Init ==
  /\ ConfigInit
  /\ seen = 0 /\ firstPending = "none"
  /\ firstShown = FALSE
  /\ welcomed = {}
  /\ pc = [p \in Process |-> "off"]
  /\ kind = [p \in Process |-> "quiet ensure"]
  /\ version = [p \in Process |-> 1]
  /\ lastSeen = [p \in Process |-> UpToDate]
  /\ status = [p \in Process |-> "notice"]
  /\ held = [p \in Process |-> {}]
  /\ out = [p \in Process |-> Nothing]
  /\ installed = 1
  /\ resets = 0 /\ mishaps = 0
  /\ shown = {} /\ repeated = {} /\ baseline = FALSE
-----------------------------------------------------------------------------
(* claim_notices and not quiet: the run may use notices up. *)
Claims(p) == kind[p] \in {"launcher", "ensure"}
Quiet(p) == kind[p] = "quiet ensure"

(* Deaths, failures, resets and the user's edits. *)
Mishap == mishaps < MaxMishaps /\ mishaps' = mishaps + 1

(* The step after a section of the state file, also when the section failed:
   all of them but enrollment's swallow their errors.                        *)
After(p) ==
  CASE pc[p] = "read update" -> IF kind[p] = "launcher" THEN "claim first" ELSE "enroll"
    [] pc[p] \in {"claim first", "settle"} -> IF Claims(p) THEN "welcome" ELSE "emit"
    [] pc[p] = "welcome" -> "emit"
Proceed(p) == pc' = [pc EXCEPT ![p] = After(p)]
Goto(p, step) == pc' = [pc EXCEPT ![p] = step]

(* Mistake: the first output stays. *)
QueuedOnce(p, s, notices) ==
  IF out[p] = Nothing THEN [priority |-> Priority[s], notices |-> notices] ELSE out[p]

(* _queue_control_output: an output of equal or higher priority replaces the
   one that waits.                                                           *)
Queued(p, s, notices) ==
  IF Priority[s] >= out[p].priority THEN [priority |-> Priority[s], notices |-> notices]
  ELSE out[p]

(* Nothing reads these of p any more; they are as in Init, so that two states do
   not differ in them.                                                       *)
Clear(p) ==
  /\ kind' = [kind EXCEPT ![p] = "quiet ensure"]
  /\ version' = [version EXCEPT ![p] = 1]
  /\ lastSeen' = [lastSeen EXCEPT ![p] = UpToDate]
  /\ status' = [status EXCEPT ![p] = "notice"]
  /\ held' = [held EXCEPT ![p] = {}]

(* The end of a process, whichever way. *)
Ends(p) ==
  /\ Goto(p, "off")
  /\ Clear(p)
  /\ out' = [out EXCEPT ![p] = Nothing]
  /\ Forget(p)

(* Only the flush is left, which replaces nothing: the priority is not read any
   more.  What a supervisor has queued goes to /dev/null.                     *)
ToBeFlushed(p, control) ==
  IF kind[p] = "supervisor" \/ control = Nothing THEN Ends(p)
  ELSE /\ Goto(p, "flush")
       /\ Clear(p)
       /\ out' = [out EXCEPT ![p] = [priority |-> 0, notices |-> control.notices]]
       /\ Forget(p)
-----------------------------------------------------------------------------
(* session-start --detach: the supervisor is spawned before anything is said.
   Both run from the plugin root that is installed now.                      *)
Launch(p, d) ==
  /\ "launcher" \in Commands /\ p # d
  /\ pc[p] = "off" /\ pc[d] = "off"
  /\ pc' = [pc EXCEPT ![p] = "read update", ![d] = "read update"]
  /\ kind' = [kind EXCEPT ![p] = "launcher", ![d] = "supervisor"]
  /\ version' = [version EXCEPT ![p] = installed, ![d] = installed]
  /\ UNCHANGED <<stateFile, lastSeen, status, held, out, installed, bounds, history,
                 configVars>>

StartEnsure(p, k) ==
  /\ k \in Commands \ {"launcher"} /\ pc[p] = "off"
  /\ Goto(p, "read update")
  /\ kind' = [kind EXCEPT ![p] = k]
  /\ version' = [version EXCEPT ![p] = installed]
  /\ UNCHANGED <<stateFile, lastSeen, status, held, out, installed, bounds, history,
                 configVars>>

(* The first time a version is seen at all is no update. *)
ReadUpdate(p) ==
  /\ pc[p] = "read update"
  /\ LET last == IF seen = version[p] THEN UpToDate ELSE seen
     IN /\ lastSeen' = [lastSeen EXCEPT ![p] = last]
        /\ held' = [held EXCEPT ![p] = IF last \in Version /\ Claims(p)
                                       THEN {Update(version[p])} ELSE {}]
  /\ Proceed(p)
  /\ UNCHANGED <<stateFile, kind, version, status, out, installed, bounds, history,
                 configVars>>

(* Mistake: claims without a look at what was shown. *)
ClaimAgain(p, s) ==
  IF s \in Healthy
  THEN /\ firstShown' = TRUE
       /\ firstPending' = "none"
       /\ held' = [held EXCEPT ![p] = @ \cup {First}]
  ELSE UNCHANGED <<firstShown, firstPending, held>>

(* _claim_first_enrollment_success under the lock, for status s. *)
ClaimFirstSuccess(p, s) ==
  IF s \in Healthy /\ ~firstShown
  THEN /\ firstShown' = TRUE
       /\ firstPending' = "none"
       /\ held' = [held EXCEPT ![p] = @ \cup {First}]
  ELSE UNCHANGED <<firstShown, firstPending, held>>

ClaimDeferred(p) ==
  /\ pc[p] = "claim first"
  /\ ClaimFirstSuccess(p, firstPending)
  /\ status' = [status EXCEPT ![p] = IF firstPending # "none" /\ ~firstShown
                                     THEN firstPending ELSE "notice"]
  /\ Proceed(p)
  /\ UNCHANGED <<seen, welcomed, kind, version, lastSeen, out, installed,
                 bounds, history, configVars>>

(* The banner of the enrollment leader; a supervisor's is never seen. *)
OpenBrowser(p) ==
  /\ pc[p] = "enroll" /\ out[p] = Nothing /\ kind[p] = "ensure"
  /\ out' = [out EXCEPT ![p] = Queued(p, "browser_enrollment_starting", {})]
  /\ UNCHANGED <<stateFile, pc, kind, version, lastSeen, status, held, installed,
                 bounds, history, configVars>>

EnrollmentPends(p) ==
  /\ pc[p] = "enroll"
  /\ status' = [status EXCEPT ![p] = "setup_pending"]
  /\ Goto(p, IF Claims(p) THEN "welcome" ELSE "emit")
  /\ UNCHANGED <<stateFile, kind, version, lastSeen, held, out, installed, bounds,
                 history, configVars>>

(* There is a credential and a signed policy. *)
GetPolicy(p) ==
  /\ pc[p] = "enroll"
  /\ \/ /\ status' = [status EXCEPT ![p] = "blocked"]   \* a newer runtime is required
        /\ Goto(p, "settle")
     \/ /\ Goto(p, "read config")
        /\ UNCHANGED status
  /\ UNCHANGED <<stateFile, kind, version, lastSeen, held, out, installed, bounds, history,
                 configVars>>

ReadConfig(p) ==
  /\ pc[p] = "read config"
  /\ ReadFile(p)
  /\ Goto(p, IF file.markers = "managed" THEN "back up" ELSE "settle")
  /\ status' = [status EXCEPT ![p] = CASE file.markers = "malformed" -> "blocked"
                                       [] file.markers = "managed" -> "needs_restart"
                                       [] file.markers = "none" -> "configured"]
  /\ UNCHANGED <<stateFile, kind, version, lastSeen, held, out, installed, bounds, history>>

BackUpConfig(p) ==
  /\ pc[p] = "back up"
  /\ BackUp(p)
  /\ Goto(p, "replace")
  /\ UNCHANGED <<stateFile, kind, version, lastSeen, status, held, out, installed,
                 bounds, history>>

ReplaceConfig(p) ==
  /\ pc[p] = "replace"
  /\ ReplaceFile(p)
  /\ Goto(p, "settle")
  /\ UNCHANGED <<stateFile, kind, version, lastSeen, status, held, out, installed,
                 bounds, history>>

(* Mistake: defers what is no success, too. *)
DeferAnyStatus(p) ==
  /\ firstPending' = IF ~firstShown THEN status[p] ELSE firstPending
  /\ UNCHANGED <<firstShown, held>>

(* _defer_first_enrollment_success_notice under the lock. *)
DeferFirstSuccess(p) ==
  /\ firstPending' = IF status[p] \in Healthy /\ ~firstShown THEN status[p] ELSE firstPending
  /\ UNCHANGED <<firstShown, held>>

(* The check-in went well: the result is claimed by a visible run, deferred by a
   supervisor, and left alone by a quiet run.                                *)
Settle(p) ==
  /\ pc[p] = "settle"
  /\ CASE kind[p] = "supervisor" -> DeferFirstSuccess(p)
       [] Claims(p) -> ClaimFirstSuccess(p, status[p])
       [] OTHER -> UNCHANGED <<firstShown, firstPending, held>>
  /\ Proceed(p)
  /\ UNCHANGED <<seen, welcomed, kind, version, lastSeen, status, out,
                 installed, bounds, history, configVars>>

(* Whether the user is an internal one, the policy and the stored credentials say:
   a choice here.                                                            *)
ClaimWelcome(p) ==
  /\ pc[p] = "welcome"
  /\ \/ /\ version[p] \notin welcomed
        /\ welcomed' = welcomed \cup {version[p]}
        /\ held' = [held EXCEPT ![p] = @ \cup {Welcome(version[p])}]
     \/ UNCHANGED <<welcomed, held>>
  /\ Proceed(p)
  /\ UNCHANGED <<seen, firstPending, firstShown, kind, version, lastSeen, status, out,
                 installed, bounds, history, configVars>>

(* Mistake: whoever is not quiet records. *)
RecordsUnannounced(p) == lastSeen[p] # UpToDate /\ ~Quiet(p)

(* A supervisor records no update: nobody has been told of it. *)
Records(p) ==
  /\ lastSeen[p] # UpToDate
  /\ ~Quiet(p)
  /\ Claims(p) \/ lastSeen[p] = 0

RecordVersion(p) ==
  IF Records(p)
  THEN /\ seen' = version[p]
       /\ baseline' = (lastSeen[p] = 0)
  ELSE UNCHANGED <<seen, baseline>>

(* There is a message: a notice, or an outcome worth showing. *)
Says(p) == held[p] # {} \/ status[p] \notin {"notice", "configured"}

(* _emit, which nobody else sees, and then the locked section that records the
   version.  Without a message there is no control output.                   *)
EmitAndRecord(p) ==
  LET control == IF ~Quiet(p) /\ Says(p) THEN Queued(p, status[p], held[p]) ELSE out[p]
  IN
  /\ pc[p] = "emit"
  /\ \/ /\ RecordVersion(p)
        /\ UNCHANGED mishaps
     \/ /\ Records(p) /\ Mishap
        /\ UNCHANGED <<seen, baseline>>
  /\ ToBeFlushed(p, control)
  /\ UNCHANGED <<firstPending, firstShown, welcomed, installed, resets, shown, repeated>>

(* The host reads the one object the process has written. *)
Flush(p) ==
  /\ pc[p] = "flush"
  /\ shown' = shown \cup out[p].notices
  /\ repeated' = repeated \cup (shown \cap out[p].notices \cap OneTime)
  /\ Ends(p)
  /\ UNCHANGED <<stateFile, installed, bounds, baseline>>
-----------------------------------------------------------------------------
(* Enrollment, the policy, the configuration or the check-in raises.  A visible
   run replaces what it has queued by the error; a supervisor logs it.       *)
EnsureFails(p) ==
  /\ pc[p] \in {"enroll", "read config", "back up", "replace", "settle"}
  /\ Mishap
  /\ ToBeFlushed(p, IF Quiet(p) THEN out[p] ELSE Queued(p, "error", {}))
  /\ UNCHANGED <<stateFile, installed, resets, history>>

(* The state file cannot be read, parsed or written: notices do without it. *)
StateFileFails(p) ==
  /\ pc[p] \in {"read update", "claim first", "settle", "welcome"}
  /\ Mishap
  /\ Proceed(p)
  /\ UNCHANGED <<stateFile, kind, version, lastSeen, status, held, out, installed, resets,
                 history, configVars>>

(* No transcript and --if-sources: ensure has nothing to do. *)
NoSources(p) ==
  /\ pc[p] = "read update" /\ kind[p] # "launcher"
  /\ Ends(p)
  /\ UNCHANGED <<stateFile, installed, bounds, history>>

(* The host kills a hook that takes too long; the user kills anything. *)
Die(p) ==
  /\ pc[p] # "off"
  /\ Mishap
  /\ shown' = shown \cup held[p] \cup out[p].notices
  /\ Ends(p)
  /\ UNCHANGED <<stateFile, installed, resets, repeated, baseline>>

InstallUpdate ==
  /\ installed < MaxVersion
  /\ installed' = installed + 1
  /\ UNCHANGED <<stateFile, runVars, bounds, history, configVars>>

(* reset: the credentials and what was said about the enrollment are gone. *)
Reset ==
  /\ Mishap
  /\ resets' = resets + 1
  /\ firstPending' = "none" /\ firstShown' = FALSE
  /\ UNCHANGED <<seen, welcomed, runVars, installed, history, configVars>>

EditConfig ==
  /\ Mishap
  /\ \E m \in Markers : UserEdits(m)
  /\ UNCHANGED <<stateFile, runVars, installed, resets, history>>
-----------------------------------------------------------------------------
Step(p) ==
  \/ \E d \in Process : Launch(p, d)
  \/ \E k \in Commands : StartEnsure(p, k)
  \/ ReadUpdate(p) \/ ClaimDeferred(p) \/ OpenBrowser(p) \/ EnrollmentPends(p)
  \/ GetPolicy(p) \/ ReadConfig(p) \/ BackUpConfig(p) \/ ReplaceConfig(p)
  \/ Settle(p) \/ ClaimWelcome(p) \/ EmitAndRecord(p) \/ Flush(p)
  \/ EnsureFails(p) \/ StateFileFails(p) \/ NoSources(p) \/ Die(p)

Next == (\E p \in Process : Step(p)) \/ InstallUpdate \/ Reset \/ EditConfig

Spec == Init /\ [][Next]_vars
-----------------------------------------------------------------------------
(* The one-time notices that the state file says were shown. *)
Claimed == (IF firstShown THEN {First} ELSE {}) \cup {Welcome(v) : v \in welcomed}

InFlight == UNION {held[p] \cup out[p].notices : p \in Process}

(* The confirmation of an enrollment and the welcome of a version are shown once,
   whatever runs overlap: a deferred result can be claimed by a launcher while
   another run claims its own (notices.py, "one -- and only one --
   confirmation"; test_session_start_launcher_emits_and_claims_local_notices_once). *)
OneTimeNoticesOnce == repeated = {}

(* A one-time notice that the state file says was shown has been shown, or is on
   its way in a process the user sees, unless that process died: no supervisor, no
   quiet run and no later output of the same run swallows it.                *)
ClaimedIsShown == Claimed \subseteq shown \cup InFlight

(* A version is recorded as seen when its update was put out, or by a run that
   knew of no version before (_run_ensure, "a later failure re-announces it";
   test_bootstrap_defers_recording_update_until_notice_surfaces).            *)
RecordedIsAnnounced ==
  seen # 0 => baseline \/ Update(seen) \in shown \cup InFlight
=============================================================================
