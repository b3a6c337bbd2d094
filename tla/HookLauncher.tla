---------------------------- MODULE HookLauncher ----------------------------
(***************************************************************************)
(* One lifecycle hook, from the host's call to the detached process that   *)
(* does the work (managed_runtime.py, the scripts it writes into the       *)
(* plugins, the runtime's executable, the launch part of cli.py).          *)
(*                                                                         *)
(* The hook's script looks for a complete runtime bundle: all files are    *)
(* there, then all files are readable.  A start hook accepts only its own  *)
(* plugin's; a terminal hook (Stop, SessionEnd, SubagentStop) falls back   *)
(* to another installed version beside it.  Then a Python is looked for,   *)
(* and the bundle is loaded once by the launcher, once more by the         *)
(* supervisor it detaches, and for a terminal hook a third time by the     *)
(* collector under that supervisor.  Meanwhile the host's installer        *)
(* replaces, removes or adds versions, file by file.                       *)
(*                                                                         *)
(* Abstracted: what enrollment, notices and collection do (Enrollment,     *)
(* SessionStart, TraceCollector) is an outcome; the Pythons do not change  *)
(* during the probe.  Versions are numbered in the order of their          *)
(* directories' names, the order in which both scripts look at them.       *)
(***************************************************************************)
EXTENDS Integers, FiniteSets

CONSTANTS
  MaxVersion,    \* versions of the plugin, by name of their directory
  Files,         \* files of a bundle, in the order of the check
  MaxChanges,    \* bound: files the installer changes
  MaxMishaps     \* bound: failures of the system and of the work itself

ASSUME SizesAreNat == MaxVersion \in Nat \ {0} /\ Files \in Nat \ {0}
ASSUME LimitsAreNat == MaxChanges \in Nat /\ MaxMishaps \in Nat

VARIABLES
  disk,          \* state of every file of every version
  hook,          \* the hook that was called: its host, event and plugin root (0:
                 \* not set), and whether a usable Python is installed
  pc,            \* step of the script and of the launcher it runs
  at, pass, file,\* the version that is being checked, and how far
  siblings,      \* versions still to check
  chosen,        \* the version to run, 0: none
  back,          \* step of the detached process
  loaded,        \* files the current load has read
  collected,     \* hosts whose transcripts were collected
  told,          \* what the hook printed, or its exit code, says
  recorded,      \* failures in the diagnostic log
  killed,        \* the host gave up on the hook, or the machine stopped
  unloaded,      \* processes that could not load the bundle
  touched,       \* versions changed since the script began to check them
  changes, mishaps

hookVars == <<pc, at, pass, file, siblings, chosen>>
results == <<collected, told, recorded>>
bounds == <<changes, mishaps>>
vars == <<disk, hook, hookVars, back, loaded, results, killed, unloaded, touched, bounds>>

Version == 1 .. MaxVersion
File == 1 .. Files
FileState == {"absent", "blocked", "good"}
Hook == [host : {"claude", "codex"}, event : {"start", "terminal"}, root : 0 .. MaxVersion,
         python : BOOLEAN]
Pc == {"root", "own", "list", "sibling", "probe", "load", "run", "notices", "done"}
Back == {"none", "load", "ensure", "input", "collect", "desktop", "child", "gather", "done"}
Said == {"no root", "missing", "unreadable", "no python", "no launch", "no bundle", "error"}
Failure == {"ensure", "input", "collect", "desktop", "spawn", "child"}

TypeOK ==
  /\ disk \in [Version -> [File -> FileState]]
  /\ hook \in Hook
  /\ pc \in Pc /\ back \in Back
  /\ at \in 0 .. MaxVersion /\ chosen \in 0 .. MaxVersion
  /\ pass \in {"stat", "access"}
  /\ file \in File /\ loaded \in 0 .. Files
  /\ siblings \in SUBSET Version
  /\ collected \in SUBSET {"host", "desktop"}
  /\ told \in SUBSET Said /\ recorded \in SUBSET Failure
  /\ killed \in BOOLEAN
  /\ unloaded \in SUBSET {"launcher", "supervisor", "collector"}
  /\ touched \in SUBSET Version
  /\ changes \in 0 .. MaxChanges /\ mishaps \in 0 .. MaxMishaps

(* Any leftovers of any versions. *)
Init ==
  /\ disk \in [Version -> [File -> FileState]]
  /\ hook \in Hook
  /\ pc = "root" /\ back = "none"
  /\ at = 0 /\ chosen = 0
  /\ pass = "stat" /\ file = 1 /\ loaded = 0
  /\ siblings = {}
  /\ collected = {}
  /\ told = {} /\ recorded = {}
  /\ killed = FALSE
  /\ unloaded = {} /\ touched = {}
  /\ changes = 0 /\ mishaps = 0
-----------------------------------------------------------------------------
Starting == hook.event = "start"
Mishap == mishaps < MaxMishaps /\ mishaps' = mishaps + 1

(* Mistake: the diagnostics of a terminal hook are not suppressed. *)
FinishAloud(why) == pc' = "done" /\ told' = told \cup {why}

(* finishWithDiagnostic, and the script's own messages: only a start hook says
   why it ends; both exit with 0.                                             *)
Finish(why) ==
  /\ pc' = "done"
  /\ told' = IF Starting THEN told \cup {why} ELSE told

(* A launcher that fails: its exit code is a start hook's; node lends it stderr
   for either event, the shell only for a start.                              *)
LauncherFails(why) ==
  /\ pc' = "done"
  /\ told' = IF Starting \/ hook.host = "claude" THEN told \cup {why} ELSE told

(* runtimeState, runtime_state: all files are looked at twice, for existence
   and for read permission; the step says whose files they are.             *)
LookAt(v, step) ==
  /\ pc' = step /\ at' = v
  /\ pass' = "stat" /\ file' = 1
  /\ touched' = touched \ {v}
Looking == pc \in {"own", "sibling"}
(* Mistake: what is only there is good enough. *)
FileIsThere == disk[at][file] # "absent"

(* This pass is content with the file. *)
FileIsFit == disk[at][file] = "good" \/ (pass = "stat" /\ disk[at][file] = "blocked")
LastFile == pass = "access" /\ file = Files

(* Mistake: a terminal hook looks at all versions at once. *)
FindAny ==
  /\ pc = "root"
  /\ IF hook.root = 0
     THEN Finish("no root") /\ UNCHANGED <<at, pass, file, touched>>
     ELSE IF Starting THEN LookAt(hook.root, "own") /\ UNCHANGED told
                      ELSE pc' = "list" /\ UNCHANGED <<at, pass, file, touched, told>>
  /\ UNCHANGED <<disk, hook, siblings, chosen, back, loaded, collected, recorded, killed,
                 unloaded, bounds>>

(* The plugin root is the host's argument or its environment. *)
FindRoot ==
  /\ pc = "root"
  /\ IF hook.root = 0
     THEN Finish("no root") /\ UNCHANGED <<at, pass, file, touched>>
     ELSE LookAt(hook.root, "own") /\ UNCHANGED told
  /\ UNCHANGED <<disk, hook, siblings, chosen, back, loaded, collected, recorded,
                 killed, unloaded, bounds>>

(* Mistake: the second pass never comes. *)
FileAfterFile ==
  /\ Looking /\ FileIsFit /\ ~LastFile
  /\ file' = file + 1
  /\ UNCHANGED <<disk, hook, pc, at, pass, siblings, chosen, back, loaded, results, killed,
                 unloaded, touched, bounds>>

NextFile ==
  /\ Looking /\ FileIsFit /\ ~LastFile
  /\ file' = IF file = Files THEN 1 ELSE file + 1
  /\ pass' = IF file = Files THEN "access" ELSE pass
  /\ UNCHANGED <<disk, hook, pc, at, siblings, chosen, back, loaded, results, killed,
                 unloaded, touched, bounds>>

(* The plugin's own bundle is complete, or it is not; a terminal hook then goes
   through the versions beside it.                                            *)
OwnIsChecked ==
  /\ pc = "own"
  /\ \/ FileIsFit /\ LastFile /\ pc' = "probe" /\ chosen' = at /\ UNCHANGED told
     \/ /\ ~FileIsFit
        /\ IF Starting THEN Finish(IF pass = "stat" THEN "missing" ELSE "unreadable")
                       ELSE pc' = "list" /\ UNCHANGED told
        /\ UNCHANGED chosen
  /\ UNCHANGED <<disk, hook, at, pass, file, siblings, back, loaded, collected, recorded, killed,
                 unloaded, touched, bounds>>

(* The versions that are seen in the plugin's directory: node lists directories,
   the shell's pattern names the executable.                                   *)
Listed == {v \in Version : IF hook.host = "claude" THEN \E f \in File : disk[v][f] # "absent"
                           ELSE disk[v][1] # "absent"}
First(versions) == CHOOSE v \in versions : \A w \in versions : v <= w

(* The last complete one in the order of names is run; none, and the hook ends. *)
GoOn(rest, best) ==
  /\ chosen' = best
  /\ IF rest # {}
     THEN LookAt(First(rest), "sibling") /\ siblings' = rest \ {First(rest)} /\ UNCHANGED told
     ELSE /\ IF best = 0 THEN Finish("missing") ELSE pc' = "probe" /\ UNCHANGED told
          /\ UNCHANGED <<at, pass, file, siblings, touched>>

ListSiblings ==
  /\ pc = "list"
  /\ GoOn(Listed, 0)
  /\ UNCHANGED <<disk, hook, back, loaded, collected, recorded, killed, unloaded,
                 bounds>>

(* Mistake: a version that is not complete takes back the choice. *)
LastSiblingDecides ==
  /\ pc = "sibling"
  /\ \/ FileIsFit /\ LastFile /\ GoOn(siblings, at)
     \/ ~FileIsFit /\ GoOn(siblings, 0)
  /\ UNCHANGED <<disk, hook, back, loaded, collected, recorded, killed, unloaded, bounds>>

SiblingIsChecked ==
  /\ pc = "sibling"
  /\ \/ FileIsFit /\ LastFile /\ GoOn(siblings, at)
     \/ ~FileIsFit /\ GoOn(siblings, chosen)
  /\ UNCHANGED <<disk, hook, back, loaded, collected, recorded, killed, unloaded,
                 bounds>>

(* python3, python and py answer the probe; the first good one is used. *)
Probe ==
  /\ pc = "probe"
  /\ IF hook.python THEN pc' = "load" /\ UNCHANGED told ELSE Finish("no python")
  /\ UNCHANGED <<disk, hook, at, pass, file, siblings, chosen, back, loaded, collected,
                 recorded, killed, unloaded, touched, bounds>>
-----------------------------------------------------------------------------
(* The executable, the package and the modules it imports are read one after
   the other; a file that is not there or not readable ends the process.     *)
ReadFile ==
  /\ loaded < Files
  /\ disk[chosen][loaded + 1] = "good"
  /\ loaded' = loaded + 1
CannotRead == loaded < Files /\ disk[chosen][loaded + 1] # "good"
IsLoaded == loaded = Files

LauncherReads ==
  /\ pc = "load" /\ ReadFile
  /\ UNCHANGED <<disk, hook, hookVars, back, results, killed, unloaded, touched, bounds>>

(* _bundle_error, or Python's own. *)
LauncherCannotLoad ==
  /\ pc = "load" /\ CannotRead
  /\ LauncherFails("no bundle")
  /\ loaded' = 0
  /\ unloaded' = unloaded \cup {"launcher"}
  /\ UNCHANGED <<disk, hook, at, pass, file, siblings, chosen, back, collected, recorded, killed,
                 touched, bounds>>

(* Between probe and start the interpreter disappears. *)
LauncherCannotStart ==
  /\ pc = "load" /\ loaded = 0 /\ Mishap
  /\ LauncherFails("no launch")
  /\ UNCHANGED <<disk, hook, at, pass, file, siblings, chosen, back, loaded, collected, recorded,
                 killed, unloaded, touched, changes>>

(* _launch_detached_session_start, _launch_detached_collect: the hook's input
   is copied to a file and the supervisor started with it.                    *)
Detach ==
  /\ pc = "load" /\ IsLoaded
  /\ pc' = IF Starting THEN "notices" ELSE "done"
  /\ back' = "load" /\ loaded' = 0
  /\ UNCHANGED <<disk, hook, at, pass, file, siblings, chosen, results, killed, unloaded,
                 touched, bounds>>

(* Input that is too large, or no supervisor: a start hook says so, a terminal
   one leaves it in the log.                                                   *)
CannotDetach ==
  /\ pc = "load" /\ IsLoaded /\ Mishap
  /\ pc' = "done" /\ loaded' = 0
  /\ IF Starting THEN told' = told \cup {"error"} /\ UNCHANGED recorded
                 ELSE /\ \E why \in {"input", "spawn"} : recorded' = recorded \cup {why}
                      /\ UNCHANGED told
  /\ UNCHANGED <<disk, hook, at, pass, file, siblings, chosen, back, collected, killed,
                 unloaded, touched, changes>>

(* The pending notices, which may fail. *)
Notices ==
  /\ pc = "notices"
  /\ pc' = "done"
  /\ \/ UNCHANGED <<told, mishaps>>
     \/ Mishap /\ told' = told \cup {"error"}
  /\ UNCHANGED <<disk, hook, at, pass, file, siblings, chosen, back, loaded, collected, recorded,
                 killed, unloaded, touched, changes>>
-----------------------------------------------------------------------------
(* The detached process is at `step'; it goes on at `next', or it notes a
   failure and goes on at `after'.                                          *)
Proceeds(step, next) ==
  /\ back = step /\ back' = next
  /\ loaded' = 0
  /\ UNCHANGED <<recorded, mishaps>>
(* Mistake: the failure is only printed. *)
FailsUnseen(step, why, after) ==
  /\ back = step /\ back' = after
  /\ loaded' = 0
  /\ Mishap /\ UNCHANGED recorded
Fails(step, why, after) ==
  /\ back = step /\ back' = after
  /\ loaded' = 0
  /\ Mishap /\ recorded' = recorded \cup {why}
BackSame == UNCHANGED <<disk, hook, hookVars, told, killed, touched, changes>>

SupervisorReads ==
  /\ back = "load" /\ ReadFile
  /\ UNCHANGED <<disk, hook, hookVars, back, results, killed, unloaded, touched, bounds>>

(* Its output goes to the null device, and nobody waits for it. *)
SupervisorCannotLoad ==
  /\ back = "load" /\ CannotRead
  /\ back' = "done" /\ loaded' = 0
  /\ unloaded' = unloaded \cup {"supervisor"}
  /\ UNCHANGED <<results, mishaps>>
  /\ BackSame

SupervisorIsLoaded ==
  /\ IsLoaded
  /\ Proceeds("load", IF Starting THEN "ensure" ELSE "child")
  /\ UNCHANGED <<collected, unloaded>>
  /\ BackSame

(* _supervise_session_start: enrollment first; nothing is collected when it
   fails or the hook's input is not an object.                              *)
Ensure ==
  /\ \/ Proceeds("ensure", "input")
     \/ Fails("ensure", "ensure", "done")
  /\ UNCHANGED <<collected, unloaded>>
  /\ BackSame

ReadInput ==
  /\ Proceeds("input", "collect") \/ Fails("input", "input", "done")
  /\ UNCHANGED <<collected, unloaded>>
  /\ BackSame

(* _run_session_start_collect: Claude Desktop's transcripts, if there are any,
   come after Claude's, whatever became of those.                             *)
Collect ==
  LET after == IF hook.host = "claude" THEN "desktop" ELSE "done" IN
  /\ \/ Proceeds("collect", after) /\ collected' = collected \cup {"host"}
     \/ Fails("collect", "collect", after) /\ UNCHANGED collected
  /\ UNCHANGED unloaded
  /\ BackSame

CollectDesktop ==
  /\ \/ Proceeds("desktop", "done") /\ collected' \in {collected, collected \cup {"desktop"}}
     \/ Fails("desktop", "desktop", "done") /\ UNCHANGED collected
  /\ UNCHANGED unloaded
  /\ BackSame

(* _supervise_collect: the collector is a process of its own, whose failure to
   start, to load and to end well the supervisor records.                     *)
CollectorReads ==
  /\ back = "child" /\ ReadFile
  /\ UNCHANGED <<disk, hook, hookVars, back, results, killed, unloaded, touched, bounds>>

CollectorCannotStart ==
  /\ loaded = 0 /\ Fails("child", "spawn", "done")
  /\ UNCHANGED <<collected, unloaded>>
  /\ BackSame

CollectorCannotLoad ==
  /\ back = "child" /\ CannotRead
  /\ back' = "done" /\ loaded' = 0
  /\ unloaded' = unloaded \cup {"collector"}
  /\ recorded' = recorded \cup {"child"}
  /\ UNCHANGED <<collected, mishaps>>
  /\ BackSame

CollectorIsLoaded ==
  /\ IsLoaded
  /\ Proceeds("child", "gather")
  /\ UNCHANGED <<collected, unloaded>>
  /\ BackSame

(* _run_collect_command: what goes wrong is logged, the input included. *)
Gather ==
  /\ \/ Proceeds("gather", "done") /\ collected' = collected \cup {"host"}
     \/ Fails("gather", "collect", "done") /\ UNCHANGED collected
  /\ UNCHANGED unloaded
  /\ BackSame
-----------------------------------------------------------------------------
(* The host's installer writes, removes or locks one file of one version. *)
Change ==
  /\ changes < MaxChanges /\ changes' = changes + 1
  /\ \E v \in Version, f \in File, s \in FileState :
       /\ disk[v][f] # s
       /\ disk' = [disk EXCEPT ![v][f] = s]
       /\ touched' = touched \cup {v}
  /\ UNCHANGED <<hook, hookVars, back, loaded, results, killed, unloaded, mishaps>>

(* The host's timeout ends the hook's processes; the detached one stays. *)
Kill ==
  /\ pc # "done"
  /\ pc' = "done" /\ killed' = TRUE
  /\ loaded' = IF back = "none" THEN 0 ELSE loaded
  /\ UNCHANGED <<disk, hook, at, pass, file, siblings, chosen, back, results, unloaded,
                 touched, bounds>>

Done == pc = "done" /\ back \in {"none", "done"}
Ended == Done /\ UNCHANGED vars

Launch ==
  \/ FindRoot \/ NextFile \/ OwnIsChecked \/ ListSiblings \/ SiblingIsChecked \/ Probe
  \/ LauncherReads \/ LauncherCannotLoad \/ LauncherCannotStart \/ Detach \/ CannotDetach
  \/ Notices
Work ==
  \/ SupervisorReads \/ SupervisorCannotLoad \/ SupervisorIsLoaded \/ Ensure \/ ReadInput
  \/ Collect \/ CollectDesktop \/ CollectorReads \/ CollectorCannotStart
  \/ CollectorCannotLoad \/ CollectorIsLoaded \/ Gather
Next == Launch \/ Work \/ Change \/ Kill \/ Ended

Spec == Init /\ [][Next]_vars
(* Processes run; nothing is promised of the installer, the host or the mishaps. *)
FairSpec == Spec /\ WF_vars(Launch) /\ WF_vars(Work)
-----------------------------------------------------------------------------
(* A bundle the script accepted is one that loads, in each of the two or three
   processes that load it, unless the installer changed that version after the
   script began to look at it.                                                *)
CheckedBundleLoads == unloaded # {} => chosen \in touched

(* A start hook after which the host's transcripts were not collected leaves a
   trace: it said so itself, or the log does.  Only the host's own kill, and a
   bundle that changed between the launcher's load and the supervisor's, end in
   silence.                                                                     *)
StartFailureIsKnown ==
  Done /\ Starting /\ "host" \notin collected =>
    \/ recorded # {}
    \/ back = "none" /\ (told # {} \/ killed)
    \/ "supervisor" \in unloaded /\ chosen \in touched

(* A terminal hook prints nothing; Claude's may when the bundle it had accepted
   changes under it or the system could not start it.                          *)
TerminalIsQuiet ==
  ~Starting /\ told # {} => hook.host = "claude" /\ (chosen \in touched \/ mishaps > 0)

(* The plugin's own bundle comes first: another version runs only when a terminal
   hook found it incomplete.                                                      *)
Complete(v) == \A f \in File : disk[v][f] = "good"
OwnBundleFirst ==
  chosen \notin {0, hook.root} => ~Starting /\ (~Complete(hook.root) \/ changes > 0)

(* A terminal hook of a plugin that is installed in some complete version ends
   with an upload or with its failure in the log, unless the installer or the host
   interferes or the launcher itself cannot be started.                           *)
CannotLaunch == pc = "done" /\ back = "none" /\ mishaps > 0
TerminalCollects ==
  (~Starting /\ hook.root # 0 /\ hook.python /\ \E v \in Version : Complete(v))
    ~> (collected # {} \/ recorded # {} \/ changes > 0 \/ killed \/ CannotLaunch)
=============================================================================
