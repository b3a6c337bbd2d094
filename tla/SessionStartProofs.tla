------------------------- MODULE SessionStartProofs -------------------------
(***************************************************************************)
(* Notices are shown once and not swallowed, recorded versions were put    *)
(* out, and the user's edits are kept: for any processes, commands,        *)
(* versions and mishaps.                                                   *)
(*                                                                         *)
(* The argument for the notices: a one-time notice is latched in the same  *)
(* locked section in which a process takes it (NoticeIsClaimed), so it is  *)
(* in one place at most; it moves from a process' hands to its output and  *)
(* from there to the user (EmitHandsOver, NoticesAreHandedOver), and what  *)
(* could take its place on that way comes before it is claimed (RunOK).    *)
(***************************************************************************)
EXTENDS SessionStart, TLAPS

(* What is safe about the configuration file needs no process' control state but
   one thing: whoever replaces it has backed it up.                           *)
ConfigStep ==
  \/ \E p \in Process : ReadFile(p) \/ BackUp(p) \/ Forget(p)
  \/ \E p \in replacing : ReplaceFile(p)
  \/ \E m \in Markers : UserEdits(m)
  \/ UNCHANGED configVars

BackedUp == replacing # {} => 1 .. made \subseteq saved \cup unsafe

ConfigInv == ConfigTypeOK /\ EditsAreKept /\ BackedUp

LEMMA ConfigInitially == ConfigInit => ConfigInv
<1> SUFFICES ASSUME ConfigInit PROVE ConfigInv
  OBVIOUS
<1>1. ConfigTypeOK
  BY EditsAreNat DEF ConfigInit, ConfigTypeOK, Contents, Markers, Empty
<1>2. EditsAreKept /\ BackedUp
  BY DEF ConfigInit, EditsAreKept, BackedUp
<1> QED
  BY <1>1, <1>2 DEF ConfigInv

LEMMA ConfigStepKeepsInv == ConfigInv /\ ConfigStep => ConfigInv'
<1> SUFFICES ASSUME ConfigInv, ConfigStep PROVE ConfigInv'
  OBVIOUS
<1> USE DEF ConfigInv, ConfigTypeOK, EditsAreKept, BackedUp
<1>1. ASSUME NEW p \in Process, ReadFile(p) PROVE ConfigInv'
  BY <1>1 DEF ReadFile, Contents, Empty, Markers
<1>2. ASSUME NEW p \in Process, BackUp(p) PROVE ConfigInv'
  <2>1. ConfigTypeOK'
    BY <1>2 DEF BackUp, Contents
  <2>2. EditsAreKept' /\ BackedUp'
    BY <1>2 DEF BackUp
  <2> QED
    BY <2>1, <2>2
<1>3. ASSUME NEW p \in Process, Forget(p) PROVE ConfigInv'
  BY <1>3 DEF Forget, Contents, Empty, Markers
<1>4. ASSUME NEW p \in replacing, ReplaceFile(p) PROVE ConfigInv'
  BY <1>4 DEF ReplaceFile, Contents, Empty, Markers
<1>5. ASSUME NEW m \in Markers, UserEdits(m) PROVE ConfigInv'
  <2>1. made \in Nat /\ made' = made + 1 /\ made' \in 0 .. MaxEdits /\ made' \in Edit
    BY <1>5, EditsAreNat DEF UserEdits, Edit
  <2>2. 1 .. made' = (1 .. made) \cup {made'}
    BY <2>1
  <2>3. ConfigTypeOK'
    BY <1>5, <2>1 DEF UserEdits, Contents
  <2>4. EditsAreKept' /\ BackedUp'
    BY <1>5, <2>2 DEF UserEdits
  <2> QED
    BY <2>3, <2>4
<1>6. CASE UNCHANGED configVars
  BY <1>6 DEF configVars
<1> QED
  BY <1>1, <1>2, <1>3, <1>4, <1>5, <1>6 DEF ConfigStep
-----------------------------------------------------------------------------
LEMMA PriorityRange == \A s \in DOMAIN Priority : Priority[s] \in 0 .. 110
BY DEF Priority

LEMMA PriorityAboveBanner ==
  \A s \in DOMAIN Priority : s # "notice" => Priority[s] >= 10
BY DEF Priority

LEMMA QueuedType ==
  ASSUME TypeOK, NEW p \in Process, NEW s \in DOMAIN Priority, NEW N \in SUBSET Notice
  PROVE  Queued(p, s, N) \in Control
BY PriorityRange DEF Queued, TypeOK, Control

LEMMA NothingIsControl == Nothing \in Control
BY DEF Nothing, Control

(* Every step is a step of the configuration file, if those who replace it have
   backed it up.                                                              *)
ReplacersBackedUp == \A p \in Process : pc[p] = "replace" => p \in replacing

LEMMA EndsIsConfigStep == ASSUME NEW p \in Process, Ends(p) PROVE ConfigStep
BY DEF Ends, ConfigStep

LEMMA NextIsConfigStep == ReplacersBackedUp /\ [Next]_vars => ConfigStep
<1> SUFFICES ASSUME ReplacersBackedUp, [Next]_vars PROVE ConfigStep
  OBVIOUS
<1>1. ASSUME NEW p \in Process, Step(p) PROVE ConfigStep
  <2> USE DEF ConfigStep
  <2>1. ASSUME NEW d \in Process, Launch(p, d) PROVE ConfigStep
    BY <2>1 DEF Launch
  <2>2. ASSUME NEW k \in Commands, StartEnsure(p, k) PROVE ConfigStep
    BY <2>2 DEF StartEnsure
  <2>3. CASE ReadUpdate(p) \/ ClaimDeferred(p) \/ OpenBrowser(p) \/ EnrollmentPends(p)
             \/ GetPolicy(p) \/ Settle(p) \/ ClaimWelcome(p) \/ StateFileFails(p)
    BY <2>3 DEF ReadUpdate, ClaimDeferred, OpenBrowser, EnrollmentPends, GetPolicy,
                Settle, ClaimWelcome, StateFileFails
  <2>4. CASE ReadConfig(p)
    BY <2>4 DEF ReadConfig
  <2>5. CASE BackUpConfig(p)
    BY <2>5 DEF BackUpConfig
  <2>6. CASE ReplaceConfig(p)
    BY <2>6 DEF ReplaceConfig, ReplacersBackedUp
  <2>7. CASE EmitAndRecord(p) \/ EnsureFails(p) \/ Flush(p) \/ NoSources(p) \/ Die(p)
    BY <2>7 DEF EmitAndRecord, EnsureFails, Flush, NoSources, Die, ToBeFlushed, Ends
  <2> QED
    BY <1>1, <2>1, <2>2, <2>3, <2>4, <2>5, <2>6, <2>7 DEF Step
<1>2. CASE InstallUpdate \/ Reset
  BY <1>2 DEF InstallUpdate, Reset, ConfigStep
<1>3. CASE EditConfig
  BY <1>3 DEF EditConfig, ConfigStep
<1>4. CASE UNCHANGED vars
  BY <1>4 DEF vars, ConfigStep
<1> QED
  BY <1>1, <1>2, <1>3, <1>4 DEF Next
-----------------------------------------------------------------------------
(* Types, in three parts. *)
StateType ==
  /\ seen \in 0 .. MaxVersion
  /\ firstPending \in Healthy \cup {"none"}
  /\ firstShown \in BOOLEAN
  /\ welcomed \in SUBSET Version

RunType ==
  /\ pc \in [Process -> Pc] /\ kind \in [Process -> Kinds]
  /\ version \in [Process -> Version]
  /\ lastSeen \in [Process -> UpToDate .. MaxVersion]
  /\ status \in [Process -> DOMAIN Priority]
  /\ held \in [Process -> SUBSET Notice]
  /\ out \in [Process -> Control]

HistoryType ==
  /\ installed \in Version
  /\ mishaps \in 0 .. MaxMishaps /\ resets \in 0 .. mishaps
  /\ shown \in SUBSET Notice /\ repeated \in SUBSET OneTime
  /\ baseline \in BOOLEAN

LEMMA TypeParts == TypeOK <=> ConfigTypeOK /\ StateType /\ RunType /\ HistoryType
BY DEF TypeOK, StateType, RunType, HistoryType

LEMMA BoundsTypes ==
  /\ 1 \in Version /\ Version \subseteq 0 .. MaxVersion /\ 0 \in 0 .. MaxVersion
  /\ 0 .. MaxVersion \subseteq UpToDate .. MaxVersion /\ UpToDate \in UpToDate .. MaxVersion
  /\ 0 \in 0 .. MaxMishaps /\ 0 \in 0 .. 0
BY BoundsAreNat DEF Version, UpToDate

LEMMA MishapType ==
  ASSUME HistoryType, Mishap
  PROVE  mishaps' \in 0 .. MaxMishaps /\ resets \in 0 .. mishaps' /\ resets + 1 \in 0 .. mishaps'
BY BoundsAreNat DEF HistoryType, Mishap

LEMMA StatusesAreKnown ==
  /\ Healthy \subseteq DOMAIN Priority
  /\ {"notice", "configured", "needs_restart", "setup_pending", "blocked", "error"}
       \subseteq DOMAIN Priority
BY DEF Healthy, Priority

LEMMA InitType == Init => TypeOK
<1> SUFFICES ASSUME Init PROVE TypeOK
  OBVIOUS
<1>1. ConfigTypeOK
  BY ConfigInitially DEF Init, ConfigInv
<1>2. StateType
  BY BoundsTypes DEF Init, StateType
<1>3. RunType
  BY BoundsTypes, NothingIsControl, StatusesAreKnown DEF Init, RunType, Pc, Kinds
<1>4. HistoryType
  BY BoundsTypes DEF Init, HistoryType
<1> QED
  BY <1>1, <1>2, <1>3, <1>4, TypeParts

LEMMA ClearType ==
  ASSUME RunType, NEW p \in Process, Clear(p)
  PROVE  /\ kind' \in [Process -> Kinds]
         /\ version' \in [Process -> Version]
         /\ lastSeen' \in [Process -> UpToDate .. MaxVersion]
         /\ status' \in [Process -> DOMAIN Priority]
         /\ held' \in [Process -> SUBSET Notice]
BY BoundsTypes, StatusesAreKnown DEF Clear, RunType, Kinds

LEMMA EndsType == ASSUME RunType, NEW p \in Process, Ends(p) PROVE RunType'
BY ClearType, NothingIsControl DEF Ends, Goto, Pc, RunType

LEMMA ToBeFlushedType ==
  ASSUME RunType, NEW p \in Process, NEW c \in Control, ToBeFlushed(p, c)
  PROVE  RunType'
<1>1. CASE Ends(p)
  BY <1>1, EndsType
<1>2. CASE ~Ends(p)
  <2>1. [priority |-> 0, notices |-> c.notices] \in Control
    BY DEF Control
  <2> QED
    BY <1>2, <2>1, ClearType DEF ToBeFlushed, Goto, Pc, RunType
<1> QED
  BY <1>1, <1>2

LEMMA NoticesAreKnown ==
  ASSUME TypeOK
  PROVE  /\ First \in OneTime
         /\ \A v \in Version : Welcome(v) \in OneTime /\ Update(v) \in Notice
         /\ OneTime \subseteq Notice
BY BoundsAreNat DEF TypeOK, First, OneTime, Notice

LEMMA AfterIsPc ==
  \A p \in Process :
    pc[p] \in {"read update", "claim first", "settle", "welcome"} => After(p) \in Pc
BY DEF After, Pc

LEMMA ClaimFirstType ==
  ASSUME TypeOK, NEW p \in Process, NEW s, ClaimFirstSuccess(p, s)
  PROVE  /\ firstShown' \in BOOLEAN /\ firstPending' \in Healthy \cup {"none"}
         /\ held' \in [Process -> SUBSET Notice]
<1>1. First \in Notice
  BY NoticesAreKnown
<1>2. /\ held \in [Process -> SUBSET Notice]
      /\ firstShown \in BOOLEAN /\ firstPending \in Healthy \cup {"none"}
  BY DEF TypeOK
<1> QED
  BY <1>1, <1>2 DEF ClaimFirstSuccess

LEMMA NextType == TypeOK /\ ConfigTypeOK' /\ [Next]_vars => TypeOK'
<1> SUFFICES ASSUME TypeOK, ConfigTypeOK', [Next]_vars PROVE TypeOK'
  OBVIOUS
<1>a. StateType /\ RunType /\ HistoryType
  BY TypeParts
<1> SUFFICES StateType' /\ RunType' /\ HistoryType'
  BY TypeParts DEF TypeOK, StateType, RunType, HistoryType
<1> USE <1>a DEF stateFile, runVars, history, bounds
<1>1. ASSUME NEW p \in Process, NEW d \in Process, Launch(p, d)
      PROVE StateType' /\ RunType' /\ HistoryType'
  BY <1>1 DEF Launch, StateType, RunType, HistoryType, Pc, Kinds
<1>2. ASSUME NEW p \in Process, NEW k \in Commands, StartEnsure(p, k)
      PROVE StateType' /\ RunType' /\ HistoryType'
  BY <1>2, CommandsAreKnown DEF StartEnsure, StateType, RunType, HistoryType, Pc, Kinds, Goto
<1>3. ASSUME NEW p \in Process, ReadUpdate(p) PROVE StateType' /\ RunType' /\ HistoryType'
  <2>1. StateType' /\ HistoryType'
    BY <1>3 DEF ReadUpdate, StateType, HistoryType
  <2>2. lastSeen' \in [Process -> UpToDate .. MaxVersion]
    BY <1>3, BoundsTypes DEF ReadUpdate, RunType, StateType
  <2>3. Update(version[p]) \in Notice
    BY NoticesAreKnown DEF RunType
  <2> QED
    BY <1>3, <2>1, <2>2, <2>3, AfterIsPc DEF ReadUpdate, RunType, Proceed
<1>4. ASSUME NEW p \in Process, ClaimDeferred(p) PROVE StateType' /\ RunType' /\ HistoryType'
  <2>1. StateType' /\ held' \in [Process -> SUBSET Notice]
    BY <1>4, ClaimFirstType DEF ClaimDeferred, StateType
  <2>2. status' \in [Process -> DOMAIN Priority]
    BY <1>4, StatusesAreKnown DEF ClaimDeferred, RunType, StateType
  <2> QED
    BY <1>4, <2>1, <2>2, AfterIsPc DEF ClaimDeferred, RunType, HistoryType, Proceed
<1>5. ASSUME NEW p \in Process, OpenBrowser(p) PROVE StateType' /\ RunType' /\ HistoryType'
  <2>1. Queued(p, "browser_enrollment_starting", {}) \in Control
    BY QueuedType DEF Priority
  <2> QED
    BY <1>5, <2>1 DEF OpenBrowser, StateType, RunType, HistoryType
<1>6. ASSUME NEW p \in Process,
             EnrollmentPends(p) \/ GetPolicy(p) \/ ReadConfig(p) \/ BackUpConfig(p)
             \/ ReplaceConfig(p)
      PROVE StateType' /\ RunType' /\ HistoryType'
  <2>1. StateType' /\ HistoryType'
    BY <1>6 DEF EnrollmentPends, GetPolicy, ReadConfig, BackUpConfig, ReplaceConfig, StateType,
       HistoryType
  <2>2. status' \in [Process -> DOMAIN Priority]
    <3>1. CASE ReadConfig(p)
      <4>1. file.markers \in Markers
        BY DEF TypeOK, ConfigTypeOK, Contents
      <4> QED
        BY <3>1, <4>1, StatusesAreKnown DEF ReadConfig, RunType, Markers
    <3>2. CASE ~ReadConfig(p)
      BY <1>6, <3>2, StatusesAreKnown DEF EnrollmentPends, GetPolicy, BackUpConfig,
         ReplaceConfig, RunType
    <3> QED
      BY <3>1, <3>2
  <2>3. pc' \in [Process -> Pc]
    BY <1>6 DEF EnrollmentPends, GetPolicy, ReadConfig, BackUpConfig, ReplaceConfig, RunType,
       Goto, Pc
  <2> QED
    BY <1>6, <2>1, <2>2, <2>3 DEF EnrollmentPends, GetPolicy, ReadConfig, BackUpConfig,
       ReplaceConfig, RunType
<1>7. ASSUME NEW p \in Process, Settle(p) PROVE StateType' /\ RunType' /\ HistoryType'
  <2>1. StateType' /\ held' \in [Process -> SUBSET Notice]
    <3>1. CASE kind[p] = "supervisor"
      BY <1>7, <3>1 DEF Settle, Claims, DeferFirstSuccess, StateType, RunType
    <3>2. CASE kind[p] # "supervisor" /\ Claims(p)
      BY <1>7, <3>2, ClaimFirstType DEF Settle, StateType
    <3>3. CASE kind[p] # "supervisor" /\ ~Claims(p)
      BY <1>7, <3>3 DEF Settle, StateType, RunType
    <3> QED
      BY <3>1, <3>2, <3>3
  <2> QED
    BY <1>7, <2>1, AfterIsPc DEF Settle, RunType, HistoryType, Proceed
<1>8. ASSUME NEW p \in Process, ClaimWelcome(p) PROVE StateType' /\ RunType' /\ HistoryType'
  <2>1. version[p] \in Version /\ Welcome(version[p]) \in Notice
    BY NoticesAreKnown DEF RunType
  <2>2. StateType' /\ held' \in [Process -> SUBSET Notice]
    BY <1>8, <2>1 DEF ClaimWelcome, StateType, RunType
  <2> QED
    BY <1>8, <2>2, AfterIsPc DEF ClaimWelcome, RunType, HistoryType, Proceed
<1>9. ASSUME NEW p \in Process, EmitAndRecord(p) PROVE StateType' /\ RunType' /\ HistoryType'
  <2>1. Queued(p, status[p], held[p]) \in Control /\ out[p] \in Control
    BY QueuedType DEF RunType
  <2>2. RunType'
    BY <1>9, <2>1, ToBeFlushedType DEF EmitAndRecord
  <2> QED
    BY <1>9, <2>2, BoundsTypes, MishapType DEF EmitAndRecord, RecordVersion, StateType,
       HistoryType, RunType
<1>10. ASSUME NEW p \in Process, Flush(p) PROVE StateType' /\ RunType' /\ HistoryType'
  BY <1>10, EndsType DEF Flush, StateType, HistoryType, RunType, Control
<1>11. ASSUME NEW p \in Process, EnsureFails(p) PROVE StateType' /\ RunType' /\ HistoryType'
  <2>1. Queued(p, "error", {}) \in Control /\ out[p] \in Control
    BY QueuedType, StatusesAreKnown DEF RunType
  <2>2. RunType'
    BY <1>11, <2>1, ToBeFlushedType DEF EnsureFails
  <2> QED
    BY <1>11, <2>2, MishapType DEF EnsureFails, StateType, HistoryType
<1>12. ASSUME NEW p \in Process, StateFileFails(p) PROVE StateType' /\ RunType' /\ HistoryType'
  BY <1>12, AfterIsPc, MishapType DEF StateFileFails, StateType, RunType, HistoryType, Proceed
<1>13. ASSUME NEW p \in Process, NoSources(p) PROVE StateType' /\ RunType' /\ HistoryType'
  BY <1>13, EndsType DEF NoSources, StateType, HistoryType
<1>14. ASSUME NEW p \in Process, Die(p) PROVE StateType' /\ RunType' /\ HistoryType'
  BY <1>14, EndsType, MishapType DEF Die, StateType, HistoryType, RunType, Control
<1>15. CASE InstallUpdate
  BY <1>15, BoundsAreNat DEF InstallUpdate, StateType, HistoryType, RunType, Version
<1>16. CASE Reset
  BY <1>16, MishapType DEF Reset, StateType, HistoryType, RunType
<1>17. CASE EditConfig
  BY <1>17, MishapType DEF EditConfig, StateType, HistoryType, RunType
<1>18. CASE UNCHANGED vars
  BY <1>18 DEF vars, StateType, HistoryType, RunType
<1> QED
  BY <1>1, <1>2, <1>3, <1>4, <1>5, <1>6, <1>7, <1>8, <1>9, <1>10, <1>11, <1>12, <1>13, <1>14,
     <1>15, <1>16, <1>17, <1>18 DEF Next, Step
-----------------------------------------------------------------------------
(* What holds of each run by itself. *)
Unclaimed == {"off", "read update", "enroll", "read config", "back up", "replace", "settle"}

RunOK(p) ==
  /\ pc[p] \in {"off", "read update", "flush"} => held[p] = {} /\ lastSeen[p] = UpToDate
  /\ pc[p] = "off" => out[p] = Nothing
  /\ pc[p] # "flush" => /\ out[p].notices = {}
                        /\ \/ out[p].priority = -1
                           \/ kind[p] = "ensure" /\ out[p].priority = 10
  /\ pc[p] = "claim first" => kind[p] = "launcher"
  /\ pc[p] = "welcome" => Claims(p)
  /\ pc[p] \in {"back up", "replace", "settle", "welcome", "emit"} /\ kind[p] = "ensure"
       => status[p] # "notice"
  /\ pc[p] \in Unclaimed => held[p] \cap OneTime = {}
  /\ held[p] # {} => Claims(p)
  /\ Claims(p) /\ lastSeen[p] \in Version => Update(version[p]) \in held[p]

(* A one-time notice is latched before it is shown; it is in one place at most, and in
   one at least while it counts as claimed.                                   *)
OneTimeIn(p) == (held[p] \cup out[p].notices) \cap OneTime
Latched == {<<"first", r>> : r \in 0 .. resets - 1} \cup Claimed

NoticesInv ==
  /\ shown \cap OneTime \subseteq Latched
  /\ \A p \in Process : OneTimeIn(p) \subseteq Latched /\ OneTimeIn(p) \cap shown = {}
  /\ \A p, q \in Process : p # q => OneTimeIn(p) \cap OneTimeIn(q) = {}
  /\ \A n \in Claimed : n \in shown \/ \E p \in Process : n \in OneTimeIn(p)
  /\ repeated = {}

RecordedInv ==
  seen # 0 => \/ baseline \/ Update(seen) \in shown
              \/ \E p \in Process : Update(seen) \in out[p].notices

IInv == /\ TypeOK /\ ConfigInv /\ ReplacersBackedUp
        /\ \A p \in Process : RunOK(p)
        /\ NoticesInv /\ RecordedInv
-----------------------------------------------------------------------------
(* A run's invariant depends on its own variables only. *)
RunUnchanged(q) ==
  /\ pc'[q] = pc[q] /\ kind'[q] = kind[q] /\ version'[q] = version[q]
  /\ lastSeen'[q] = lastSeen[q] /\ status'[q] = status[q]
  /\ held'[q] = held[q] /\ out'[q] = out[q]

LEMMA UnchangedRunOK == ASSUME NEW q, RunOK(q), RunUnchanged(q) PROVE RunOK(q)'
BY DEF RunOK, RunUnchanged, Claims

LEMMA ClearedRun ==
  ASSUME RunType, NEW p \in Process, Clear(p)
  PROVE  /\ kind'[p] = "quiet ensure" /\ lastSeen'[p] = UpToDate /\ held'[p] = {}
         /\ \A q \in Process \ {p} : /\ kind'[q] = kind[q] /\ version'[q] = version[q]
                                     /\ lastSeen'[q] = lastSeen[q] /\ status'[q] = status[q]
                                     /\ held'[q] = held[q]
BY DEF Clear, RunType

LEMMA EndedRun ==
  ASSUME RunType, NEW p \in Process, Ends(p)
  PROVE  /\ pc'[p] = "off" /\ out'[p] = Nothing /\ held'[p] = {}
         /\ RunOK(p)' /\ \A q \in Process \ {p} : RunUnchanged(q)
<1>1. /\ pc'[p] = "off" /\ out'[p] = Nothing
      /\ \A q \in Process \ {p} : pc'[q] = pc[q] /\ out'[q] = out[q]
  BY DEF Ends, Goto, RunType
<1>2. Clear(p)
  BY DEF Ends
<1>3. Nothing.notices = {} /\ Nothing.priority = -1
  BY DEF Nothing
<1> QED
  BY <1>1, <1>2, <1>3, ClearedRun DEF RunOK, RunUnchanged, Claims

LEMMA FlushingRun ==
  ASSUME RunType, NEW p \in Process, NEW c \in Control, ToBeFlushed(p, c)
  PROVE  /\ pc'[p] \in {"off", "flush"} /\ held'[p] = {}
         /\ IF kind[p] = "supervisor" THEN out'[p] = Nothing ELSE out'[p].notices = c.notices
         /\ RunOK(p)' /\ \A q \in Process \ {p} : RunUnchanged(q)
<1>1. CASE kind[p] = "supervisor" \/ c = Nothing
  BY <1>1, EndedRun DEF ToBeFlushed
<1>2. CASE ~(kind[p] = "supervisor" \/ c = Nothing)
  <2>1. /\ pc'[p] = "flush" /\ out'[p].notices = c.notices
        /\ \A q \in Process \ {p} : pc'[q] = pc[q] /\ out'[q] = out[q]
    BY <1>2 DEF ToBeFlushed, Goto, RunType
  <2>2. Clear(p)
    BY <1>2 DEF ToBeFlushed
  <2> QED
    BY <1>2, <2>1, <2>2, ClearedRun DEF RunOK, RunUnchanged, Claims, Unclaimed
<1> QED
  BY <1>1, <1>2

(* What a run holds leaves it with its last output, and with nothing else. *)
LEMMA EmitHandsOver ==
  ASSUME TypeOK, NEW p \in Process, RunOK(p), EmitAndRecord(p)
  PROVE  /\ held'[p] = {} /\ out'[p].notices = held[p]
         /\ RunOK(p)' /\ \A q \in Process \ {p} : RunUnchanged(q)
<1> DEFINE control == IF ~Quiet(p) /\ Says(p) THEN Queued(p, status[p], held[p]) ELSE out[p]
<1>1. RunType /\ status[p] \in DOMAIN Priority /\ held[p] \in SUBSET Notice
  BY TypeParts DEF RunType
<1>2. control \in Control
  BY <1>1, QueuedType DEF RunType
<1>3. ToBeFlushed(p, control)
  BY DEF EmitAndRecord
<1>4. pc[p] = "emit"
  BY DEF EmitAndRecord
<1>5. control.notices = held[p]
  <2>1. out[p].notices = {}
    BY <1>4 DEF RunOK
  <2>2. CASE held[p] = {}
    BY <2>1, <2>2 DEF Queued
  <2>3. CASE held[p] # {}
    <3>1. control = Queued(p, status[p], held[p])
      BY <2>3 DEF RunOK, Claims, Quiet, Says
    <3>2. Priority[status[p]] >= out[p].priority
      BY <1>1, <1>4, PriorityRange, PriorityAboveBanner DEF RunOK
    <3> QED
      BY <3>1, <3>2 DEF Queued
  <2> QED
    BY <2>2, <2>3
<1>6. kind[p] = "supervisor" => held[p] = {} /\ Nothing.notices = {}
  BY DEF RunOK, Claims, Nothing
<1> QED
  BY <1>1, <1>2, <1>3, <1>5, <1>6, FlushingRun

(* The error of a run takes the place of all it has to say. *)
LEMMA FailureSaysNothingElse ==
  ASSUME TypeOK, NEW p \in Process, RunOK(p), EnsureFails(p)
  PROVE  /\ held'[p] = {} /\ out'[p].notices = {}
         /\ RunOK(p)' /\ \A q \in Process \ {p} : RunUnchanged(q)
<1> DEFINE control == IF Quiet(p) THEN out[p] ELSE Queued(p, "error", {})
<1>1. RunType
  BY TypeParts
<1>2. control \in Control
  BY <1>1, QueuedType, StatusesAreKnown DEF RunType
<1>3. ToBeFlushed(p, control)
  BY DEF EnsureFails
<1>4. control.notices = {}
  BY DEF EnsureFails, RunOK, Queued
<1> QED
  BY <1>1, <1>2, <1>3, <1>4, FlushingRun DEF Nothing

LEMMA UpToDateIsNoVersion == UpToDate \notin Version
<1>1. 1 \in Int /\ MaxVersion \in Int
  BY BoundsAreNat
<1>2. \A v \in Version : v \in Int /\ v >= 1
  BY <1>1 DEF Version
<1>3. UpToDate \in Int /\ UpToDate < 1
  BY DEF UpToDate
<1> QED
  BY <1>2, <1>3

(* A run that starts. *)
LEMMA StartedRun ==
  ASSUME NEW p \in Process, RunOK(p), pc[p] = "off", pc'[p] = "read update",
         lastSeen'[p] = lastSeen[p], held'[p] = held[p], out'[p] = out[p]
  PROVE  RunOK(p)'
<1>1. held'[p] = {} /\ lastSeen'[p] = UpToDate /\ out'[p] = Nothing
  BY DEF RunOK
<1>2. UpToDate \notin Version
  BY UpToDateIsNoVersion
<1>3. Nothing.notices = {} /\ Nothing.priority = -1
  BY DEF Nothing
<1> QED
  BY <1>1, <1>2, <1>3 DEF RunOK, Claims

(* A run that may hold one more notice, or as many as before. *)
LEMMA ClaimingRun ==
  ASSUME NEW p \in Process, RunOK(p), Claims(p),
         pc[p] \in {"claim first", "settle", "welcome"}, pc'[p] \in {"welcome", "emit"},
         held[p] \subseteq held'[p], kind'[p] = kind[p],
         kind[p] = "ensure" => status'[p] = status[p],
         version'[p] = version[p], lastSeen'[p] = lastSeen[p], out'[p] = out[p]
  PROVE  RunOK(p)'
BY DEF RunOK, Claims, Unclaimed

LEMMA FirstSuccessClaimed ==
  ASSUME RunType, NEW p \in Process, NEW s, ClaimFirstSuccess(p, s)
  PROVE  held[p] \subseteq held'[p] /\ \A q \in Process \ {p} : held'[q] = held[q]
BY DEF ClaimFirstSuccess, RunType

LEMMA NextRunOK ==
  TypeOK /\ (\A q \in Process : RunOK(q)) /\ [Next]_vars => \A q \in Process : RunOK(q)'
<1> SUFFICES ASSUME TypeOK, \A q \in Process : RunOK(q), [Next]_vars, NEW q \in Process
             PROVE RunOK(q)'
  OBVIOUS
<1>a. RunType /\ RunOK(q) /\ (RunUnchanged(q) => RunOK(q)')
  BY TypeParts, UnchangedRunOK
<1> USE <1>a DEF runVars
<1>1. ASSUME NEW p \in Process, NEW d \in Process, Launch(p, d) PROVE RunOK(q)'
  <2>1. q \notin {p, d} => RunUnchanged(q)
    BY <1>1 DEF Launch, RunType, RunUnchanged
  <2>2. q \in {p, d} => RunOK(q)'
    BY <1>1, StartedRun DEF Launch, RunType
  <2> QED
    BY <2>1, <2>2
<1>2. ASSUME NEW p \in Process, NEW k \in Commands, StartEnsure(p, k) PROVE RunOK(q)'
  <2>1. q # p => RunUnchanged(q)
    BY <1>2 DEF StartEnsure, RunType, RunUnchanged, Goto
  <2>2. q = p => RunOK(q)'
    BY <1>2, StartedRun DEF StartEnsure, RunType, Goto
  <2> QED
    BY <2>1, <2>2
<1>3. ASSUME NEW p \in Process, ReadUpdate(p) PROVE RunOK(q)'
  <2>1. q # p => RunUnchanged(q)
    BY <1>3 DEF ReadUpdate, RunType, RunUnchanged, Proceed
  <2>2. ASSUME q = p PROVE RunOK(q)'
    <3>1. Update(version[p]) \notin OneTime
      BY DEF Update, OneTime, Welcome
    <3>2. pc'[p] \in {"claim first", "enroll"} /\ (pc'[p] = "claim first" => kind[p] = "launcher")
      BY <1>3 DEF ReadUpdate, RunType, Proceed, After
    <3> QED
      BY <1>3, <2>2, <3>1, <3>2 DEF ReadUpdate, RunType, RunOK, Claims, Unclaimed
  <2> QED
    BY <2>1, <2>2
<1>4. ASSUME NEW p \in Process, ClaimDeferred(p) PROVE RunOK(q)'
  <2>1. q # p => RunUnchanged(q)
    BY <1>4, FirstSuccessClaimed DEF ClaimDeferred, RunType, RunUnchanged, Proceed
  <2>2. q = p => RunOK(q)'
    <3>1. pc'[p] \in {"welcome", "emit"} /\ kind[p] = "launcher"
      BY <1>4 DEF ClaimDeferred, RunOK, RunType, Proceed, After
    <3> QED
      BY <1>4, <3>1, ClaimingRun, FirstSuccessClaimed DEF ClaimDeferred, Claims
  <2> QED
    BY <2>1, <2>2
<1>5. ASSUME NEW p \in Process, OpenBrowser(p) PROVE RunOK(q)'
  <2>1. q # p => RunUnchanged(q)
    BY <1>5 DEF OpenBrowser, RunType, RunUnchanged
  <2>2. /\ Queued(p, "browser_enrollment_starting", {}).priority \in {10, -1}
        /\ Queued(p, "browser_enrollment_starting", {}).notices = {}
    BY <1>5 DEF OpenBrowser, Queued, Nothing, Priority
  <2>3. q = p => RunOK(q)'
    BY <1>5, <2>2 DEF OpenBrowser, RunType, RunOK, Claims
  <2> QED
    BY <2>1, <2>3
<1>6. ASSUME NEW p \in Process,
             EnrollmentPends(p) \/ GetPolicy(p) \/ ReadConfig(p) \/ BackUpConfig(p)
             \/ ReplaceConfig(p)
      PROVE RunOK(q)'
  <2>1. q # p => RunUnchanged(q)
    BY <1>6 DEF EnrollmentPends, GetPolicy, ReadConfig, BackUpConfig, ReplaceConfig, RunType,
       RunUnchanged, Goto
  <2>2. ReadConfig(p) => status'[p] # "notice"
    <3>1. file.markers \in Markers
      BY DEF TypeOK, ConfigTypeOK, Contents
    <3> QED
      BY <3>1 DEF ReadConfig, RunType, Markers
  <2>3. q = p => RunOK(q)'
    BY <1>6, <2>2 DEF EnrollmentPends, GetPolicy, ReadConfig, BackUpConfig, ReplaceConfig,
       RunType, RunOK, Claims, Unclaimed, Goto
  <2> QED
    BY <2>1, <2>3
<1>7. ASSUME NEW p \in Process, Settle(p) PROVE RunOK(q)'
  <2>1. (ClaimFirstSuccess(p, status[p]) /\ Claims(p)) \/ UNCHANGED held
    BY <1>7 DEF Settle, DeferFirstSuccess, Claims
  <2>2. q # p => RunUnchanged(q)
    BY <1>7, <2>1, FirstSuccessClaimed DEF Settle, RunType, RunUnchanged, Proceed
  <2>3. q = p => RunOK(q)'
    <3>1. pc[p] = "settle" /\ pc'[p] = (IF Claims(p) THEN "welcome" ELSE "emit")
      BY <1>7 DEF Settle, RunType, Proceed, After
    <3>2. CASE Claims(p)
      <4>1. held[p] \subseteq held'[p]
        BY <2>1, FirstSuccessClaimed
      <4> QED
        BY <1>7, <3>1, <3>2, <4>1, ClaimingRun DEF Settle
    <3>3. CASE ~Claims(p)
      BY <1>7, <2>1, <3>1, <3>3 DEF Settle, RunOK, Claims, Unclaimed
    <3> QED
      BY <3>2, <3>3
  <2> QED
    BY <2>2, <2>3
<1>8. ASSUME NEW p \in Process, ClaimWelcome(p) PROVE RunOK(q)'
  <2>1. q # p => RunUnchanged(q)
    BY <1>8 DEF ClaimWelcome, RunType, RunUnchanged, Proceed
  <2>2. ASSUME q = p PROVE RunOK(q)'
    <3>1. pc[p] = "welcome" /\ pc'[p] = "emit"
      BY <1>8 DEF ClaimWelcome, RunType, Proceed, After
    <3>2. Claims(p)
      BY <2>2, <3>1 DEF RunOK
    <3> QED
      BY <1>8, <2>2, <3>1, <3>2, ClaimingRun DEF ClaimWelcome, RunType
  <2> QED
    BY <2>1, <2>2
<1>9. ASSUME NEW p \in Process, EmitAndRecord(p) PROVE RunOK(q)'
  BY <1>9, EmitHandsOver
<1>10. ASSUME NEW p \in Process, EnsureFails(p) PROVE RunOK(q)'
  BY <1>10, FailureSaysNothingElse
<1>11. ASSUME NEW p \in Process, Flush(p) \/ NoSources(p) \/ Die(p) PROVE RunOK(q)'
  BY <1>11, EndedRun DEF Flush, NoSources, Die
<1>12. ASSUME NEW p \in Process, StateFileFails(p) PROVE RunOK(q)'
  <2>1. q # p => RunUnchanged(q)
    BY <1>12 DEF StateFileFails, RunType, RunUnchanged, Proceed
  <2>2. q = p => RunOK(q)'
    <3>1. CASE pc[p] = "read update"
      BY <1>12, <3>1 DEF StateFileFails, RunType, RunOK, Claims, Unclaimed, Proceed, After,
         UpToDate, Version
    <3>2. CASE pc[p] # "read update"
      <4>1. /\ pc'[p] \in {"welcome", "emit"} /\ pc[p] \in {"claim first", "settle", "welcome"}
            /\ pc'[p] = "welcome" => Claims(p)
        BY <1>12, <3>2 DEF StateFileFails, RunType, Proceed, After
      <4> QED
        BY <1>12, <4>1 DEF StateFileFails, RunType, RunOK, Claims, Unclaimed
    <3> QED
      BY <3>1, <3>2
  <2> QED
    BY <2>1, <2>2
<1>13. CASE InstallUpdate \/ Reset \/ EditConfig \/ UNCHANGED vars
  BY <1>13 DEF InstallUpdate, Reset, EditConfig, vars, RunUnchanged
<1> QED
  BY <1>1, <1>2, <1>3, <1>4, <1>5, <1>6, <1>7, <1>8, <1>9, <1>10, <1>11, <1>12, <1>13 DEF Next,
     Step
-----------------------------------------------------------------------------
(* The notices.  A step leaves the one-time notices where they are, claims one that
   was not latched, or hands those of a run over.                             *)
LEMMA NoticesStay ==
  ASSUME NoticesInv, shown' = shown, repeated' = repeated,
         Latched \subseteq Latched', Claimed' \subseteq Claimed,
         \A q \in Process : OneTimeIn(q)' = OneTimeIn(q)
  PROVE  NoticesInv'
BY DEF NoticesInv

LEMMA NoticeIsClaimed ==
  ASSUME NoticesInv, NEW p \in Process, NEW n, n \in OneTime \ Latched,
         shown' = shown, repeated' = repeated,
         Latched' = Latched \cup {n}, Claimed' = Claimed \cup {n},
         OneTimeIn(p)' = OneTimeIn(p) \cup {n},
         \A q \in Process \ {p} : OneTimeIn(q)' = OneTimeIn(q)
  PROVE  NoticesInv'
BY DEF NoticesInv

LEMMA NoticesAreHandedOver ==
  ASSUME NoticesInv, NEW p \in Process,
         shown' \cap OneTime = (shown \cap OneTime) \cup OneTimeIn(p), repeated' = repeated,
         Latched' = Latched, Claimed' = Claimed,
         Claimed \subseteq OneTime,
         OneTimeIn(p)' = {},
         \A q \in Process \ {p} : OneTimeIn(q)' = OneTimeIn(q)
  PROVE  NoticesInv'
BY DEF NoticesInv, OneTimeIn

(* What is claimed is what the state file says, and nothing else. *)
LEMMA SameClaims ==
  ASSUME firstShown' = firstShown, welcomed' = welcomed, resets' = resets
  PROVE  Latched' = Latched /\ Claimed' = Claimed
BY DEF Latched, Claimed, First

LEMMA UnchangedOneTime ==
  ASSUME NEW q, RunUnchanged(q) PROVE OneTimeIn(q)' = OneTimeIn(q)
BY DEF RunUnchanged, OneTimeIn

LEMMA ClaimedIsOneTime == TypeOK => Claimed \subseteq OneTime
BY NoticesAreKnown DEF TypeOK, Claimed

(* First success: claimed if it was not, or nothing changes. *)
LEMMA FirstSuccessNotices ==
  ASSUME TypeOK, NoticesInv, NEW p \in Process, NEW s, ClaimFirstSuccess(p, s),
         UNCHANGED <<welcomed, resets, shown, repeated, out>>
  PROVE  NoticesInv'
<1>1. held \in [Process -> SUBSET Notice] /\ First \in OneTime
  BY NoticesAreKnown DEF TypeOK
<1>2. CASE UNCHANGED <<firstShown, firstPending, held>>
  <2>1. \A q \in Process : OneTimeIn(q)' = OneTimeIn(q)
    BY <1>2 DEF OneTimeIn
  <2> QED
    BY <1>2, <2>1, SameClaims, NoticesStay
<1>3. CASE ~firstShown /\ firstShown' = TRUE /\ held' = [held EXCEPT ![p] = @ \cup {First}]
  <2>1. First \notin Latched
    BY <1>3 DEF Latched, Claimed, First, Welcome, TypeOK
  <2>2. Claimed' = Claimed \cup {First} /\ Latched' = Latched \cup {First}
    BY <1>3 DEF Latched, Claimed, First
  <2>3. held'[p] = held[p] \cup {First} /\ \A q \in Process \ {p} : held'[q] = held[q]
    BY <1>1, <1>3
  <2>4. OneTimeIn(p)' = OneTimeIn(p) \cup {First}
        /\ \A q \in Process \ {p} : OneTimeIn(q)' = OneTimeIn(q)
    BY <1>1, <2>3 DEF OneTimeIn
  <2> QED
    BY <1>1, <2>1, <2>2, <2>4, NoticeIsClaimed
<1> QED
  BY <1>2, <1>3 DEF ClaimFirstSuccess

LEMMA NextNotices ==
  TypeOK /\ (\A q \in Process : RunOK(q)) /\ NoticesInv /\ [Next]_vars => NoticesInv'
<1> SUFFICES ASSUME TypeOK, \A q \in Process : RunOK(q), NoticesInv, [Next]_vars PROVE NoticesInv'
  OBVIOUS
<1>a. RunType
  BY TypeParts
<1> USE <1>a DEF stateFile, runVars, history, bounds
<1>1. ASSUME NEW p \in Process, NEW d \in Process, Launch(p, d) PROVE NoticesInv'
  BY <1>1, SameClaims, NoticesStay DEF Launch, OneTimeIn
<1>2. ASSUME NEW p \in Process, NEW k \in Commands, StartEnsure(p, k) PROVE NoticesInv'
  BY <1>2, SameClaims, NoticesStay DEF StartEnsure, OneTimeIn
<1>3. ASSUME NEW p \in Process, ReadUpdate(p) PROVE NoticesInv'
  <2>1. held[p] = {} /\ Update(version[p]) \notin OneTime
    BY <1>3 DEF ReadUpdate, RunOK, Update, OneTime, Welcome
  <2>2. held'[p] \cap OneTime = {} /\ \A q \in Process \ {p} : held'[q] = held[q]
    BY <1>3, <2>1 DEF ReadUpdate, RunType
  <2>3. \A q \in Process : OneTimeIn(q)' = OneTimeIn(q)
    BY <1>3, <2>1, <2>2 DEF ReadUpdate, OneTimeIn
  <2> QED
    BY <1>3, <2>3, SameClaims, NoticesStay DEF ReadUpdate
<1>4. ASSUME NEW p \in Process, ClaimDeferred(p) PROVE NoticesInv'
  BY <1>4, FirstSuccessNotices DEF ClaimDeferred
<1>5. ASSUME NEW p \in Process, OpenBrowser(p) PROVE NoticesInv'
  <2>1. out[p].notices = {} /\ out'[p].notices = {} /\ \A q \in Process \ {p} : out'[q] = out[q]
    BY <1>5 DEF OpenBrowser, Nothing, Queued, RunType
  <2>2. \A q \in Process : OneTimeIn(q)' = OneTimeIn(q)
    BY <1>5, <2>1 DEF OpenBrowser, OneTimeIn
  <2> QED
    BY <1>5, <2>2, SameClaims, NoticesStay DEF OpenBrowser
<1>6. ASSUME NEW p \in Process,
             EnrollmentPends(p) \/ GetPolicy(p) \/ ReadConfig(p) \/ BackUpConfig(p)
             \/ ReplaceConfig(p) \/ StateFileFails(p)
      PROVE NoticesInv'
  <2>1. UNCHANGED <<firstShown, welcomed, resets, shown, repeated, held, out>>
    BY <1>6 DEF EnrollmentPends, GetPolicy, ReadConfig, BackUpConfig, ReplaceConfig,
       StateFileFails
  <2> QED
    BY <2>1, SameClaims, NoticesStay DEF OneTimeIn
<1>7. ASSUME NEW p \in Process, Settle(p) PROVE NoticesInv'
  <2>1. UNCHANGED <<welcomed, resets, shown, repeated, out>>
    BY <1>7 DEF Settle
  <2>2. ClaimFirstSuccess(p, status[p]) \/ UNCHANGED <<firstShown, held>>
    BY <1>7 DEF Settle, DeferFirstSuccess, Claims
  <2>3. CASE UNCHANGED <<firstShown, held>>
    BY <2>1, <2>3, SameClaims, NoticesStay DEF OneTimeIn
  <2> QED
    BY <2>1, <2>2, <2>3, FirstSuccessNotices
<1>8. ASSUME NEW p \in Process, ClaimWelcome(p) PROVE NoticesInv'
  <2> DEFINE n == Welcome(version[p])
  <2>1. n \in OneTime /\ version[p] \in Version /\ held \in [Process -> SUBSET Notice]
    BY NoticesAreKnown DEF RunType
  <2>2. UNCHANGED <<firstShown, resets, shown, repeated, out>>
    BY <1>8 DEF ClaimWelcome
  <2>3. CASE UNCHANGED <<welcomed, held>>
    BY <2>2, <2>3, SameClaims, NoticesStay DEF OneTimeIn
  <2>4. CASE /\ version[p] \notin welcomed /\ welcomed' = welcomed \cup {version[p]}
             /\ held' = [held EXCEPT ![p] = @ \cup {n}]
    <3>1. n \notin Latched
      BY <2>4 DEF Latched, Claimed, First, Welcome
    <3>2. Claimed' = Claimed \cup {n} /\ Latched' = Latched \cup {n}
      BY <2>2, <2>4 DEF Latched, Claimed, First
    <3>3. held'[p] = held[p] \cup {n} /\ \A q \in Process \ {p} : held'[q] = held[q]
      BY <2>1, <2>4
    <3>4. OneTimeIn(p)' = OneTimeIn(p) \cup {n}
          /\ \A q \in Process \ {p} : OneTimeIn(q)' = OneTimeIn(q)
      BY <2>1, <2>2, <3>3 DEF OneTimeIn
    <3> QED
      BY <2>1, <2>2, <3>1, <3>2, <3>4, NoticeIsClaimed
  <2> QED
    BY <1>8, <2>3, <2>4 DEF ClaimWelcome
<1>9. ASSUME NEW p \in Process, EmitAndRecord(p) PROVE NoticesInv'
  <2>1. out[p].notices = {}
    BY <1>9 DEF EmitAndRecord, RunOK
  <2>2. OneTimeIn(p)' = OneTimeIn(p) /\ \A q \in Process \ {p} : OneTimeIn(q)' = OneTimeIn(q)
    BY <1>9, <2>1, EmitHandsOver, UnchangedOneTime DEF OneTimeIn
  <2> QED
    BY <1>9, <2>2, SameClaims, NoticesStay DEF EmitAndRecord
<1>10. ASSUME NEW p \in Process, EnsureFails(p) PROVE NoticesInv'
  <2>1. out[p].notices = {} /\ held[p] \cap OneTime = {}
    BY <1>10 DEF EnsureFails, RunOK, Unclaimed
  <2>2. OneTimeIn(p)' = OneTimeIn(p) /\ \A q \in Process \ {p} : OneTimeIn(q)' = OneTimeIn(q)
    BY <1>10, <2>1, FailureSaysNothingElse, UnchangedOneTime DEF OneTimeIn
  <2> QED
    BY <1>10, <2>2, SameClaims, NoticesStay DEF EnsureFails
<1>11. ASSUME NEW p \in Process, Ends(p), UNCHANGED <<firstShown, welcomed, resets>>,
              shown' = shown \cup held[p] \cup out[p].notices, repeated' = repeated
       PROVE NoticesInv'
  <2>1. OneTimeIn(p)' = {} /\ \A q \in Process \ {p} : OneTimeIn(q)' = OneTimeIn(q)
    BY <1>11, EndedRun, UnchangedOneTime DEF OneTimeIn, Nothing
  <2>2. shown' \cap OneTime = (shown \cap OneTime) \cup OneTimeIn(p)
    BY <1>11 DEF OneTimeIn
  <2> QED
    BY <1>11, <2>1, <2>2, SameClaims, ClaimedIsOneTime, NoticesAreHandedOver
<1>12. ASSUME NEW p \in Process, Flush(p) PROVE NoticesInv'
  <2>1. held[p] = {}
    BY <1>12 DEF Flush, RunOK
  <2>2. repeated' = repeated
    BY <1>12 DEF Flush, NoticesInv, OneTimeIn
  <2> QED
    BY <1>11, <1>12, <2>1, <2>2 DEF Flush
<1>13. ASSUME NEW p \in Process, NoSources(p) PROVE NoticesInv'
  <2>1. held[p] = {} /\ out[p].notices = {}
    BY <1>13 DEF NoSources, RunOK
  <2> QED
    BY <1>11, <1>13, <2>1 DEF NoSources
<1>14. ASSUME NEW p \in Process, Die(p) PROVE NoticesInv'
  BY <1>11, <1>14 DEF Die
<1>15. CASE InstallUpdate \/ EditConfig \/ UNCHANGED vars
  <2>1. UNCHANGED <<firstShown, welcomed, resets, shown, repeated, held, out>>
    BY <1>15 DEF InstallUpdate, EditConfig, vars
  <2> QED
    BY <2>1, SameClaims, NoticesStay DEF OneTimeIn
<1>16. CASE Reset
  <2>1. Claimed' \subseteq Claimed
    BY <1>16 DEF Reset, Claimed
  <2>2. Latched \subseteq Latched'
    BY <1>16 DEF Reset, Latched, Claimed, First, TypeOK
  <2> QED
    BY <1>16, <2>1, <2>2, NoticesStay DEF Reset, OneTimeIn
<1> QED
  BY <1>1, <1>2, <1>3, <1>4, <1>5, <1>6, <1>7, <1>8, <1>9, <1>10, <1>12, <1>13, <1>14,
     <1>15, <1>16 DEF Next, Step
-----------------------------------------------------------------------------
(* The recorded version. *)
LEMMA RecordedStays ==
  ASSUME RecordedInv, seen' = seen, baseline' = baseline, shown \subseteq shown',
         \A q \in Process : out[q].notices \subseteq shown' \cup out'[q].notices
  PROVE  RecordedInv'
BY DEF RecordedInv, Update

LEMMA NextRecorded ==
  TypeOK /\ (\A q \in Process : RunOK(q)) /\ RecordedInv /\ [Next]_vars => RecordedInv'
<1> SUFFICES ASSUME TypeOK, \A q \in Process : RunOK(q), RecordedInv, [Next]_vars
             PROVE RecordedInv'
  OBVIOUS
<1>a. RunType
  BY TypeParts
<1> USE <1>a DEF stateFile, runVars, history, bounds
<1>1. CASE UNCHANGED <<seen, baseline, shown, out>>
  BY <1>1, RecordedStays
<1>2. ASSUME NEW p \in Process, OpenBrowser(p) PROVE RecordedInv'
  <2>1. out[p].notices = {} /\ \A q \in Process \ {p} : out'[q] = out[q]
    BY <1>2 DEF OpenBrowser, Nothing, RunType
  <2> QED
    BY <1>2, <2>1, RecordedStays DEF OpenBrowser
<1>3. ASSUME NEW p \in Process, EmitAndRecord(p) PROVE RecordedInv'
  <2>1. /\ out[p].notices = {} /\ out'[p].notices = held[p]
        /\ \A q \in Process \ {p} : out'[q] = out[q]
    BY <1>3, EmitHandsOver DEF EmitAndRecord, RunOK, RunUnchanged
  <2>2. shown' = shown
    BY <1>3 DEF EmitAndRecord
  <2>3. CASE UNCHANGED <<seen, baseline>>
    BY <2>1, <2>2, <2>3, RecordedStays
  <2>4. CASE Records(p) /\ seen' = version[p] /\ baseline' = (lastSeen[p] = 0)
    <3>1. lastSeen[p] = 0 \/ lastSeen[p] \in Version
      BY <2>4, BoundsAreNat DEF Records, RunType, UpToDate, Version
    <3>2. CASE lastSeen[p] \in Version /\ lastSeen[p] # 0
      <4>1. Update(version[p]) \in held[p]
        BY <2>4, <3>2 DEF Records, RunOK
      <4> QED
        BY <2>1, <2>4, <4>1 DEF RecordedInv, Update
    <3> QED
      BY <2>4, <3>1, <3>2 DEF RecordedInv
  <2> QED
    BY <1>3, <2>3, <2>4 DEF EmitAndRecord, RecordVersion
<1>4. ASSUME NEW p \in Process, EnsureFails(p) PROVE RecordedInv'
  <2>1. out[p].notices = {} /\ \A q \in Process \ {p} : out'[q] = out[q]
    BY <1>4, FailureSaysNothingElse DEF EnsureFails, RunOK, RunUnchanged
  <2> QED
    BY <1>4, <2>1, RecordedStays DEF EnsureFails
<1>5. ASSUME NEW p \in Process, Flush(p) \/ NoSources(p) \/ Die(p) PROVE RecordedInv'
  <2>1. \A q \in Process \ {p} : out'[q] = out[q]
    BY <1>5, EndedRun DEF Flush, NoSources, Die, RunUnchanged
  <2>2. out[p].notices \subseteq shown' /\ shown \subseteq shown' /\ seen' = seen /\ baseline' = baseline
    BY <1>5 DEF Flush, NoSources, Die, RunOK
  <2> QED
    BY <2>1, <2>2, RecordedStays
<1>6. ASSUME NEW p \in Process, Step(p),
             ~OpenBrowser(p), ~EmitAndRecord(p), ~EnsureFails(p), ~(Flush(p) \/ NoSources(p) \/ Die(p))
      PROVE UNCHANGED <<seen, baseline, shown, out>>
  BY <1>6 DEF Step, Launch, StartEnsure, ReadUpdate, ClaimDeferred, EnrollmentPends, GetPolicy,
              ReadConfig, BackUpConfig, ReplaceConfig, Settle, ClaimWelcome, StateFileFails
<1>7. CASE InstallUpdate \/ Reset \/ EditConfig \/ UNCHANGED vars
  BY <1>1, <1>7 DEF InstallUpdate, Reset, EditConfig, vars
<1> QED
  BY <1>1, <1>2, <1>3, <1>4, <1>5, <1>6, <1>7 DEF Next
-----------------------------------------------------------------------------
LEMMA NextReplacers == TypeOK /\ ReplacersBackedUp /\ [Next]_vars => ReplacersBackedUp'
<1> SUFFICES ASSUME TypeOK, ReplacersBackedUp, [Next]_vars PROVE ReplacersBackedUp'
  OBVIOUS
<1>a. RunType
  BY TypeParts
<1> USE <1>a DEF runVars, configVars
<1>1. ASSUME NEW p \in Process, NEW d \in Process, Launch(p, d) PROVE ReplacersBackedUp'
  BY <1>1 DEF Launch, ReplacersBackedUp, RunType
<1>2. ASSUME NEW p \in Process, NEW k \in Commands, StartEnsure(p, k) PROVE ReplacersBackedUp'
  BY <1>2 DEF StartEnsure, Goto, ReplacersBackedUp, RunType
<1>3. ASSUME NEW p \in Process, ReadUpdate(p) \/ ClaimDeferred(p) \/ Settle(p) \/ ClaimWelcome(p)
                                \/ StateFileFails(p)
      PROVE ReplacersBackedUp'
  <2>1. pc'[p] # "replace" /\ \A q \in Process \ {p} : pc'[q] = pc[q]
    BY <1>3 DEF ReadUpdate, ClaimDeferred, Settle, ClaimWelcome, StateFileFails, Proceed,
       After, RunType
  <2>2. replacing' = replacing
    BY <1>3 DEF ReadUpdate, ClaimDeferred, Settle, ClaimWelcome, StateFileFails
  <2> QED
    BY <2>1, <2>2 DEF ReplacersBackedUp
<1>4. ASSUME NEW p \in Process, OpenBrowser(p) PROVE ReplacersBackedUp'
  BY <1>4 DEF OpenBrowser, ReplacersBackedUp
<1>5. ASSUME NEW p \in Process, EnrollmentPends(p) \/ GetPolicy(p) \/ ReadConfig(p)
      PROVE ReplacersBackedUp'
  <2>1. pc'[p] # "replace" /\ \A q \in Process \ {p} : pc'[q] = pc[q]
    BY <1>5 DEF EnrollmentPends, GetPolicy, ReadConfig, Goto, RunType
  <2>2. replacing' = replacing
    BY <1>5 DEF EnrollmentPends, GetPolicy, ReadConfig, ReadFile
  <2> QED
    BY <2>1, <2>2 DEF ReplacersBackedUp
<1>6. ASSUME NEW p \in Process, BackUpConfig(p) PROVE ReplacersBackedUp'
  BY <1>6 DEF BackUpConfig, BackUp, Goto, ReplacersBackedUp, RunType
<1>7. ASSUME NEW p \in Process, ReplaceConfig(p) PROVE ReplacersBackedUp'
  BY <1>7 DEF ReplaceConfig, ReplaceFile, Goto, ReplacersBackedUp, RunType
<1>8. ASSUME NEW p \in Process, EmitAndRecord(p) \/ EnsureFails(p) \/ Flush(p) \/ NoSources(p) \/ Die(p)
      PROVE ReplacersBackedUp'
  <2>1. pc'[p] # "replace" /\ \A q \in Process \ {p} : pc'[q] = pc[q]
    BY <1>8 DEF EmitAndRecord, EnsureFails, Flush, NoSources, Die, ToBeFlushed, Ends, Goto,
       RunType
  <2>2. replacing' = replacing \ {p}
    BY <1>8 DEF EmitAndRecord, EnsureFails, Flush, NoSources, Die, ToBeFlushed, Ends, Forget
  <2> QED
    BY <2>1, <2>2 DEF ReplacersBackedUp
<1>9. CASE InstallUpdate \/ Reset \/ UNCHANGED vars
  BY <1>9 DEF InstallUpdate, Reset, vars, ReplacersBackedUp
<1>10. CASE EditConfig
  BY <1>10 DEF EditConfig, UserEdits, ReplacersBackedUp
<1> QED
  BY <1>1, <1>2, <1>3, <1>4, <1>5, <1>6, <1>7, <1>8, <1>9, <1>10 DEF Next, Step
-----------------------------------------------------------------------------
LEMMA InitIInv == Init => IInv
<1> SUFFICES ASSUME Init PROVE IInv
  OBVIOUS
<1>1. TypeOK /\ ConfigInv
  BY InitType, ConfigInitially DEF Init
<1>2. ReplacersBackedUp
  BY DEF Init, ReplacersBackedUp
<1>3. ASSUME NEW p \in Process PROVE RunOK(p)
  <2>1. Nothing.notices = {} /\ Nothing.priority = -1
    BY DEF Nothing
  <2> QED
    BY <2>1 DEF Init, RunOK, Claims
<1>4. NoticesInv
  BY DEF Init, NoticesInv, OneTimeIn, Latched, Claimed, Nothing
<1>5. RecordedInv
  BY DEF Init, RecordedInv
<1> QED
  BY <1>1, <1>2, <1>3, <1>4, <1>5 DEF IInv

LEMMA InductiveStep == IInv /\ [Next]_vars => IInv'
<1> SUFFICES ASSUME IInv, [Next]_vars PROVE IInv'
  OBVIOUS
<1>1. ConfigInv' /\ ReplacersBackedUp'
  BY NextIsConfigStep, ConfigStepKeepsInv, NextReplacers DEF IInv
<1>2. TypeOK'
  BY <1>1, NextType DEF IInv, ConfigInv
<1>3. (\A q \in Process : RunOK(q))'
  BY NextRunOK DEF IInv
<1>4. NoticesInv' /\ RecordedInv'
  BY NextNotices, NextRecorded DEF IInv
<1> QED
  BY <1>1, <1>2, <1>3, <1>4 DEF IInv

(* The strengthened invariant holds throughout: each run's own conditions, who has
   which notice, and what a replacement of the user's file relies on.         *)
THEOREM SessionStartInvariance == Spec => []IInv
<1>1. Init => IInv
  BY InitIInv
<1>2. IInv /\ [Next]_vars => IInv'
  BY InductiveStep
<1> QED
  BY <1>1, <1>2, PTL DEF Spec

(* Every variable has its type, for any number of processes and any versions. *)
THEOREM SessionStartTypes == Spec => []TypeOK
<1>1. IInv => TypeOK
  BY DEF IInv
<1> QED
  BY <1>1, SessionStartInvariance, PTL

(* No notice is shown twice (claim_notices and the latches in the state file). *)
THEOREM NoticesAreShownOnce == Spec => []OneTimeNoticesOnce
<1>1. IInv => OneTimeNoticesOnce
  BY DEF IInv, NoticesInv, OneTimeNoticesOnce
<1> QED
  BY <1>1, SessionStartInvariance, PTL

(* No claimed notice is swallowed by a run that lives on. *)
THEOREM ClaimedNoticesAreShown == Spec => []ClaimedIsShown
<1>1. IInv => ClaimedIsShown
  BY DEF IInv, NoticesInv, ClaimedIsShown, InFlight, OneTimeIn
<1> QED
  BY <1>1, SessionStartInvariance, PTL

(* No update is recorded that was not put out (_record_plugin_version_seen). *)
THEOREM RecordedVersionsAreAnnounced == Spec => []RecordedIsAnnounced
<1>1. IInv => RecordedIsAnnounced
  BY DEF IInv, RecordedInv, RecordedIsAnnounced, InFlight
<1> QED
  BY <1>1, SessionStartInvariance, PTL

(* No edit of the user's file is lost but in the moment named (_write_with_backup). *)
THEOREM UserEditsAreKept == Spec => []EditsAreKept
<1>1. IInv => EditsAreKept
  BY DEF IInv, ConfigInv
<1> QED
  BY <1>1, SessionStartInvariance, PTL
=============================================================================
