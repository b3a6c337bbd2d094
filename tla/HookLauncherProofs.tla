------------------------- MODULE HookLauncherProofs -------------------------
(***************************************************************************)
(* A hook's promises for any number of versions, of files in a bundle, of  *)
(* changes by the installer and of mishaps.                                *)
(*                                                                         *)
(* The argument: as long as the installer leaves the version that is being *)
(* looked at alone, every file the second pass has gone by is readable     *)
(* (PassedFilesAreGood); so the version that is chosen is complete until   *)
(* the installer comes to it (ChosenIsComplete), and the processes that    *)
(* load it fail only then (LoadersNeedAChange).  What the script says, and *)
(* what the log holds, follows step by step (Talk, Work).                  *)
(***************************************************************************)
EXTENDS HookLauncher, FiniteSetTheorems, WellFoundedInduction, TLAPS

Searching == pc \in {"root", "own", "list", "sibling"}
Launching == Searching \/ pc \in {"probe", "load"}

(* What the script has in hand at each of its steps. *)
Search ==
  /\ pc \in {"root", "own", "list"} => chosen = 0
  /\ pc = "root" => siblings = {}
  /\ Looking => at \in Version /\ at \notin siblings
  /\ pc = "own" => at = hook.root
  /\ pc = "sibling" => chosen # at /\ chosen \notin siblings
  /\ Launching => back = "none" /\ unloaded = {}
  /\ pc \in {"probe", "load"} \/ back # "none" => chosen # 0

PassedFilesAreGood ==
  Looking /\ pass = "access" /\ at \notin touched =>
    \A f \in File : f < file => disk[at][f] = "good"
ChosenIsComplete == chosen # 0 /\ chosen \notin touched => Complete(chosen)
LoadersNeedAChange == unloaded # {} => chosen \in touched

(* Another version is looked at only by a terminal hook whose own is incomplete. *)
OwnCameFirst ==
  pc \in {"list", "sibling"} \/ chosen \notin {0, hook.root} =>
    ~Starting /\ (~Complete(hook.root) \/ changes > 0)

(* What was said and recorded when the script is over, ... *)
Talk ==
  /\ ~Starting /\ told # {} =>
       pc = "done" /\ hook.host = "claude" /\ (chosen \in touched \/ mishaps > 0)
  /\ pc = "notices" => Starting /\ back # "none"
  /\ Starting /\ pc = "done" /\ back = "none" => told # {} \/ killed

(* ... and when the detached process of a start hook is. *)
WorkIsTraced ==
  Starting =>
    /\ back \notin {"child", "gather"}
    /\ back \in {"desktop", "done"} /\ "host" \notin collected =>
         recorded # {} \/ "supervisor" \in unloaded

IInv ==
  /\ TypeOK /\ Search
  /\ PassedFilesAreGood /\ ChosenIsComplete /\ LoadersNeedAChange
  /\ OwnCameFirst /\ Talk /\ WorkIsTraced

(* The type invariant in parts: numbers, the rest, and one Boolean. *)
Numbers ==
  /\ at \in 0 .. MaxVersion /\ chosen \in 0 .. MaxVersion
  /\ file \in 1 .. Files /\ loaded \in 0 .. Files
  /\ changes \in 0 .. MaxChanges /\ mishaps \in 0 .. MaxMishaps
Rest ==
  /\ disk \in [Version -> [File -> FileState]] /\ hook \in Hook
  /\ pc \in Pc /\ back \in Back
  /\ pass \in {"stat", "access"}
  /\ siblings \in SUBSET Version
  /\ collected \in SUBSET {"host", "desktop"}
  /\ told \in SUBSET Said /\ recorded \in SUBSET Failure
  /\ unloaded \in SUBSET {"launcher", "supervisor", "collector"}
  /\ touched \in SUBSET Version

USE SizesAreNat, LimitsAreNat
-----------------------------------------------------------------------------
(* Of versions that are there one comes first. *)
LEMMA FirstIsOne ==
  ASSUME NEW versions \in SUBSET Version, versions # {}
  PROVE  First(versions) \in versions
<1> DEFINE Upto(v) == {w \in versions : w <= v}
           Initials == {Upto(v) : v \in versions}
<1>1. versions \subseteq Nat
  BY DEF Version
<1>a. Initials \subseteq SUBSET Version
  BY Zenon
<1>b. Initials # {}
  BY Zenon
<1>2. IsFiniteSet(Version)
  BY FS_Interval DEF Version
<1>3. IsWellFoundedOn(StrictSubsetOrdering(Version), SUBSET Version)
  BY <1>2, FS_StrictSubsetOrderingWellFounded, FS_FiniteSubsetsOfFinite
<1>4. PICK least \in Initials : \A other \in Initials :
        ~ (<<other, least>> \in StrictSubsetOrdering(Version))
  <2> HIDE DEF Initials
  <2> QED
    BY <1>a, <1>b, <1>3, WFMin
<1>5. PICK v \in versions : least = Upto(v)
  OBVIOUS
<1>6. \A w \in versions : v <= w
  <2> SUFFICES ASSUME NEW w \in versions, w < v
               PROVE  FALSE
    BY <1>1
  <2>0. v <= v /\ ~ (v <= w) /\ \A u \in versions : u <= w => u <= v
    BY <1>1
  <2>1. Upto(w) \subseteq Upto(v) /\ v \in Upto(v) /\ v \notin Upto(w)
    BY <2>0, Zenon
  <2>2. <<Upto(w), Upto(v)>> \in StrictSubsetOrdering(Version)
    BY <1>1, <2>1 DEF StrictSubsetOrdering
  <2> QED
    BY <1>4, <1>5, <2>2
<1> QED
  BY <1>6 DEF First


(* The type invariant in parts. *)
LEMMA TypeParts == TypeOK <=> Numbers /\ Rest /\ killed \in BOOLEAN
BY DEF TypeOK, Numbers, Rest, File

LEMMA InitInv == Init => IInv
<1> SUFFICES ASSUME Init
             PROVE  IInv
  OBVIOUS
<1>1. TypeOK
  <2>1. Numbers
    BY DEF Init, Numbers
  <2>2. Rest
    BY DEF Init, Rest, Pc, Back
  <2>3. killed \in BOOLEAN
    BY DEF Init
  <2> QED
    BY <2>1, <2>2, <2>3, TypeParts
<1>2. Search /\ PassedFilesAreGood /\ ChosenIsComplete /\ LoadersNeedAChange
  BY DEF Init, Search, PassedFilesAreGood, ChosenIsComplete, LoadersNeedAChange, Searching,
         Launching, Looking
<1>3. OwnCameFirst /\ Talk /\ WorkIsTraced
  BY DEF Init, OwnCameFirst, Talk, WorkIsTraced
<1> QED
  BY <1>1, <1>2, <1>3 DEF IInv

-----------------------------------------------------------------------------
(* Types. *)

(* Going on to the next version, or ending the search. *)
LEMMA GoOnTypes ==
  ASSUME Numbers, Rest, NEW rest \in SUBSET Version, NEW best \in 0 .. MaxVersion,
         GoOn(rest, best), UNCHANGED <<disk, hook, back, loaded, collected, recorded, unloaded,
                                       bounds>>
  PROVE  Numbers' /\ Rest'
<1>1. /\ at' \in 0 .. MaxVersion /\ chosen' \in 0 .. MaxVersion /\ file' \in 1 .. Files
      /\ pass' \in {"stat", "access"} /\ siblings' \in SUBSET Version
      /\ touched' \in SUBSET Version
      /\ pc' \in Pc /\ told' \in SUBSET Said
  <2>1. CASE rest # {}
    <3>1. First(rest) \in rest
      BY <2>1, FirstIsOne
    <3>2. First(rest) \in Version
      BY <3>1
    <3>a. First(rest) \in 0 .. MaxVersion
      BY <3>2 DEF Version
    <3>3. /\ LookAt(First(rest), "sibling") /\ siblings' = rest \ {First(rest)}
          /\ UNCHANGED told /\ chosen' = best
      BY <2>1 DEF GoOn
    <3> QED
      BY <3>2, <3>a, <3>3 DEF LookAt, Rest, Pc
  <2>2. CASE rest = {}
    <3>1. UNCHANGED <<at, pass, file, siblings, touched>> /\ chosen' = best
      BY <2>2 DEF GoOn
    <3>2. Finish("missing") \/ (pc' = "probe" /\ UNCHANGED told)
      BY <2>2 DEF GoOn
    <3>3. pc' \in Pc /\ told' \in SUBSET Said
      BY <3>2 DEF Finish, Rest, Pc, Said
    <3> QED
      BY <3>1, <3>3 DEF Rest, Numbers
  <2> QED
    BY <2>1, <2>2
<1> QED
  BY <1>1 DEF Numbers, Rest, bounds

LEMMA ListSiblingsTypes ==
  ASSUME Numbers, Rest, ListSiblings
  PROVE  Numbers' /\ Rest'
<1>1. Listed \in SUBSET Version /\ 0 \in 0 .. MaxVersion
  BY DEF Listed
<1>2. GoOn(Listed, 0) /\ UNCHANGED <<disk, hook, back, loaded, collected, recorded, unloaded,
                                     bounds>>
  BY DEF ListSiblings
<1> QED
  BY <1>1, <1>2, GoOnTypes

LEMMA SiblingIsCheckedTypes ==
  ASSUME Numbers, Rest, SiblingIsChecked
  PROVE  Numbers' /\ Rest'
<1>1. \E best \in {at, chosen} : GoOn(siblings, best)
  BY DEF SiblingIsChecked
<1>2. UNCHANGED <<disk, hook, back, loaded, collected, recorded, unloaded, bounds>>
  BY DEF SiblingIsChecked
<1>3. siblings \in SUBSET Version /\ at \in 0 .. MaxVersion /\ chosen \in 0 .. MaxVersion
  BY DEF Numbers, Rest
<1> QED
  BY <1>1, <1>2, <1>3, GoOnTypes

LEMMA FindRootTypes ==
  ASSUME Numbers, Rest, FindRoot
  PROVE  Numbers' /\ Rest'
<1>1. UNCHANGED <<at, file>> \/ (at' = hook.root /\ file' = 1)
  BY DEF FindRoot, LookAt
<1>2. UNCHANGED <<chosen, loaded, changes, mishaps>>
  BY DEF FindRoot, bounds
<1>3. hook.root \in 0 .. MaxVersion
  BY DEF Rest, Hook
<1>4. Numbers'
  BY <1>1, <1>2, <1>3 DEF Numbers
<1>5. Rest'
  BY DEF Rest, FindRoot, Finish, LookAt, bounds, Starting, Pc, Said
<1> QED
  BY <1>4, <1>5

LEMMA LauncherCannotLoadTypes ==
  ASSUME Numbers, Rest, LauncherCannotLoad
  PROVE  Numbers' /\ Rest'
<1>1. loaded' = 0 /\ UNCHANGED <<at, chosen, file, changes, mishaps>>
  BY DEF LauncherCannotLoad, bounds
<1>2. Numbers'
  BY <1>1 DEF Numbers
<1>3. Rest'
  BY DEF Rest, LauncherCannotLoad, LauncherFails, Starting, Pc, Said
<1> QED
  BY <1>2, <1>3

LEMMA LauncherCannotStartTypes ==
  ASSUME Numbers, Rest, LauncherCannotStart
  PROVE  Numbers' /\ Rest'
<1>1. /\ UNCHANGED <<at, chosen, file, loaded, changes>>
      /\ mishaps < MaxMishaps /\ mishaps' = mishaps + 1
  BY DEF LauncherCannotStart, Mishap
<1>2. Numbers'
  BY <1>1 DEF Numbers
<1>3. Rest'
  BY DEF Rest, LauncherCannotStart, LauncherFails, Starting, Pc, Said
<1> QED
  BY <1>2, <1>3

LEMMA ChangeTypes ==
  ASSUME Numbers, Rest, Change
  PROVE  Numbers' /\ Rest'
<1>1. Numbers'
  BY DEF Numbers, Change, hookVars
<1>2. disk' \in [Version -> [File -> FileState]] /\ touched' \in SUBSET Version
  BY DEF Rest, Change
<1>3. UNCHANGED <<hook, pc, back, pass, siblings, collected, told, recorded, unloaded>>
  BY DEF Change, hookVars, results
<1> QED
  BY <1>1, <1>2, <1>3 DEF Rest

LEMMA ActionKeepsTypes ==
  ASSUME TypeOK, Launch \/ Work \/ Change \/ Kill
  PROVE  TypeOK'
<1>0. Numbers /\ Rest
  BY TypeParts
<1>a. killed' \in BOOLEAN
  BY Zenon DEF Launch, Work, TypeOK, vars, BackSame, FindRoot, NextFile, OwnIsChecked,
       ListSiblings, SiblingIsChecked, Probe, LauncherReads, LauncherCannotLoad,
       LauncherCannotStart, Detach, CannotDetach, Notices, SupervisorReads,
       SupervisorCannotLoad, SupervisorIsLoaded, Ensure, ReadInput, Collect, CollectDesktop,
       CollectorReads, CollectorCannotStart, CollectorCannotLoad, CollectorIsLoaded, Gather,
       Change, Kill
<1>b. SUFFICES Numbers' /\ Rest'
  BY <1>a DEF TypeOK, Numbers, Rest, File
<1>1. CASE FindRoot
  BY <1>0, <1>1, FindRootTypes
<1>2. CASE NextFile
  <2>1. Numbers'
    BY <1>0, <1>2 DEF Numbers, NextFile, LastFile, results, bounds
  <2>2. Rest'
    BY <1>0, <1>2 DEF Rest, NextFile, Looking, LastFile, results, bounds, Pc, Back, Said,
         Failure
  <2> QED
    BY <2>1, <2>2
<1>3. CASE OwnIsChecked
  <2>1. Numbers'
    BY <1>0, <1>3 DEF Numbers, OwnIsChecked, Finish, LastFile, bounds
  <2>2. Rest'
    BY <1>0, <1>3 DEF Rest, OwnIsChecked, Finish, Starting, LastFile, bounds, Pc, Back,
         Said, Failure
  <2> QED
    BY <2>1, <2>2
<1>4. CASE ListSiblings
  BY <1>0, <1>4, ListSiblingsTypes
<1>5. CASE SiblingIsChecked
  BY <1>0, <1>5, SiblingIsCheckedTypes
<1>6. CASE Probe
  <2>1. Numbers'
    BY <1>0, <1>6 DEF Numbers, Probe, Finish, bounds
  <2>2. Rest'
    BY <1>0, <1>6 DEF Rest, Probe, Finish, Starting, bounds, Pc, Back, Said, Failure
  <2> QED
    BY <2>1, <2>2
<1>7. CASE LauncherReads
  <2>1. Numbers'
    BY <1>0, <1>7 DEF Numbers, LauncherReads, ReadFile, hookVars, results, bounds
  <2>2. Rest'
    BY <1>0, <1>7 DEF Rest, LauncherReads, ReadFile, hookVars, results, bounds, Pc, Back,
         Said, Failure
  <2> QED
    BY <2>1, <2>2
<1>8. CASE LauncherCannotLoad
  BY <1>0, <1>8, LauncherCannotLoadTypes
<1>9. CASE LauncherCannotStart
  BY <1>0, <1>9, LauncherCannotStartTypes
<1>10. CASE Detach
  <2>1. Numbers'
    BY <1>0, <1>10 DEF Numbers, Detach, IsLoaded, results, bounds
  <2>2. Rest'
    BY <1>0, <1>10 DEF Rest, Detach, IsLoaded, results, bounds, Starting, Pc, Back, Said,
         Failure
  <2> QED
    BY <2>1, <2>2
<1>11. CASE CannotDetach
  <2>1. Numbers'
    BY <1>0, <1>11 DEF Numbers, CannotDetach, Mishap, IsLoaded
  <2>2. Rest'
    BY <1>0, <1>11 DEF Rest, CannotDetach, Mishap, IsLoaded, Starting, Pc, Back, Said,
         Failure
  <2> QED
    BY <2>1, <2>2
<1>12. CASE Notices
  <2>1. Numbers'
    BY <1>0, <1>12 DEF Numbers, Notices, Mishap
  <2>2. Rest'
    BY <1>0, <1>12 DEF Rest, Notices, Mishap, Pc, Back, Said, Failure
  <2> QED
    BY <2>1, <2>2
<1>13. CASE SupervisorReads
  <2>1. Numbers'
    BY <1>0, <1>13 DEF Numbers, SupervisorReads, ReadFile, hookVars, results, bounds
  <2>2. Rest'
    BY <1>0, <1>13 DEF Rest, SupervisorReads, ReadFile, hookVars, results, bounds, Pc, Back,
         Said, Failure
  <2> QED
    BY <2>1, <2>2
<1>14. CASE SupervisorCannotLoad
  <2>1. Numbers'
    BY <1>0, <1>14 DEF Numbers, SupervisorCannotLoad, CannotRead, BackSame, hookVars,
         results
  <2>2. Rest'
    BY <1>0, <1>14 DEF Rest, SupervisorCannotLoad, CannotRead, BackSame, hookVars, results,
         Pc, Back, Said, Failure
  <2> QED
    BY <2>1, <2>2
<1>15. CASE SupervisorIsLoaded
  <2>1. Numbers'
    BY <1>0, <1>15 DEF Numbers, SupervisorIsLoaded, IsLoaded, Proceeds, BackSame, hookVars
  <2>2. Rest'
    BY <1>0, <1>15 DEF Rest, SupervisorIsLoaded, IsLoaded, Proceeds, BackSame, hookVars,
         Starting, Pc, Back, Said, Failure
  <2> QED
    BY <2>1, <2>2
<1>16. CASE Ensure
  <2>1. Numbers'
    BY <1>0, <1>16 DEF Numbers, Ensure, Proceeds, Fails, Mishap, BackSame, hookVars
  <2>2. Rest'
    BY <1>0, <1>16 DEF Rest, Ensure, Proceeds, Fails, Mishap, BackSame, hookVars, Pc, Back,
         Said, Failure
  <2> QED
    BY <2>1, <2>2
<1>17. CASE ReadInput
  <2>1. Numbers'
    BY <1>0, <1>17 DEF Numbers, ReadInput, Proceeds, Fails, Mishap, BackSame, hookVars
  <2>2. Rest'
    BY <1>0, <1>17 DEF Rest, ReadInput, Proceeds, Fails, Mishap, BackSame, hookVars, Pc,
         Back, Said, Failure
  <2> QED
    BY <2>1, <2>2
<1>18. CASE Collect
  <2>1. Numbers'
    BY <1>0, <1>18 DEF Numbers, Collect, Proceeds, Fails, Mishap, BackSame, hookVars
  <2>2. Rest'
    BY <1>0, <1>18 DEF Rest, Collect, Proceeds, Fails, Mishap, BackSame, hookVars, Pc, Back,
         Said, Failure
  <2> QED
    BY <2>1, <2>2
<1>19. CASE CollectDesktop
  <2>1. Numbers'
    BY <1>0, <1>19 DEF Numbers, CollectDesktop, Proceeds, Fails, Mishap, BackSame, hookVars
  <2>2. Rest'
    BY <1>0, <1>19 DEF Rest, CollectDesktop, Proceeds, Fails, Mishap, BackSame, hookVars,
         Pc, Back, Said, Failure
  <2> QED
    BY <2>1, <2>2
<1>20. CASE CollectorReads
  <2>1. Numbers'
    BY <1>0, <1>20 DEF Numbers, CollectorReads, ReadFile, hookVars, results, bounds
  <2>2. Rest'
    BY <1>0, <1>20 DEF Rest, CollectorReads, ReadFile, hookVars, results, bounds, Pc, Back,
         Said, Failure
  <2> QED
    BY <2>1, <2>2
<1>21. CASE CollectorCannotStart
  <2>1. Numbers'
    BY <1>0, <1>21 DEF Numbers, CollectorCannotStart, Fails, Mishap, BackSame, hookVars
  <2>2. Rest'
    BY <1>0, <1>21 DEF Rest, CollectorCannotStart, Fails, Mishap, BackSame, hookVars, Pc,
         Back, Said, Failure
  <2> QED
    BY <2>1, <2>2
<1>22. CASE CollectorCannotLoad
  <2>1. Numbers'
    BY <1>0, <1>22 DEF Numbers, CollectorCannotLoad, CannotRead, BackSame, hookVars
  <2>2. Rest'
    BY <1>0, <1>22 DEF Rest, CollectorCannotLoad, CannotRead, BackSame, hookVars, Pc, Back,
         Said, Failure
  <2> QED
    BY <2>1, <2>2
<1>23. CASE CollectorIsLoaded
  <2>1. Numbers'
    BY <1>0, <1>23 DEF Numbers, CollectorIsLoaded, IsLoaded, Proceeds, BackSame, hookVars
  <2>2. Rest'
    BY <1>0, <1>23 DEF Rest, CollectorIsLoaded, IsLoaded, Proceeds, BackSame, hookVars, Pc,
         Back, Said, Failure
  <2> QED
    BY <2>1, <2>2
<1>24. CASE Gather
  <2>1. Numbers'
    BY <1>0, <1>24 DEF Numbers, Gather, Proceeds, Fails, Mishap, BackSame, hookVars
  <2>2. Rest'
    BY <1>0, <1>24 DEF Rest, Gather, Proceeds, Fails, Mishap, BackSame, hookVars, Pc, Back,
         Said, Failure
  <2> QED
    BY <2>1, <2>2
<1>25. CASE Change
  BY <1>0, <1>25, ChangeTypes
<1>26. CASE Kill
  <2>1. Numbers'
    BY <1>0, <1>26 DEF Numbers, Kill, results, bounds
  <2>2. Rest'
    BY <1>0, <1>26 DEF Rest, Kill, results, bounds, Pc, Back, Said, Failure
  <2> QED
    BY <2>1, <2>2
<1> QED
  BY <1>1, <1>2, <1>3, <1>4, <1>5, <1>6, <1>7, <1>8, <1>9, <1>10, <1>11, <1>12, <1>13, <1>14,
       <1>15, <1>16, <1>17, <1>18, <1>19, <1>20, <1>21, <1>22, <1>23, <1>24, <1>25, <1>26 DEF
       Launch, Work
-----------------------------------------------------------------------------
(* The search. *)

(* A version some of whose files cannot be read was changed after it was chosen. *)
LEMMA CannotReadNeedsAChange ==
  ASSUME IInv, CannotRead, chosen # 0
  PROVE  chosen \in touched
<1>1. loaded + 1 \in File /\ disk[chosen][loaded + 1] # "good"
  BY SizesAreNat DEF IInv, TypeOK, CannotRead, File
<1> QED
  BY <1>1 DEF IInv, ChosenIsComplete, Complete

(* Going on to the next version, or ending the search, keeps what is known of the
   version that is best so far.                                                   *)
LEMMA GoOnSearch ==
  ASSUME IInv, pc \in {"list", "sibling"}, NEW rest \in SUBSET Version, NEW best \in 0 .. MaxVersion,
         best \notin rest, best # 0 /\ best \notin touched => Complete(best),
         GoOn(rest, best), UNCHANGED <<disk, hook, back, unloaded>>
  PROVE  /\ Search' /\ PassedFilesAreGood'
         /\ ChosenIsComplete' /\ LoadersNeedAChange'
<1>0. back = "none" /\ unloaded = {} /\ chosen' = best
  BY DEF IInv, Search, Launching, Searching, GoOn
<1>1. CASE rest # {}
  <2>1. PICK v \in rest : v = First(rest)
    BY <1>1, FirstIsOne
  <2>2. LookAt(v, "sibling") /\ siblings' = rest \ {v}
    BY <1>1, <2>1 DEF GoOn
  <2>3. v \in Version /\ v # best /\ v # 0
    BY <2>1, SizesAreNat DEF Version
  <2>4. pc' = "sibling" /\ at' = v /\ pass' = "stat" /\ touched' = touched \ {v}
    BY <2>2 DEF LookAt
  <2>5. Search' /\ PassedFilesAreGood' /\ LoadersNeedAChange'
    BY <1>0, <2>2, <2>3, <2>4
       DEF Search, PassedFilesAreGood, LoadersNeedAChange, Looking, Launching, Searching
  <2>6. ChosenIsComplete'
    BY <1>0, <2>3, <2>4 DEF ChosenIsComplete, Complete
  <2> QED
    BY <2>5, <2>6
<1>2. CASE rest = {}
  <2>1. UNCHANGED touched /\ ((pc' = "probe" /\ best # 0) \/ pc' = "done")
    BY <1>2 DEF GoOn, Finish
  <2>2. Search' /\ PassedFilesAreGood' /\ LoadersNeedAChange'
    BY <1>0, <2>1
       DEF Search, PassedFilesAreGood, LoadersNeedAChange, Looking, Launching, Searching
  <2>3. ChosenIsComplete'
    BY <1>0, <2>1 DEF ChosenIsComplete, Complete
  <2> QED
    BY <2>2, <2>3
<1> QED
  BY <1>1, <1>2

(* A file that passes the second pass is readable. *)
LEMMA FitIsGood ==
  ASSUME IInv, Looking, FileIsFit, pass = "access", at \notin touched
  PROVE  \A f \in File : f <= file => disk[at][f] = "good"
<1>1. disk[at][file] = "good"
  BY DEF FileIsFit
<1>2. \A f \in File : f < file => disk[at][f] = "good"
  BY DEF IInv, PassedFilesAreGood
<1>3. \A f \in File : f <= file => f < file \/ f = file
  BY SizesAreNat DEF IInv, TypeOK, File
<1> QED
  BY <1>1, <1>2, <1>3

LEMMA FindRootSearch ==
  ASSUME IInv, FindRoot
  PROVE  /\ Search' /\ PassedFilesAreGood'
         /\ ChosenIsComplete' /\ LoadersNeedAChange'
<1>0. hook.root # 0 => hook.root \in Version
  BY DEF IInv, TypeOK, Hook, Version
<1>1. chosen = 0 /\ chosen' = 0 /\ back = "none" /\ unloaded = {} /\ UNCHANGED <<back, unloaded, siblings, hook>>
  BY DEF FindRoot, IInv, Search, Launching, Searching
<1>2. pc' = "done" \/ (pc' = "own" /\ at' = hook.root /\ hook.root \in Version /\ pass' = "stat")
  BY <1>0 DEF FindRoot, Finish, LookAt
<1>4. siblings = {}
  BY DEF IInv, Search, FindRoot
<1>3. Search' /\ PassedFilesAreGood'
  BY <1>1, <1>2, <1>4 DEF Search, PassedFilesAreGood, Looking, Launching, Searching
<1> QED
  BY <1>1, <1>3 DEF ChosenIsComplete, LoadersNeedAChange

LEMMA NextFileSearch ==
  ASSUME IInv, TypeOK', NextFile
  PROVE  /\ Search' /\ PassedFilesAreGood'
         /\ ChosenIsComplete' /\ LoadersNeedAChange'
<1>1. UNCHANGED <<disk, hook, pc, at, siblings, chosen, back, unloaded, touched>>
  BY DEF NextFile
<1>2. CASE file = Files
  <2>1. file' = 1
    BY <1>2 DEF NextFile
  <2>2. \A f \in File : ~ (f < 1)
    BY SizesAreNat DEF File
  <2> QED
    BY <1>1, <2>1, <2>2 DEF PassedFilesAreGood, IInv, Search, ChosenIsComplete,
         LoadersNeedAChange, Looking, Launching, Searching, Complete
<1>3. CASE file # Files
  <2>1. file' = file + 1 /\ pass' = pass /\ Looking /\ FileIsFit
    BY <1>3 DEF NextFile
  <2>2. \A f \in File : f < file + 1 => f <= file
    BY SizesAreNat DEF IInv, TypeOK, File
  <2>3. PassedFilesAreGood'
    BY <1>1, <2>1, <2>2, FitIsGood DEF PassedFilesAreGood
  <2> QED
    BY <1>1, <2>3 DEF IInv, Search, ChosenIsComplete, LoadersNeedAChange, Looking, Launching,
         Searching, Complete
<1> QED
  BY <1>2, <1>3

LEMMA OwnIsCheckedKeeps ==
  ASSUME IInv, TypeOK', OwnIsChecked
  PROVE  /\ Search' /\ PassedFilesAreGood'
         /\ ChosenIsComplete' /\ LoadersNeedAChange' /\ OwnCameFirst' /\ Talk'
<1>1. UNCHANGED <<disk, hook, at, siblings, back, touched, unloaded, killed, changes, mishaps>>
        /\ Looking /\ chosen = 0 /\ back = "none" /\ unloaded = {} /\ at \in Version /\ at = hook.root
  BY DEF OwnIsChecked, bounds, IInv, Search, Looking, Launching, Searching
<1>2. CASE FileIsFit /\ LastFile /\ pc' = "probe" /\ chosen' = at /\ UNCHANGED told
  <2>1. at # 0 /\ \A f \in File : f <= file
    BY <1>1, <1>2, SizesAreNat DEF LastFile, File, Version
  <2>2. at \notin touched => Complete(at)
    BY <1>1, <1>2, <2>1, FitIsGood DEF LastFile, Complete
  <2>4. ChosenIsComplete'
    BY <1>1, <1>2, <2>2 DEF ChosenIsComplete, Complete
  <2>5. Talk'
    BY <1>1, <1>2 DEF Talk, IInv, OwnIsChecked, Starting
  <2> QED
    BY <1>1, <1>2, <2>1, <2>4, <2>5 DEF PassedFilesAreGood, Search, LoadersNeedAChange,
         Looking, Launching, Searching, OwnCameFirst, Starting
<1>3. CASE ~FileIsFit /\ chosen' = chosen
  <2>1. ~Complete(hook.root)
    BY <1>1, <1>3 DEF FileIsFit, Complete, IInv, TypeOK
  <2>2. pc' = "done" \/ (pc' = "list" /\ ~Starting /\ UNCHANGED told)
    BY <1>3 DEF OwnIsChecked, Finish
  <2>3. (Starting => told' # {} \/ pc' # "done") /\ (~Starting => told' = told)
    BY <1>3 DEF OwnIsChecked, Finish
  <2>5. ~Complete(hook.root)'
    BY <1>1, <2>1 DEF Complete
  <2>6. Talk' /\ OwnCameFirst'
    BY <1>1, <1>3, <2>2, <2>3, <2>5 DEF OwnIsChecked, Talk, IInv, Starting, OwnCameFirst
  <2> QED
    BY <1>1, <1>3, <2>2, <2>6 DEF PassedFilesAreGood, Search, LoadersNeedAChange,
         ChosenIsComplete, Looking, Launching, Searching
<1> QED
  BY <1>2, <1>3 DEF OwnIsChecked

LEMMA ListSiblingsSearch ==
  ASSUME IInv, ListSiblings
  PROVE  /\ Search' /\ PassedFilesAreGood'
         /\ ChosenIsComplete' /\ LoadersNeedAChange'
<1>1. Listed \in SUBSET Version /\ 0 \notin Listed /\ 0 \in 0 .. MaxVersion
  BY SizesAreNat DEF Listed, Version
<1>2. GoOn(Listed, 0) /\ UNCHANGED <<disk, hook, back, unloaded>> /\ pc = "list"
  BY DEF ListSiblings
<1> QED
  BY <1>1, <1>2, GoOnSearch

LEMMA SiblingIsCheckedSearch ==
  ASSUME IInv, SiblingIsChecked
  PROVE  /\ Search' /\ PassedFilesAreGood'
         /\ ChosenIsComplete' /\ LoadersNeedAChange'
<1>1. pc = "sibling" /\ Looking /\ UNCHANGED <<disk, hook, back, unloaded>>
  BY DEF SiblingIsChecked, Looking
<1>2. siblings \in SUBSET Version /\ at \notin siblings /\ chosen \notin siblings /\ at \in 0 .. MaxVersion /\ chosen \in 0 .. MaxVersion
  BY <1>1 DEF IInv, TypeOK, Search
<1>3. CASE FileIsFit /\ LastFile /\ GoOn(siblings, at)
  <2>1. \A f \in File : f <= file
    BY <1>3, SizesAreNat DEF LastFile, File
  <2>2. at \notin touched => Complete(at)
    BY <1>1, <1>3, <2>1, FitIsGood DEF LastFile, Complete
  <2> QED
    BY <1>1, <1>2, <1>3, <2>2, GoOnSearch
<1>4. CASE ~FileIsFit /\ GoOn(siblings, chosen)
  BY <1>1, <1>2, <1>4, GoOnSearch DEF IInv, ChosenIsComplete
<1> QED
  BY <1>3, <1>4 DEF SiblingIsChecked

LEMMA LauncherCannotLoadKeeps ==
  ASSUME IInv, LauncherCannotLoad
  PROVE  /\ Search' /\ PassedFilesAreGood'
         /\ ChosenIsComplete' /\ LoadersNeedAChange' /\ OwnCameFirst' /\ Talk'
<1>1. pc' = "done" /\ UNCHANGED <<disk, hook, chosen, back, touched, changes, siblings>> /\ chosen \in touched /\ chosen # 0
  BY CannotReadNeedsAChange DEF LauncherCannotLoad, LauncherFails, bounds, IInv, Search
<1>2. told' = IF Starting \/ hook.host = "claude" THEN told \cup {"no bundle"} ELSE told
  BY DEF LauncherCannotLoad, LauncherFails
<1>3. ~Starting => told = {}
  BY DEF IInv, Talk, LauncherCannotLoad
<1>4. Talk'
  BY <1>1, <1>2, <1>3 DEF Talk, Starting
<1> QED
  BY <1>1, <1>4 DEF IInv, Search, PassedFilesAreGood, ChosenIsComplete, LoadersNeedAChange,
       OwnCameFirst, Looking, Launching, Searching, Complete, Starting

LEMMA LauncherCannotStartTalk ==
  ASSUME IInv, LauncherCannotStart
  PROVE  OwnCameFirst' /\ Talk'
<1>1. mishaps \in Nat
  BY DEF IInv, TypeOK
<1>2. mishaps' = mishaps + 1
  BY DEF LauncherCannotStart, Mishap
<1>3. mishaps' > 0
  BY <1>1, <1>2
<1>4. pc' = "done" /\ UNCHANGED <<disk, hook, chosen, back, touched, changes>>
  BY DEF LauncherCannotStart, LauncherFails
<1>5. told' = IF Starting \/ hook.host = "claude" THEN told \cup {"no launch"} ELSE told
  BY DEF LauncherCannotStart, LauncherFails
<1>6. ~Starting => told = {}
  BY DEF IInv, Talk, LauncherCannotStart
<1>7. Talk'
  BY <1>3, <1>4, <1>5, <1>6 DEF Talk, Starting
<1> QED
  BY <1>4, <1>7 DEF IInv, OwnCameFirst, Complete, Starting

(* What the script knows of the versions. *)
LEMMA ActionKeepsSearch ==
  ASSUME IInv, TypeOK', Launch \/ Work \/ Change \/ Kill
  PROVE  /\ Search' /\ PassedFilesAreGood'
         /\ ChosenIsComplete' /\ LoadersNeedAChange'
<1>1. CASE FindRoot
  BY <1>1, FindRootSearch
<1>2. CASE NextFile
  BY <1>2, NextFileSearch
<1>3. CASE OwnIsChecked
  BY <1>3, OwnIsCheckedKeeps
<1>4. CASE ListSiblings
  BY <1>4, ListSiblingsSearch
<1>5. CASE SiblingIsChecked
  BY <1>5, SiblingIsCheckedSearch
<1>6. CASE Probe
  BY <1>6 DEF IInv, TypeOK, Probe, Finish, Starting, bounds, Search, PassedFilesAreGood,
       ChosenIsComplete, LoadersNeedAChange, Searching, Launching, Looking, Complete, File,
       Version, Hook
<1>7. CASE LauncherReads
  BY <1>7 DEF IInv, TypeOK, LauncherReads, ReadFile, hookVars, results, bounds, Search,
       PassedFilesAreGood, ChosenIsComplete, LoadersNeedAChange, Searching, Launching,
       Looking, Complete, File, Version, Hook
<1>8. CASE LauncherCannotLoad
  BY <1>8, LauncherCannotLoadKeeps
<1>9. CASE LauncherCannotStart
  BY <1>9 DEF IInv, TypeOK, LauncherCannotStart, LauncherFails, Starting, Mishap, Search,
       PassedFilesAreGood, ChosenIsComplete, LoadersNeedAChange, Searching, Launching,
       Looking, Complete, File, Version, Hook
<1>10. CASE Detach
  BY <1>10 DEF IInv, TypeOK, Detach, IsLoaded, results, bounds, Starting, Search,
       PassedFilesAreGood, ChosenIsComplete, LoadersNeedAChange, Searching, Launching,
       Looking, Complete, File, Version, Hook
<1>11. CASE CannotDetach
  BY <1>11 DEF IInv, TypeOK, CannotDetach, Mishap, IsLoaded, Starting, Search,
       PassedFilesAreGood, ChosenIsComplete, LoadersNeedAChange, Searching, Launching,
       Looking, Complete, File, Version, Hook
<1>12. CASE Notices
  BY <1>12 DEF IInv, TypeOK, Notices, Mishap, Search, PassedFilesAreGood, ChosenIsComplete,
       LoadersNeedAChange, Searching, Launching, Looking, Complete, File, Version, Hook
<1>13. CASE SupervisorReads
  BY <1>13 DEF IInv, TypeOK, SupervisorReads, ReadFile, hookVars, results, bounds, Search,
       PassedFilesAreGood, ChosenIsComplete, LoadersNeedAChange, Searching, Launching,
       Looking, Complete, File, Version, Hook
<1>14. CASE SupervisorCannotLoad
  BY <1>14 DEF IInv, TypeOK, SupervisorCannotLoad, CannotRead, BackSame, hookVars, results,
       Search, PassedFilesAreGood, ChosenIsComplete, LoadersNeedAChange, Searching,
       Launching, Looking, Complete, File, Version, Hook
<1>15. CASE SupervisorIsLoaded
  BY <1>15 DEF IInv, TypeOK, SupervisorIsLoaded, IsLoaded, Proceeds, BackSame, hookVars,
       Starting, Search, PassedFilesAreGood, ChosenIsComplete, LoadersNeedAChange,
       Searching, Launching, Looking, Complete, File, Version, Hook
<1>16. CASE Ensure
  BY <1>16 DEF IInv, TypeOK, Ensure, Proceeds, Fails, Mishap, BackSame, hookVars, Search,
       PassedFilesAreGood, ChosenIsComplete, LoadersNeedAChange, Searching, Launching,
       Looking, Complete, File, Version, Hook
<1>17. CASE ReadInput
  BY <1>17 DEF IInv, TypeOK, ReadInput, Proceeds, Fails, Mishap, BackSame, hookVars, Search,
       PassedFilesAreGood, ChosenIsComplete, LoadersNeedAChange, Searching, Launching,
       Looking, Complete, File, Version, Hook
<1>18. CASE Collect
  BY <1>18 DEF IInv, TypeOK, Collect, Proceeds, Fails, Mishap, BackSame, hookVars, Search,
       PassedFilesAreGood, ChosenIsComplete, LoadersNeedAChange, Searching, Launching,
       Looking, Complete, File, Version, Hook
<1>19. CASE CollectDesktop
  BY <1>19 DEF IInv, TypeOK, CollectDesktop, Proceeds, Fails, Mishap, BackSame, hookVars,
       Search, PassedFilesAreGood, ChosenIsComplete, LoadersNeedAChange, Searching,
       Launching, Looking, Complete, File, Version, Hook
<1>20. CASE CollectorReads
  BY <1>20 DEF IInv, TypeOK, CollectorReads, ReadFile, hookVars, results, bounds, Search,
       PassedFilesAreGood, ChosenIsComplete, LoadersNeedAChange, Searching, Launching,
       Looking, Complete, File, Version, Hook
<1>21. CASE CollectorCannotStart
  BY <1>21 DEF IInv, TypeOK, CollectorCannotStart, Fails, Mishap, BackSame, hookVars,
       Search, PassedFilesAreGood, ChosenIsComplete, LoadersNeedAChange, Searching,
       Launching, Looking, Complete, File, Version, Hook
<1>22. CASE CollectorCannotLoad
  BY <1>22 DEF IInv, TypeOK, CollectorCannotLoad, CannotRead, BackSame, hookVars, Search,
       PassedFilesAreGood, ChosenIsComplete, LoadersNeedAChange, Searching, Launching,
       Looking, Complete, File, Version, Hook
<1>23. CASE CollectorIsLoaded
  BY <1>23 DEF IInv, TypeOK, CollectorIsLoaded, IsLoaded, Proceeds, BackSame, hookVars,
       Search, PassedFilesAreGood, ChosenIsComplete, LoadersNeedAChange, Searching,
       Launching, Looking, Complete, File, Version, Hook
<1>24. CASE Gather
  BY <1>24 DEF IInv, TypeOK, Gather, Proceeds, Fails, Mishap, BackSame, hookVars, Search,
       PassedFilesAreGood, ChosenIsComplete, LoadersNeedAChange, Searching, Launching,
       Looking, Complete, File, Version, Hook
<1>25. CASE Change
  BY <1>25 DEF IInv, TypeOK, Change, hookVars, results, Search, PassedFilesAreGood,
       ChosenIsComplete, LoadersNeedAChange, Searching, Launching, Looking, Complete, File,
       Version, Hook
<1>26. CASE Kill
  BY <1>26 DEF IInv, TypeOK, Kill, results, bounds, Search, PassedFilesAreGood,
       ChosenIsComplete, LoadersNeedAChange, Searching, Launching, Looking, Complete, File,
       Version, Hook
<1> QED
  BY <1>1, <1>2, <1>3, <1>4, <1>5, <1>6, <1>7, <1>8, <1>9, <1>10, <1>11, <1>12, <1>13, <1>14,
       <1>15, <1>16, <1>17, <1>18, <1>19, <1>20, <1>21, <1>22, <1>23, <1>24, <1>25, <1>26 DEF
       Launch, Work

(* What it says, and which version it comes to. *)
LEMMA ActionKeepsTalk ==
  ASSUME IInv, TypeOK', Launch \/ Work \/ Change \/ Kill
  PROVE  OwnCameFirst' /\ Talk'
<1>1. CASE FindRoot
  BY <1>1 DEF IInv, TypeOK, FindRoot, Finish, Starting, LookAt, bounds, OwnCameFirst, Talk,
       Complete, Search, Launching, Searching, LoadersNeedAChange, ChosenIsComplete,
       Looking, File, Version, Hook
<1>2. CASE NextFile
  BY <1>2 DEF IInv, TypeOK, NextFile, Looking, LastFile, results, bounds, OwnCameFirst,
       Talk, Complete, Search, Launching, Searching, LoadersNeedAChange, ChosenIsComplete,
       Starting, File, Version, Hook
<1>3. CASE OwnIsChecked
  BY <1>3, OwnIsCheckedKeeps
<1>4. CASE ListSiblings
  BY <1>4 DEF IInv, TypeOK, ListSiblings, GoOn, Finish, Starting, LookAt, bounds, Listed,
       OwnCameFirst, Talk, Complete, Search, Launching, Searching, LoadersNeedAChange,
       ChosenIsComplete, Looking, File, Version, Hook
<1>5. CASE SiblingIsChecked
  BY <1>5 DEF IInv, TypeOK, SiblingIsChecked, LastFile, GoOn, Finish, Starting, LookAt,
       bounds, OwnCameFirst, Talk, Complete, Search, Launching, Searching,
       LoadersNeedAChange, ChosenIsComplete, Looking, File, Version, Hook
<1>6. CASE Probe
  BY <1>6 DEF IInv, TypeOK, Probe, Finish, Starting, bounds, OwnCameFirst, Talk, Complete,
       Search, Launching, Searching, LoadersNeedAChange, ChosenIsComplete, Looking, File,
       Version, Hook
<1>7. CASE LauncherReads
  BY <1>7 DEF IInv, TypeOK, LauncherReads, ReadFile, hookVars, results, bounds,
       OwnCameFirst, Talk, Complete, Search, Launching, Searching, LoadersNeedAChange,
       ChosenIsComplete, Looking, Starting, File, Version, Hook
<1>8. CASE LauncherCannotLoad
  BY <1>8, LauncherCannotLoadKeeps
<1>9. CASE LauncherCannotStart
  BY <1>9, LauncherCannotStartTalk
<1>10. CASE Detach
  BY <1>10 DEF IInv, TypeOK, Detach, IsLoaded, results, bounds, Starting, OwnCameFirst,
       Talk, Complete, Search, Launching, Searching, LoadersNeedAChange, ChosenIsComplete,
       Looking, File, Version, Hook
<1>11. CASE CannotDetach
  BY <1>11 DEF IInv, TypeOK, CannotDetach, Mishap, IsLoaded, Starting, OwnCameFirst, Talk,
       Complete, Search, Launching, Searching, LoadersNeedAChange, ChosenIsComplete,
       Looking, File, Version, Hook
<1>12. CASE Notices
  BY <1>12 DEF IInv, TypeOK, Notices, Mishap, OwnCameFirst, Talk, Complete, Search,
       Launching, Searching, LoadersNeedAChange, ChosenIsComplete, Looking, Starting, File,
       Version, Hook
<1>13. CASE SupervisorReads
  BY <1>13 DEF IInv, TypeOK, SupervisorReads, ReadFile, hookVars, results, bounds,
       OwnCameFirst, Talk, Complete, Search, Launching, Searching, LoadersNeedAChange,
       ChosenIsComplete, Looking, Starting, File, Version, Hook
<1>14. CASE SupervisorCannotLoad
  BY <1>14 DEF IInv, TypeOK, SupervisorCannotLoad, CannotRead, BackSame, hookVars, results,
       OwnCameFirst, Talk, Complete, Search, Launching, Searching, LoadersNeedAChange,
       ChosenIsComplete, Looking, Starting, File, Version, Hook
<1>15. CASE SupervisorIsLoaded
  BY <1>15 DEF IInv, TypeOK, SupervisorIsLoaded, IsLoaded, Proceeds, BackSame, hookVars,
       Starting, OwnCameFirst, Talk, Complete, Search, Launching, Searching,
       LoadersNeedAChange, ChosenIsComplete, Looking, File, Version, Hook
<1>16. CASE Ensure
  BY <1>16 DEF IInv, TypeOK, Ensure, Proceeds, Fails, Mishap, BackSame, hookVars,
       OwnCameFirst, Talk, Complete, Search, Launching, Searching, LoadersNeedAChange,
       ChosenIsComplete, Looking, Starting, File, Version, Hook
<1>17. CASE ReadInput
  BY <1>17 DEF IInv, TypeOK, ReadInput, Proceeds, Fails, Mishap, BackSame, hookVars,
       OwnCameFirst, Talk, Complete, Search, Launching, Searching, LoadersNeedAChange,
       ChosenIsComplete, Looking, Starting, File, Version, Hook
<1>18. CASE Collect
  BY <1>18 DEF IInv, TypeOK, Collect, Proceeds, Fails, Mishap, BackSame, hookVars,
       OwnCameFirst, Talk, Complete, Search, Launching, Searching, LoadersNeedAChange,
       ChosenIsComplete, Looking, Starting, File, Version, Hook
<1>19. CASE CollectDesktop
  BY <1>19 DEF IInv, TypeOK, CollectDesktop, Proceeds, Fails, Mishap, BackSame, hookVars,
       OwnCameFirst, Talk, Complete, Search, Launching, Searching, LoadersNeedAChange,
       ChosenIsComplete, Looking, Starting, File, Version, Hook
<1>20. CASE CollectorReads
  BY <1>20 DEF IInv, TypeOK, CollectorReads, ReadFile, hookVars, results, bounds,
       OwnCameFirst, Talk, Complete, Search, Launching, Searching, LoadersNeedAChange,
       ChosenIsComplete, Looking, Starting, File, Version, Hook
<1>21. CASE CollectorCannotStart
  BY <1>21 DEF IInv, TypeOK, CollectorCannotStart, Fails, Mishap, BackSame, hookVars,
       OwnCameFirst, Talk, Complete, Search, Launching, Searching, LoadersNeedAChange,
       ChosenIsComplete, Looking, Starting, File, Version, Hook
<1>22. CASE CollectorCannotLoad
  BY <1>22 DEF IInv, TypeOK, CollectorCannotLoad, CannotRead, BackSame, hookVars,
       OwnCameFirst, Talk, Complete, Search, Launching, Searching, LoadersNeedAChange,
       ChosenIsComplete, Looking, Starting, File, Version, Hook
<1>23. CASE CollectorIsLoaded
  BY <1>23 DEF IInv, TypeOK, CollectorIsLoaded, IsLoaded, Proceeds, BackSame, hookVars,
       OwnCameFirst, Talk, Complete, Search, Launching, Searching, LoadersNeedAChange,
       ChosenIsComplete, Looking, Starting, File, Version, Hook
<1>24. CASE Gather
  BY <1>24 DEF IInv, TypeOK, Gather, Proceeds, Fails, Mishap, BackSame, hookVars,
       OwnCameFirst, Talk, Complete, Search, Launching, Searching, LoadersNeedAChange,
       ChosenIsComplete, Looking, Starting, File, Version, Hook
<1>25. CASE Change
  BY <1>25 DEF IInv, TypeOK, Change, hookVars, results, OwnCameFirst, Talk, Complete,
       Search, Launching, Searching, LoadersNeedAChange, ChosenIsComplete, Looking,
       Starting, File, Version, Hook
<1>26. CASE Kill
  BY <1>26 DEF IInv, TypeOK, Kill, results, bounds, OwnCameFirst, Talk, Complete, Search,
       Launching, Searching, LoadersNeedAChange, ChosenIsComplete, Looking, Starting, File,
       Version, Hook
<1> QED
  BY <1>1, <1>2, <1>3, <1>4, <1>5, <1>6, <1>7, <1>8, <1>9, <1>10, <1>11, <1>12, <1>13, <1>14,
       <1>15, <1>16, <1>17, <1>18, <1>19, <1>20, <1>21, <1>22, <1>23, <1>24, <1>25, <1>26 DEF
       Launch, Work

(* What the detached process leaves. *)
LEMMA ActionKeepsWork ==
  ASSUME IInv, TypeOK', Launch \/ Work \/ Change \/ Kill
  PROVE  WorkIsTraced'
<1>1. CASE FindRoot
  BY <1>1 DEF IInv, TypeOK, FindRoot, Finish, Starting, LookAt, bounds, WorkIsTraced, Talk,
       Search, Launching, Searching, File, Version, Hook
<1>2. CASE NextFile
  BY <1>2 DEF IInv, TypeOK, NextFile, Looking, LastFile, results, bounds, WorkIsTraced,
       Talk, Search, Launching, Searching, Starting, File, Version, Hook
<1>3. CASE OwnIsChecked
  BY <1>3 DEF IInv, TypeOK, OwnIsChecked, Finish, Starting, LastFile, bounds, WorkIsTraced,
       Talk, Search, Launching, Searching, File, Version, Hook
<1>4. CASE ListSiblings
  BY <1>4 DEF IInv, TypeOK, ListSiblings, GoOn, Finish, Starting, LookAt, bounds, Listed,
       WorkIsTraced, Talk, Search, Launching, Searching, File, Version, Hook
<1>5. CASE SiblingIsChecked
  BY <1>5 DEF IInv, TypeOK, SiblingIsChecked, LastFile, GoOn, Finish, Starting, LookAt,
       bounds, WorkIsTraced, Talk, Search, Launching, Searching, File, Version, Hook
<1>6. CASE Probe
  BY <1>6 DEF IInv, TypeOK, Probe, Finish, Starting, bounds, WorkIsTraced, Talk, Search,
       Launching, Searching, File, Version, Hook
<1>7. CASE LauncherReads
  BY <1>7 DEF IInv, TypeOK, LauncherReads, ReadFile, hookVars, results, bounds,
       WorkIsTraced, Talk, Search, Launching, Searching, Starting, File, Version, Hook
<1>8. CASE LauncherCannotLoad
  BY <1>8 DEF IInv, TypeOK, LauncherCannotLoad, LauncherFails, Starting, CannotRead, bounds,
       WorkIsTraced, Talk, Search, Launching, Searching, File, Version, Hook
<1>9. CASE LauncherCannotStart
  BY <1>9 DEF IInv, TypeOK, LauncherCannotStart, LauncherFails, Starting, Mishap,
       WorkIsTraced, Talk, Search, Launching, Searching, File, Version, Hook
<1>10. CASE Detach
  BY <1>10 DEF IInv, TypeOK, Detach, IsLoaded, results, bounds, Starting, WorkIsTraced,
       Talk, Search, Launching, Searching, File, Version, Hook
<1>11. CASE CannotDetach
  BY <1>11 DEF IInv, TypeOK, CannotDetach, Mishap, IsLoaded, Starting, WorkIsTraced, Talk,
       Search, Launching, Searching, File, Version, Hook
<1>12. CASE Notices
  BY <1>12 DEF IInv, TypeOK, Notices, Mishap, WorkIsTraced, Talk, Search, Launching,
       Searching, Starting, File, Version, Hook
<1>13. CASE SupervisorReads
  BY <1>13 DEF IInv, TypeOK, SupervisorReads, ReadFile, hookVars, results, bounds,
       WorkIsTraced, Talk, Search, Launching, Searching, Starting, File, Version, Hook
<1>14. CASE SupervisorCannotLoad
  BY <1>14 DEF IInv, TypeOK, SupervisorCannotLoad, CannotRead, BackSame, hookVars, results,
       WorkIsTraced, Talk, Search, Launching, Searching, Starting, File, Version, Hook
<1>15. CASE SupervisorIsLoaded
  BY <1>15 DEF IInv, TypeOK, SupervisorIsLoaded, IsLoaded, Proceeds, BackSame, hookVars,
       Starting, WorkIsTraced, Talk, Search, Launching, Searching, File, Version, Hook
<1>16. CASE Ensure
  BY <1>16 DEF IInv, TypeOK, Ensure, Proceeds, Fails, Mishap, BackSame, hookVars,
       WorkIsTraced, Talk, Search, Launching, Searching, Starting, File, Version, Hook
<1>17. CASE ReadInput
  BY <1>17 DEF IInv, TypeOK, ReadInput, Proceeds, Fails, Mishap, BackSame, hookVars,
       WorkIsTraced, Talk, Search, Launching, Searching, Starting, File, Version, Hook
<1>18. CASE Collect
  BY <1>18 DEF IInv, TypeOK, Collect, Proceeds, Fails, Mishap, BackSame, hookVars,
       WorkIsTraced, Talk, Search, Launching, Searching, Starting, File, Version, Hook
<1>19. CASE CollectDesktop
  BY <1>19 DEF IInv, TypeOK, CollectDesktop, Proceeds, Fails, Mishap, BackSame, hookVars,
       WorkIsTraced, Talk, Search, Launching, Searching, Starting, File, Version, Hook
<1>20. CASE CollectorReads
  BY <1>20 DEF IInv, TypeOK, CollectorReads, ReadFile, hookVars, results, bounds,
       WorkIsTraced, Talk, Search, Launching, Searching, Starting, File, Version, Hook
<1>21. CASE CollectorCannotStart
  BY <1>21 DEF IInv, TypeOK, CollectorCannotStart, Fails, Mishap, BackSame, hookVars,
       WorkIsTraced, Talk, Search, Launching, Searching, Starting, File, Version, Hook
<1>22. CASE CollectorCannotLoad
  BY <1>22 DEF IInv, TypeOK, CollectorCannotLoad, CannotRead, BackSame, hookVars,
       WorkIsTraced, Talk, Search, Launching, Searching, Starting, File, Version, Hook
<1>23. CASE CollectorIsLoaded
  BY <1>23 DEF IInv, TypeOK, CollectorIsLoaded, IsLoaded, Proceeds, BackSame, hookVars,
       WorkIsTraced, Talk, Search, Launching, Searching, Starting, File, Version, Hook
<1>24. CASE Gather
  BY <1>24 DEF IInv, TypeOK, Gather, Proceeds, Fails, Mishap, BackSame, hookVars,
       WorkIsTraced, Talk, Search, Launching, Searching, Starting, File, Version, Hook
<1>25. CASE Change
  BY <1>25 DEF IInv, TypeOK, Change, hookVars, results, WorkIsTraced, Talk, Search,
       Launching, Searching, Starting, File, Version, Hook
<1>26. CASE Kill
  BY <1>26 DEF IInv, TypeOK, Kill, results, bounds, WorkIsTraced, Talk, Search, Launching,
       Searching, Starting, File, Version, Hook
<1> QED
  BY <1>1, <1>2, <1>3, <1>4, <1>5, <1>6, <1>7, <1>8, <1>9, <1>10, <1>11, <1>12, <1>13, <1>14,
       <1>15, <1>16, <1>17, <1>18, <1>19, <1>20, <1>21, <1>22, <1>23, <1>24, <1>25, <1>26 DEF
       Launch, Work

LEMMA StepInv == IInv /\ [Next]_vars => IInv'
<1> SUFFICES ASSUME IInv, [Next]_vars
             PROVE  IInv'
  OBVIOUS
<1>1. CASE Launch \/ Work \/ Change \/ Kill
  <2>1. TypeOK'
    BY <1>1, ActionKeepsTypes DEF IInv
  <2> QED
    BY <1>1, <2>1, ActionKeepsSearch, ActionKeepsTalk, ActionKeepsWork DEF IInv
<1>2. CASE UNCHANGED vars
  <2>1. TypeOK'
    BY <1>2 DEF IInv, TypeOK, vars, hookVars, results, bounds
  <2>2. Search' /\ PassedFilesAreGood' /\ ChosenIsComplete' /\ LoadersNeedAChange'
    BY <1>2 DEF IInv, vars, hookVars, Search, PassedFilesAreGood, ChosenIsComplete,
                LoadersNeedAChange, Searching, Launching, Looking, Complete
  <2>3. OwnCameFirst' /\ Talk' /\ WorkIsTraced'
    BY <1>2 DEF IInv, vars, hookVars, results, bounds, OwnCameFirst, Talk, WorkIsTraced,
                Complete, Starting
  <2> QED
    BY <2>1, <2>2, <2>3 DEF IInv
<1> QED
  BY <1>1, <1>2 DEF Next, Ended

(* What the invariant says of the properties. *)
LEMMA InvImplies ==
  IInv => TypeOK /\ CheckedBundleLoads /\ StartFailureIsKnown /\ TerminalIsQuiet /\ OwnBundleFirst
<1> SUFFICES ASSUME IInv
             PROVE  /\ TypeOK /\ CheckedBundleLoads /\ StartFailureIsKnown
                    /\ TerminalIsQuiet /\ OwnBundleFirst
  OBVIOUS
<1>1. TypeOK /\ CheckedBundleLoads
  BY DEF IInv, LoadersNeedAChange, CheckedBundleLoads
<1>2. StartFailureIsKnown
  BY DEF IInv, StartFailureIsKnown, WorkIsTraced, Talk, LoadersNeedAChange, Done
<1>3. TerminalIsQuiet /\ OwnBundleFirst
  BY DEF IInv, TerminalIsQuiet, Talk, OwnBundleFirst, OwnCameFirst
<1> QED
  BY <1>1, <1>2, <1>3

LEMMA Invariant == Spec => []IInv
BY InitInv, StepInv, PTL DEF Spec
-----------------------------------------------------------------------------
(* Every variable keeps its type. *)
THEOREM TypeCorrect == Spec => []TypeOK
BY Invariant, InvImplies, PTL

(* Whoever loads the bundle the script accepted can load it, unless the installer
   came to that version after the script had.                                     *)
THEOREM AcceptedBundleLoads == Spec => []CheckedBundleLoads
BY Invariant, InvImplies, PTL

(* A start hook's failure is said, recorded, or the host's or installer's doing. *)
THEOREM NoSilentStart == Spec => []StartFailureIsKnown
BY Invariant, InvImplies, PTL

(* A terminal hook prints nothing but Claude's own launch failures. *)
THEOREM QuietTerminal == Spec => []TerminalIsQuiet
BY Invariant, InvImplies, PTL

(* Another version is run only for want of the plugin's own. *)
THEOREM OwnVersionFirst == Spec => []OwnBundleFirst
BY Invariant, InvImplies, PTL
=============================================================================
