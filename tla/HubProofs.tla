------------------------------ MODULE HubProofs ------------------------------
(***************************************************************************)
(* What a hub has after a scan, and where its assets are written, for any  *)
(* directories, ids, servers, targets, edits and deaths.                   *)
(*                                                                         *)
(* The argument for the skills: while a scan goes through the directories  *)
(* the ones it has gone by are in the hub as they are in the repository    *)
(* (SoFar), because a second directory of the same id ends the scan before *)
(* it touches the first one's copy, and the one it copies has the files it *)
(* has gone by and no others (CopySoFar).  For Cursor's servers: nothing   *)
(* refers to them before the sidecar is there (SidecarFirst), so a death   *)
(* or an error can leave them to the other targets only in the writing of  *)
(* the sidecar itself.                                                     *)
(*                                                                         *)
(* For what is delivered: nothing a command writes is taken away           *)
(* (RefsHaveAssets), and of a repository that nobody has changed a hub     *)
(* only ever has what that repository has, or a file emptied to take it    *)
(* (Unedited), so whatever half of it an earlier command left, a scan that *)
(* ends well makes it whole, the plugin included (PluginWhole).  For       *)
(* what is committed: the paths a build has gone by are what it compiled,  *)
(* and the hub it compiled is the hub there is (BuiltInv).                 *)
(***************************************************************************)
EXTENDS HubBuild, TLAPS

Scanning == pc \in ScanPc \ {"idle"}
Index == 1 .. Len(SkillDirs)
HasSkill(d) == source.skills[d] # {}
Mirrored(d) == skills[Slug[d]] = {Here} \cup source.skills[d]

SkillTypes ==
  /\ source.skills \in [Dir -> SUBSET File]
  /\ source \in [skills : [Dir -> SUBSET File],
                 root : [Suffix -> Config \cup {Absent, Unreadable}],
                 cursor : Config \cup {Absent, Unreadable}]
  /\ skills \in [SkillId -> SUBSET (File \cup {Here})]
  /\ dir \in 1 .. Len(SkillDirs) + 1 /\ copied \in 0 .. 4

(* What holds of a scan at each of its steps. *)
AtRest == ~Scanning => dir = 1 /\ copied = 0
SoFar ==
  scanned /\ Scanning =>
    \A i \in Index : i < dir /\ HasSkill(SkillDirs[i]) =>
      Mirrored(SkillDirs[i]) /\ Slug[SkillDirs[i]] \in found
CopySoFar ==
  /\ pc = "copy" => dir \in Index
  /\ pc = "skill" => copied = 0
  /\ scanned /\ pc = "copy" =>
       /\ ThisSkill \notin found
       /\ skills[ThisSkill] =
            {Here} \cup {f \in source.skills[ThisDir] : \E k \in 1 .. copied : Files[k] = f}
McpPc == {"root", "root copy", "cursor", "cursor copy", "cursor only", "sidecar"}
AllDirs == pc \in McpPc \cup {"plugin", "plugin write"} => dir = Len(SkillDirs) + 1

SkillInv == SkillTypes /\ AtRest /\ SoFar /\ CopySoFar /\ AllDirs /\ ImportedSkillsMirror

(* A reference to Cursor's servers comes after the sidecar. *)
SidecarFirst ==
  sidecar \in Sidecar /\ ("cursor-mcp" \in includes \cup found => sidecar # "absent")

(* The plugin has no contents only while a scan writes it, and when it died in that. *)
PluginWhole == pluginEmpty => pc = "plugin write" \/ ~scanned

Commanding == pc \in {"build", "replace"}
CursorFile == mcps["cursor-mcp.json"]
Refs == includes \cup found

(* The types, and where in its paths a build is. *)
BuildTypes ==
  /\ out = [p \in Path |-> out[p]]
  /\ pc = "replace" => path < Len(Paths)
  /\ ~Commanding => path = 0

(* Only a file that could be read is copied. *)
Opened ==
  /\ pc = "root copy" => RootFile \in Config
  /\ pc = "cursor copy" => source.cursor \in Config

HubTypes == TypeOK /\ BuildTypes /\ Opened

(* What is referred to is there: nothing a command writes is ever taken away. *)
RefsHaveAssets ==
  /\ \A s \in Refs \cap SkillId : skills[s] # {}
  /\ pc = "copy" => skills[ThisSkill] # {}
  /\ "repo-mcp" \in Refs => RepoConfig # Absent
  /\ "cursor-mcp" \in Refs \/ sidecar # "absent" \/ pc \in {"cursor only", "sidecar"} =>
       CursorFile # Absent

(* Cursor's own file declares nothing that the root's does not. *)
CursorCovered ==
  source.cursor = Absent \/ (source.cursor # Unreadable /\ Covers(RootFile, source.cursor))

(* What a hub has of a repository that did not change since the hub was made. *)
SkillsFromSource ==
  /\ \A s \in SkillId : skills[s] # {} => \E d \in Dir : Slug[d] = s /\ HasSkill(d)
  /\ scanned /\ Scanning => \A i \in Index :
       i < dir /\ HasSkill(SkillDirs[i]) => "SKILL.md" \in source.skills[SkillDirs[i]]
  /\ pc = "copy" => HasSkill(ThisDir) /\ "SKILL.md" \in source.skills[ThisDir]
  /\ Scanned => \A d \in Dir : HasSkill(d) => "SKILL.md" \in source.skills[d]
McpsFromSource ==
  /\ \A f \in Suffix : mcps[Imported[f]] # Absent =>
       /\ f = RootSuffix /\ RootFile \in Config
       /\ mcps[Imported[f]] \in {RootFile, Emptied[f]}
  /\ CursorFile # Absent =>
       /\ CursorFile \in {source.cursor, Unreadable}
       /\ source.cursor \in Config /\ ~CursorCovered
  /\ "repo-mcp" \in Refs => RootFile # Absent

(* How far a scan, or the last one, has come with them. *)
RootIsIn(refs) ==
  RootFile # Absent => "repo-mcp" \in refs /\ mcps[Imported[RootSuffix]] = RootFile
CursorIsIn(refs) ==
  ~CursorCovered => /\ "cursor-mcp" \in refs /\ CursorFile = source.cursor
                    /\ sidecar = "cursor only"
AfterRoot == {"cursor", "cursor copy", "cursor only", "sidecar", "plugin", "plugin write"}
McpsSoFar ==
  /\ pc \in AfterRoot \cup {"root copy"} => rootServers = RootFile
  /\ pc \in AfterRoot => RootIsIn(Refs)
  /\ pc = "cursor copy" => ~CursorCovered
  /\ pc \in {"cursor only", "sidecar"} => ~CursorCovered /\ CursorFile = source.cursor
  /\ pc \in {"plugin", "plugin write"} => CursorIsIn(Refs)
  /\ pc = "plugin write" => includes = {}
  /\ Scanned => RootIsIn(includes) /\ CursorIsIn(includes)
Unedited == edits = 0 => SkillsFromSource /\ McpsFromSource /\ McpsSoFar

(* What is in the worktree while a build runs, and after one that ended well. *)
Replacing ==
  Commanding =>
    /\ compiled = Payload /\ Compiles(Targets)
    /\ \A i \in 1 .. path : out[Paths[i]] = Piece(Paths[i], compiled)
WellBuilt ==
  built =>
    /\ pc = "idle" /\ Compiles(Targets)
    /\ \A p \in Path : out[p] = Piece(p, Payload)
BuiltInv == Replacing /\ WellBuilt

(* The inductive invariant of the hub. *)
HubInv ==
  SkillInv /\ SidecarFirst /\ PluginWhole /\ HubTypes /\ RefsHaveAssets /\ BuiltInv /\ Unedited
-----------------------------------------------------------------------------
(* Rendering. *)

(* What is written among the skills or commands is where validation compares. *)
LEMMA WrittenIsClaimed ==
  ASSUME NEW t \in Target, NEW a \in Assets(t), NEW place \in Written(a, t), place[1] \in Invoked
  PROVE  Claims(a, t) /\ place = Destination(a, t)
<1>1. PICK rendered \in Rendered(a, t) : place = <<rendered[1], Fold[rendered[2]]>>
  BY DEF Written
<1>2. /\ a.type \in {"skill", "rule", "agent", "command"} /\ a.mode \in Modes(a.type, t)
      /\ rendered[1] \in {"skills", "commands"}
  BY <1>1 DEF Assets, Invoked
<1>3. CASE a.type = "command"
  BY <1>1, <1>2, <1>3
     DEF Rendered, CommandPlace, DirectoryFor, Modes, Claims, Destination, ClaimedDirectory,
         ClaimedName
<1>4. CASE a.type = "skill"
  BY <1>1, <1>2, <1>4
     DEF Rendered, CommandPlace, DirectoryFor, Modes, Claims, Destination, ClaimedDirectory,
         ClaimedName
<1>5. CASE a.type \in {"rule", "agent"}
  BY <1>1, <1>2, <1>5
     DEF Rendered, CommandPlace, DirectoryFor, Modes, Claims, Destination, ClaimedDirectory,
         ClaimedName
<1> QED
  BY <1>2, <1>3, <1>4, <1>5

(* Of a plugin of any size that validation accepts no asset replaces another among
   the skills and commands, nor the compiler's update skill.                        *)
THEOREM RenderedApart ==
  ASSUME NEW t \in Target, NEW plugin \in SUBSET Assets(t), NEW pig \in BOOLEAN
  PROVE  AcceptedIsApart(plugin, pig, t)
<1> SUFFICES ASSUME Accepted(plugin, pig, t)
             PROVE  /\ \A a, b \in plugin : a # b =>
                         \A place \in Written(a, t) \cap Written(b, t) : place[1] \notin Invoked
                    /\ pig => \A a \in plugin : <<"skills", Fold[Managed]>> \notin Written(a, t)
  BY DEF AcceptedIsApart
<1>1. ASSUME NEW a \in plugin, NEW b \in plugin, a # b,
             NEW place \in Written(a, t) \cap Written(b, t), place[1] \in Invoked
      PROVE  FALSE
  <2>1. Claims(a, t) /\ Claims(b, t) /\ Destination(a, t) = Destination(b, t)
    BY <1>1, WrittenIsClaimed
  <2> QED
    BY <1>1, <2>1 DEF Accepted, Compatible
<1>2. ASSUME pig, NEW a \in plugin, <<"skills", Fold[Managed]>> \in Written(a, t)
      PROVE  FALSE
  <2>1. <<"skills", Fold[Managed]>>[1] \in Invoked
    BY DEF Invoked
  <2>2. Claims(a, t) /\ Destination(a, t) = <<"skills", Fold[Managed]>>
    BY <1>2, <2>1, WrittenIsClaimed
  <2> QED
    BY <1>2, <2>2 DEF Accepted, LeavesUpdateSkill
<1> QED
  BY <1>1, <1>2
-----------------------------------------------------------------------------
(* The skills. *)

(* The skill a scan is at is one of the hub. *)
LEMMA ThisSkillIsOne ==
  ASSUME dir \in Index
  PROVE  ThisDir \in Dir /\ ThisSkill \in SkillId
BY DEF Index, ThisDir, ThisSkill, Dir, SkillId

(* A new hub has no skills. *)
LEMMA SkillInit == Init => SkillInv
<1> SUFFICES ASSUME Init
             PROVE  SkillInv
  OBVIOUS
<1>1. source \in Source /\ pc = "idle" /\ dir = 1 /\ copied = 0 /\ scanned = FALSE
      /\ skills = [s \in SkillId |-> {}]
  BY SourcesAreSources DEF Init, ScanInit
<1>2. SkillTypes
  BY <1>1, DirsAreInOrder DEF SkillTypes, Source
<1> QED
  BY <1>1, <1>2 DEF SkillInv, AtRest, SoFar, CopySoFar, AllDirs, McpPc, ImportedSkillsMirror, Scanned,
                    Scanning, ScanPc

(* A command that is over, or that is not a scan, leaves nothing to keep but the
   types and what the last scan did.                                            *)
LEMMA OverKeeps ==
  ASSUME SkillInv, ScanFails, UNCHANGED <<source, skills>>
  PROVE  SkillInv'
<1>1. pc' = "idle" /\ dir' = 1 /\ copied' = 0 /\ scanned' = FALSE
  BY DEF ScanFails, Over
<1>2. SkillTypes'
  BY <1>1, DirsAreInOrder DEF SkillInv, SkillTypes
<1> QED
  BY <1>1, <1>2 DEF SkillInv, AtRest, SoFar, CopySoFar, AllDirs, McpPc, ImportedSkillsMirror, Scanned,
                    Scanning, ScanPc

(* Nor does a command that is no scan touch the skills. *)
LEMMA RestKeeps ==
  ASSUME SkillInv, ~Scanning, ~Scanning',
         UNCHANGED <<source, skills, includes, dir, copied, scanned>>
  PROVE  SkillInv'
BY DEF SkillInv, SkillTypes, AtRest, SoFar, CopySoFar, AllDirs, McpPc, ImportedSkillsMirror, Scanned,
       Scanning, ScanPc, ThisSkill, ThisDir

(* The steps after the skills: imports add to what was found. *)
LEMMA LaterKeeps ==
  ASSUME SkillInv, pc \in McpPc \cup {"plugin"},
         pc' \in McpPc \cup {"plugin", "plugin write"}, found \subseteq found',
         UNCHANGED <<source, skills, dir, copied, scanned>>
  PROVE  SkillInv'
<1>1. SkillTypes' /\ AtRest' /\ AllDirs' /\ CopySoFar'
  BY DEF SkillInv, SkillTypes, AtRest, AllDirs, McpPc, CopySoFar, Scanning, ScanPc
<1>2. SoFar'
  BY DEF SkillInv, SoFar, Scanning, ScanPc, McpPc, HasSkill, Mirrored
<1>3. ImportedSkillsMirror'
  BY DEF ImportedSkillsMirror, Scanned, ScanPc, McpPc
<1> QED
  BY <1>1, <1>2, <1>3 DEF SkillInv

(* A scan that begins has gone by nothing. *)
LEMMA BeginScanKeeps ==
  ASSUME SkillInv, BeginScan
  PROVE  SkillInv'
<1>1. /\ pc = "idle" /\ pc' = "skill" /\ dir = 1 /\ copied = 0
      /\ UNCHANGED <<source, skills, dir, copied>>
  BY DEF BeginScan, hubVars, SkillInv, AtRest, Scanning, ScanPc
<1>2. \A i \in Index : ~ (i < 1)
  BY DirsAreInOrder DEF Index
<1>3. SkillTypes' /\ AtRest' /\ AllDirs' /\ CopySoFar'
  BY <1>1 DEF SkillInv, SkillTypes, AtRest, AllDirs, McpPc, CopySoFar, Scanning, ScanPc
<1>4. SoFar' /\ ImportedSkillsMirror'
  BY <1>1, <1>2 DEF SoFar, ImportedSkillsMirror, Scanned, ScanPc
<1> QED
  BY <1>3, <1>4 DEF SkillInv

(* A directory without a skill is gone by. *)
LEMMA NextDirKeeps ==
  ASSUME SkillInv, NextDir
  PROVE  SkillInv'
<1>1. /\ pc = "skill" /\ copied = 0 /\ UNCHANGED <<source, skills, copied, found, scanned>>
      /\ dir \in 1 .. Len(SkillDirs) + 1 /\ Len(SkillDirs) \in Nat
  BY DirsAreInOrder DEF NextDir, hubVars, SkillInv, CopySoFar, SkillTypes
<1>2. ImportedSkillsMirror'
  BY <1>1 DEF NextDir, ImportedSkillsMirror, Scanned, ScanPc
<1>3. CASE dir > Len(SkillDirs) /\ pc' = "root" /\ UNCHANGED dir
  <2>1. dir = Len(SkillDirs) + 1
    BY <1>1, <1>3
  <2>2. SkillTypes' /\ AtRest' /\ AllDirs' /\ CopySoFar'
    BY <1>1, <1>3, <2>1 DEF SkillInv, SkillTypes, AtRest, AllDirs, McpPc, CopySoFar, Scanning, ScanPc
  <2>3. SoFar'
    BY <1>1, <1>3 DEF SkillInv, SoFar, Scanning, ScanPc, HasSkill, Mirrored
  <2> QED
    BY <1>2, <2>2, <2>3 DEF SkillInv
<1>4. CASE dir <= Len(SkillDirs) /\ ~HasSkill(ThisDir) /\ dir' = dir + 1 /\ UNCHANGED pc
  <2>1. dir' \in 1 .. Len(SkillDirs) + 1 /\ \A i \in Index : i < dir' => i < dir \/ i = dir
    BY <1>1, <1>4 DEF Index
  <2>2. SkillTypes' /\ AtRest' /\ AllDirs' /\ CopySoFar'
    BY <1>1, <1>4, <2>1 DEF SkillInv, SkillTypes, AtRest, AllDirs, McpPc, CopySoFar, Scanning, ScanPc
  <2>3. SoFar'
    BY <1>1, <1>4, <2>1 DEF SkillInv, SoFar, Scanning, ScanPc, HasSkill, Mirrored, ThisDir
  <2> QED
    BY <1>2, <2>2, <2>3 DEF SkillInv
<1> QED
  BY <1>3, <1>4 DEF NextDir, HasSkill

(* The first copy of an id begins empty. *)
LEMMA EmptyDestinationKeeps ==
  ASSUME SkillInv, EmptyDestination
  PROVE  SkillInv'
<1>1. /\ pc = "skill" /\ pc' = "copy" /\ copied = 0 /\ ThisSkill \notin found
      /\ UNCHANGED <<source, dir, copied, found, scanned>>
      /\ dir \in 1 .. Len(SkillDirs) + 1 /\ dir <= Len(SkillDirs)
      /\ skills' = [skills EXCEPT ![ThisSkill] = {Here}]
  BY DEF EmptyDestination, Refused, SkillInv, CopySoFar, SkillTypes
<1>2. dir \in Index
  BY <1>1, DirsAreInOrder DEF Index
<1>3. skills \in [SkillId -> SUBSET (File \cup {Here})] /\ ThisSkill \in SkillId
  BY <1>2, ThisSkillIsOne DEF SkillInv, SkillTypes
<1>4. skills'[ThisSkill] = {Here} /\ \A s \in SkillId : s # ThisSkill => skills'[s] = skills[s]
  BY <1>1, <1>3
<1>5. SkillTypes'
  BY <1>1, <1>3 DEF SkillInv, SkillTypes
<1>6. CopySoFar'
  <2>1. {f \in source.skills[ThisDir] : \E k \in 1 .. copied : Files[k] = f} = {}
    BY <1>1
  <2> QED
    BY <1>1, <1>2, <1>4, <2>1 DEF CopySoFar, ThisSkill, ThisDir
<1>7. SoFar'
  <2>1. \A i \in Index : Slug[SkillDirs[i]] \in SkillId
    BY DEF Index, SkillId, Dir
  <2> QED
    BY <1>1, <1>4, <2>1 DEF SkillInv, SoFar, Scanning, ScanPc, HasSkill, Mirrored
<1>8. AtRest' /\ AllDirs' /\ ImportedSkillsMirror'
  BY <1>1 DEF AtRest, AllDirs, McpPc, ImportedSkillsMirror, Scanned, Scanning, ScanPc
<1> QED
  BY <1>5, <1>6, <1>7, <1>8 DEF SkillInv

(* One more file of the skill is gone by. *)
LEMMA CopyFileKeeps ==
  ASSUME SkillInv, CopyFile
  PROVE  SkillInv'
<1> DEFINE Gone(n) == {f \in source.skills[ThisDir] : \E k \in 1 .. n : Files[k] = f}
<1>1. /\ pc = "copy" /\ pc' = "copy" /\ copied \in 0 .. 4 /\ copied < 4 /\ copied' = copied + 1
      /\ UNCHANGED <<source, dir, found, scanned>> /\ dir \in Index
      /\ skills' = [skills EXCEPT ![ThisSkill] = @ \cup ({NextCopied} \cap source.skills[ThisDir])]
  BY DEF CopyFile, Files, SkillInv, CopySoFar, SkillTypes
<1>2. /\ skills \in [SkillId -> SUBSET (File \cup {Here})] /\ ThisSkill \in SkillId
      /\ source.skills[ThisDir] \subseteq File
  BY <1>1, ThisSkillIsOne DEF SkillInv, SkillTypes
<1>3. /\ skills'[ThisSkill] = skills[ThisSkill] \cup ({NextCopied} \cap source.skills[ThisDir])
      /\ \A s \in SkillId : s # ThisSkill => skills'[s] = skills[s]
  BY <1>1, <1>2
<1>4. SkillTypes'
  <2>1. skills' \in [SkillId -> SUBSET (File \cup {Here})]
    BY <1>1, <1>2
  <2>2. copied' \in 0 .. 4
    BY <1>1
  <2> QED
    BY <1>1, <2>1, <2>2 DEF SkillInv, SkillTypes
<1>5. CopySoFar'
  <2>1. \A k : k \in 1 .. copied + 1 <=> k \in 1 .. copied \/ k = copied + 1
    BY <1>1
  <2>2. Gone(copied + 1) = Gone(copied) \cup ({NextCopied} \cap source.skills[ThisDir])
    BY <2>1 DEF NextCopied
  <2>3. scanned => ThisSkill \notin found /\ skills[ThisSkill] = {Here} \cup Gone(copied)
    BY <1>1 DEF SkillInv, CopySoFar
  <2>4. scanned => skills'[ThisSkill] = {Here} \cup Gone(copied + 1)
    BY <1>3, <2>2, <2>3
  <2> QED
    BY <1>1, <2>3, <2>4 DEF CopySoFar, ThisSkill, ThisDir
<1>6. SoFar'
  <2>1. \A i \in Index : Slug[SkillDirs[i]] \in SkillId
    BY DEF Index, SkillId, Dir
  <2>2. scanned => ThisSkill \notin found
    BY <1>1 DEF SkillInv, CopySoFar
  <2> QED
    BY <1>1, <1>3, <2>1, <2>2 DEF SkillInv, SoFar, Scanning, ScanPc, HasSkill, Mirrored
<1>7. AtRest' /\ AllDirs' /\ ImportedSkillsMirror'
  BY <1>1 DEF AtRest, AllDirs, McpPc, ImportedSkillsMirror, Scanned, Scanning, ScanPc
<1> QED
  BY <1>4, <1>5, <1>6, <1>7 DEF SkillInv

(* The whole skill is gone by. *)
LEMMA SkillImportedKeeps ==
  ASSUME SkillInv, SkillImported
  PROVE  SkillInv'
<1>1. /\ pc = "copy" /\ pc' = "skill" /\ copied = 4 /\ copied' = 0 /\ dir' = dir + 1
      /\ UNCHANGED <<source, skills, scanned>> /\ dir \in Index
      /\ found' = found \cup {ThisSkill}
  BY DEF SkillImported, Files, hubVars, SkillInv, CopySoFar
<1>2. dir' \in 1 .. Len(SkillDirs) + 1 /\ \A i \in Index : i < dir' => i < dir \/ i = dir
  BY <1>1, DirsAreInOrder DEF Index
<1>3. scanned => Mirrored(ThisDir)
  <2>1. \A f \in File : \E k \in 1 .. 4 : Files[k] = f
    BY DEF File, Files
  <2>2. source.skills[ThisDir] \subseteq File
    BY <1>1, ThisSkillIsOne DEF SkillInv, SkillTypes
  <2> QED
    BY <1>1, <2>1, <2>2 DEF SkillInv, CopySoFar, Mirrored, ThisSkill
<1>4. SkillTypes' /\ CopySoFar'
  BY <1>1, <1>2 DEF SkillInv, SkillTypes, CopySoFar
<1>5. SoFar'
  BY <1>1, <1>2, <1>3 DEF SkillInv, SoFar, Scanning, ScanPc, HasSkill, Mirrored, ThisSkill,
                         ThisDir
<1>6. AtRest' /\ AllDirs' /\ ImportedSkillsMirror'
  BY <1>1 DEF AtRest, AllDirs, McpPc, ImportedSkillsMirror, Scanned, Scanning, ScanPc
<1> QED
  BY <1>4, <1>5, <1>6 DEF SkillInv

(* What was found is what is included. *)
LEMMA WritePluginKeeps ==
  ASSUME SkillInv, WritePlugin
  PROVE  SkillInv'
<1>1. /\ pc = "plugin write" /\ pc' = "idle" /\ dir' = 1 /\ copied' = 0
      /\ UNCHANGED <<source, skills, scanned>> /\ includes' = found
      /\ dir = Len(SkillDirs) + 1
  BY DEF WritePlugin, Over, SkillInv, AllDirs
<1>2. \A i \in Index : i < dir
  <2>1. Len(SkillDirs) \in Nat
    BY DirsAreInOrder
  <2>2. dir = Len(SkillDirs) + 1
    BY <1>1
  <2> QED
    BY <2>1, <2>2 DEF Index
<1>3. scanned => \A i \in Index : HasSkill(SkillDirs[i]) =>
        Mirrored(SkillDirs[i]) /\ Slug[SkillDirs[i]] \in found
  BY <1>1, <1>2 DEF SkillInv, SoFar, Scanning, ScanPc
<1>4. ImportedSkillsMirror'
  <2>1. \A d \in Dir : \E i \in Index : d = SkillDirs[i]
    BY DEF Dir, Index
  <2> QED
    BY <1>1, <1>3, <2>1 DEF ImportedSkillsMirror, Scanned, HasSkill, Mirrored
<1>5. SkillTypes' /\ AtRest' /\ SoFar' /\ CopySoFar' /\ AllDirs'
  <2>1. 1 \in 1 .. Len(SkillDirs) + 1
    BY DirsAreInOrder
  <2>2. dir' \in 1 .. Len(SkillDirs) + 1 /\ copied' \in 0 .. 4
    <3>1. dir' = 1 /\ copied' = 0
      BY <1>1
    <3> QED
      BY <2>1, <3>1
  <2>3. SkillTypes'
    BY <1>1, <2>2 DEF SkillInv, SkillTypes
  <2>4. ~Scanning' /\ pc' \notin {"copy", "skill", "plugin", "plugin write"} \cup McpPc
    BY <1>1 DEF Scanning, McpPc
  <2> QED
    BY <1>1, <2>3, <2>4 DEF AtRest, SoFar, CopySoFar, AllDirs
<1> QED
  BY <1>4, <1>5 DEF SkillInv

(* After an edit the running scan, or the last one, is not held to anything. *)
LEMMA EditKeeps ==
  ASSUME SkillInv, Edit
  PROVE  SkillInv'
<1>1. UNCHANGED <<skills, pc, dir, copied, found>> /\ scanned' = FALSE
  BY DEF Edit, EditSource, hubVars
<1>2. SkillTypes'
  <2>1. source'.skills \in [Dir -> SUBSET File] /\ source' \in
          [skills : [Dir -> SUBSET File], root : [Suffix -> Config \cup {Absent, Unreadable}],
           cursor : Config \cup {Absent, Unreadable}]
    <3>1. source.skills \in [Dir -> SUBSET File] /\ source \in
            [skills : [Dir -> SUBSET File], root : [Suffix -> Config \cup {Absent, Unreadable}],
             cursor : Config \cup {Absent, Unreadable}]
      BY DEF SkillInv, SkillTypes
    <3>2. CASE \E d \in Dir : \E c \in Contents[d] : source' = [source EXCEPT !.skills[d] = c]
      <4>1. PICK d \in Dir : \E c \in Contents[d] : source' = [source EXCEPT !.skills[d] = c]
        BY <3>2
      <4>2. PICK c \in Contents[d] : source' = [source EXCEPT !.skills[d] = c]
        BY <4>1
      <4>3. c \in SUBSET File
        BY <4>2, SourcesAreSources
      <4> QED
        BY <3>1, <4>2, <4>3
    <3>3. CASE \E f \in Suffix, c \in McpContents : source' = [source EXCEPT !.root[f] = c]
      BY <3>1, <3>3, SourcesAreSources
    <3>4. CASE \E c \in McpContents : source' = [source EXCEPT !.cursor = c]
      BY <3>1, <3>4, SourcesAreSources
    <3> QED
      BY <3>2, <3>3, <3>4 DEF Edit, EditSource
  <2> QED
    BY <1>1, <2>1 DEF SkillInv, SkillTypes
<1> QED
  BY <1>1, <1>2 DEF SkillInv, AtRest, SoFar, CopySoFar, AllDirs, McpPc, ImportedSkillsMirror, Scanned,
                    Scanning

(* No step breaks what holds of the skills. *)
LEMMA SkillStep == SkillInv /\ [Next]_vars => SkillInv'
<1> SUFFICES ASSUME SkillInv, [Next]_vars
             PROVE  SkillInv'
  OBVIOUS
<1>1. CASE RefuseSkill \/ MeetLink \/ RefuseMcp \/ ScanDies
  BY <1>1, OverKeeps DEF RefuseSkill, MeetLink, RefuseMcp, ScanDies, hubVars
<1>2. CASE ReadRoot \/ CopyRoot \/ ReadCursor \/ CopyCursor \/ OpenSidecar \/ WriteSidecar
           \/ OpenPlugin
  <2>1. /\ pc \in McpPc \cup {"plugin"}
        /\ pc' \in McpPc \cup {"plugin", "plugin write"} /\ found \subseteq found'
        /\ UNCHANGED <<source, skills, dir, copied, scanned>>
    BY <1>2 DEF ReadRoot, CopyRoot, ReadCursor, CopyCursor, OpenSidecar, WriteSidecar, OpenPlugin,
                McpPc
  <2> QED
    BY <2>1, LaterKeeps
<1>3. CASE RestorePlugin \/ BeginBuild \/ RemovePath \/ CopyPath \/ EndBuild \/ BuildDies
  <2>1. /\ ~Scanning /\ ~Scanning'
        /\ UNCHANGED <<source, skills, includes, dir, copied, scanned>>
    BY <1>3 DEF RestorePlugin, BeginBuild, RemovePath, CopyPath, EndBuild, BuildDies, hubVars,
                scanVars, Scanning, ScanPc, McpPc
  <2> QED
    BY <2>1, RestKeeps
<1>4. CASE UNCHANGED vars
  BY <1>4 DEF vars, hubVars, scanVars, SkillInv, SkillTypes, AtRest, SoFar, CopySoFar, AllDirs,
              ImportedSkillsMirror, Scanned, Scanning, HasSkill, Mirrored, ThisSkill, ThisDir
<1> QED
  BY <1>1, <1>2, <1>3, <1>4, BeginScanKeeps, NextDirKeeps, EmptyDestinationKeeps, CopyFileKeeps,
     SkillImportedKeeps, WritePluginKeeps, EditKeeps DEF Next, Scan, ScanStep

(* It holds always. *)
LEMMA SkillInvariant == Spec => []SkillInv
BY SkillInit, SkillStep, PTL DEF Spec

(* After a scan the hub has exactly the repository's skills' files, and lists them. *)
THEOREM SkillsMirror == Spec => []ImportedSkillsMirror
<1>1. SkillInv => ImportedSkillsMirror
  BY DEF SkillInv
<1> QED
  BY <1>1, SkillInvariant, PTL
-----------------------------------------------------------------------------
(* Cursor's servers. *)

(* No step refers to Cursor's servers before the sidecar. *)
LEMMA SidecarStep == SkillInv /\ SidecarFirst /\ [Next]_vars => SidecarFirst'
<1> SUFFICES ASSUME SkillInv, SidecarFirst, [Next]_vars
             PROVE  SidecarFirst'
  OBVIOUS
<1>1. CASE SkillImported
  <2>1. ThisSkill # "cursor-mcp"
    BY <1>1, ThisSkillIsOne, RefsHaveTypes DEF SkillImported, SkillInv, CopySoFar
  <2> QED
    BY <1>1, <2>1 DEF SkillImported, SidecarFirst, hubVars
<1>2. CASE CopyRoot
  BY <1>2 DEF CopyRoot, SidecarFirst
<1>3. CASE OpenSidecar \/ WriteSidecar
  BY <1>3 DEF OpenSidecar, WriteSidecar, SidecarFirst, Sidecar
<1>4. CASE OpenPlugin \/ WritePlugin
  BY <1>4 DEF OpenPlugin, WritePlugin, Over, SidecarFirst
<1>5. CASE RefuseSkill \/ MeetLink \/ RefuseMcp \/ ScanDies
  BY <1>5 DEF RefuseSkill, MeetLink, RefuseMcp, ScanDies, ScanFails, Over, SidecarFirst, hubVars
<1>6. CASE UNCHANGED <<includes, found, sidecar>>
  BY <1>6 DEF SidecarFirst
<1>7. BeginScan \/ NextDir \/ EmptyDestination \/ CopyFile \/ ReadRoot \/ ReadCursor \/ CopyCursor
      \/ RestorePlugin \/ Edit
      \/ BeginBuild \/ RemovePath \/ CopyPath \/ EndBuild \/ BuildDies \/ UNCHANGED vars
        => UNCHANGED <<includes, found, sidecar>>
  BY DEF BeginScan, NextDir, EmptyDestination, CopyFile, ReadRoot, ReadCursor, CopyCursor,
         RestorePlugin, Edit, EditSource, BeginBuild, RemovePath, CopyPath, EndBuild, BuildDies,
         vars, hubVars, scanVars
<1> QED
  BY <1>1, <1>2, <1>3, <1>4, <1>5, <1>6, <1>7 DEF Next, Scan, ScanStep

(* Cursor's servers reach no other target, wherever a scan dies or fails, unless it
   was writing the sidecar that keeps them to Cursor (write_yaml).                 *)
THEOREM CursorOnly == Spec => []CursorOnlyStaysOnCursor
<1>1. Init => SidecarFirst
  BY DEF Init, ScanInit, SidecarFirst, Sidecar
<1>2. SidecarFirst => CursorOnlyStaysOnCursor
  BY DEF SidecarFirst, Sidecar, CursorOnlyStaysOnCursor, Servers, FromCursor, OnlyCursor, NoServers
<1> QED
  BY <1>1, <1>2, SidecarStep, SkillInvariant, PTL DEF Spec

(* A plugin without contents stops every scan, so none has ended well with one. *)
LEMMA PluginStep == PluginWhole /\ [Next]_vars => PluginWhole'
<1> SUFFICES ASSUME PluginWhole, [Next]_vars
             PROVE  PluginWhole'
  OBVIOUS
<1>1. CASE BeginScan \/ OpenPlugin \/ WritePlugin \/ RestorePlugin
  BY <1>1 DEF BeginScan, OpenPlugin, WritePlugin, RestorePlugin, hubVars, PluginWhole
<1>2. CASE ~scanned'
  BY <1>2 DEF PluginWhole
<1>3. RefuseSkill \/ MeetLink \/ RefuseMcp \/ ScanDies \/ Edit => ~scanned'
  BY DEF RefuseSkill, MeetLink, RefuseMcp, ScanDies, ScanFails, Edit, EditSource
<1>4. CASE UNCHANGED <<pluginEmpty, scanned>> /\ (pc' = pc \/ pc # "plugin write")
  BY <1>4 DEF PluginWhole
<1>5. NextDir \/ EmptyDestination \/ CopyFile \/ SkillImported \/ ReadRoot \/ CopyRoot
      \/ ReadCursor \/ CopyCursor \/ OpenSidecar \/ WriteSidecar
        => UNCHANGED <<pluginEmpty, scanned>> /\ pc # "plugin write"
  BY DEF NextDir, EmptyDestination, CopyFile, SkillImported, ReadRoot, CopyRoot, ReadCursor,
         CopyCursor, OpenSidecar, WriteSidecar, hubVars
<1>6. BeginBuild \/ RemovePath \/ CopyPath \/ EndBuild \/ BuildDies
        => UNCHANGED <<pluginEmpty, scanned>> /\ pc # "plugin write"
  BY DEF BeginBuild, RemovePath, CopyPath, EndBuild, BuildDies, hubVars
<1>7. UNCHANGED vars => UNCHANGED <<pluginEmpty, scanned, pc>>
  BY DEF vars, hubVars, scanVars
<1> QED
  BY <1>1, <1>2, <1>3, <1>4, <1>5, <1>6, <1>7 DEF Next, Scan, ScanStep
-----------------------------------------------------------------------------
(* Types. *)

(* The generated paths, and the three of them with marketplaces. *)
LEMMA PathsAre ==
  /\ Path = {"dist", ".agents/plugins", ".claude-plugin", ".cursor-plugin",
             "hub.release.json", "hub.stable.json"}
  /\ Len(Paths) = 6 /\ \A i \in 1 .. 6 : Paths[i] \in Path
  /\ DOMAIN MarketplaceOf = {".agents/plugins", ".claude-plugin", ".cursor-plugin"}
BY DEF Path, Paths, MarketplaceOf

(* What is generated for a path is not taken for that of another, nor for nothing. *)
LEMMA PieceIs ==
  ASSUME NEW p \in Path, NEW from
  PROVE  Piece(p, from).is \in {"empty directory", "listing", p}
BY PathsAre DEF Piece, Generated, Listing, EmptyDir

(* A payload is something. *)
LEMMA PayloadIsSomething == Payload # Nothing
<1>1. DOMAIN Payload # DOMAIN Nothing
  <2>1. "skills" \in DOMAIN Payload
    BY DEF Payload
  <2>2. "skills" \notin DOMAIN Nothing
    BY DEF Nothing
  <2> QED
    BY <2>1, <2>2
<1> QED
  BY <1>1

(* Who writes the MCP files, the references, the counts, and what a scan keeps. *)
LEMMA Footprints ==
  ASSUME [Next]_vars
  PROVE  /\ \/ ReadRoot
            \/ CopyRoot
            \/ ReadCursor
            \/ CopyCursor
            \/ mcps' = mcps /\ rootServers' \in {rootServers, Absent}
         /\ SkillImported \/ found' \subseteq found \cup includes \cup {"repo-mcp", "cursor-mcp"}
         /\ includes' \subseteq includes \cup found
         /\ sidecar' \in {sidecar, "empty", "cursor only"}
         /\ pluginEmpty' \in {pluginEmpty, TRUE, FALSE} /\ scanned' \in {scanned, TRUE, FALSE}
         /\ edits' = edits \/ (edits < MaxEdits /\ edits' = edits + 1)
         /\ deaths' = deaths \/ (deaths < MaxDeaths /\ deaths' = deaths + 1)
<1>1. CASE Scan
  <2>1. CASE ScanStep
    BY <2>1 DEF ScanStep, BeginScan, NextDir, RefuseSkill, EmptyDestination, CopyFile, MeetLink,
                SkillImported, ReadRoot, CopyRoot, ReadCursor, CopyCursor, RefuseMcp, OpenSidecar,
                WriteSidecar, OpenPlugin, WritePlugin, RestorePlugin, scanVars,
                ScanFails, Over, hubVars, counts
  <2>2. CASE ScanDies
    BY <2>2 DEF ScanDies, ScanFails, Over, hubVars
  <2>3. CASE RestorePlugin
    BY <2>3 DEF RestorePlugin, scanVars, counts
  <2> QED
    BY <1>1, <2>1, <2>2, <2>3 DEF Scan
<1>2. CASE Edit
  BY <1>2 DEF Edit, EditSource, hubVars
<1>3. CASE BeginBuild \/ RemovePath \/ CopyPath \/ EndBuild \/ BuildDies \/ UNCHANGED vars
  BY <1>3 DEF BeginBuild, RemovePath, CopyPath, EndBuild, BuildDies, vars, hubVars, scanVars, counts
<1> QED
  BY <1>1, <1>2, <1>3 DEF Next

(* A new hub is well typed. *)
LEMMA TypesInit == Init => HubTypes
<1> SUFFICES ASSUME Init PROVE HubTypes
  OBVIOUS
<1>1. source \in Source /\ dir \in 1 .. Len(SkillDirs) + 1 /\ copied \in 0 .. Len(Files)
  BY SourcesAreSources, DirsAreInOrder DEF Init, ScanInit, Files
<1>2. edits \in 0 .. MaxEdits /\ deaths \in 0 .. MaxDeaths
  BY BoundsAreNat DEF Init, ScanInit
<1>3. /\ skills \in [SkillId -> SUBSET (File \cup {Here})]
      /\ mcps \in [McpFile -> Config \cup {Absent, Unreadable}]
      /\ rootServers \in Config \cup {Absent}
      /\ includes \in SUBSET Ref /\ found \in SUBSET Ref
  BY DEF Init, ScanInit
<1>4. sidecar \in Sidecar /\ pluginEmpty \in BOOLEAN /\ scanned \in BOOLEAN /\ built \in BOOLEAN
  BY DEF Init, ScanInit, Sidecar
<1>5. ScanTypeOK
  BY <1>1, <1>2, <1>3, <1>4 DEF ScanTypeOK
<1>6. \A p \in Path : out[p].is \in {"nothing", "broken", "empty directory", "listing", p}
  BY PathsAre DEF Init, EmptyDir, Nothing
<1>7. /\ out = [p \in Path |-> out[p]] /\ path = 0 /\ compiled = Nothing /\ pc = "idle"
      /\ path \in 0 .. Len(Paths)
  BY PathsAre DEF Init, ScanInit
<1> QED
  BY <1>4, <1>5, <1>6, <1>7 DEF HubTypes, TypeOK, BuildTypes, Commanding, ScanPc, Opened

(* What a command writes has its type. *)
LEMMA ScanTypesStep ==
  ASSUME SkillInv, HubTypes, [Next]_vars
  PROVE  ScanTypeOK'
<1>1. SkillTypes'
  BY SkillStep DEF SkillInv
<1>2. /\ source' \in Source /\ skills' \in [SkillId -> SUBSET (File \cup {Here})]
      /\ dir' \in 1 .. Len(SkillDirs) + 1 /\ copied' \in 0 .. Len(Files)
  BY <1>1 DEF SkillTypes, Source, Files
<1>3. /\ source \in Source /\ mcps \in [McpFile -> Config \cup {Absent, Unreadable}]
      /\ sidecar \in Sidecar /\ pluginEmpty \in BOOLEAN /\ scanned \in BOOLEAN
      /\ includes \in SUBSET Ref /\ found \in SUBSET Ref
      /\ rootServers \in Config \cup {Absent}
  BY DEF HubTypes, TypeOK, ScanTypeOK
<1>4. mcps' \in [McpFile -> Config \cup {Absent, Unreadable}] /\ rootServers' \in Config \cup {Absent}
  <2>1. /\ RootFile \in Config \cup {Absent, Unreadable}
        /\ source.cursor \in Config \cup {Absent, Unreadable} /\ RootSuffix \in Suffix
    BY <1>3 DEF Source, RootFile, RootSuffix, Suffix
  <2>2. \A f \in Suffix : Imported[f] \in McpFile
    BY DEF Imported, Suffix, McpFile
  <2>3. /\ \A f \in Suffix : Emptied[f] \in Config \cup {Absent, Unreadable}
        /\ Emptied["json"] \in Config \cup {Absent, Unreadable}
    BY DEF Emptied, Suffix, NoServers, Config
  <2>4. CASE ReadRoot
    BY <1>3, <2>1, <2>2, <2>3, <2>4 DEF ReadRoot
  <2>5. CASE CopyRoot
    BY <1>3, <2>1, <2>2, <2>5 DEF CopyRoot
  <2>6. CASE ReadCursor
    BY <1>3, <2>3, <2>6 DEF ReadCursor, McpFile
  <2>7. CASE CopyCursor
    BY <1>3, <2>1, <2>7 DEF CopyCursor, McpFile
  <2>8. CASE UNCHANGED mcps /\ rootServers' \in {rootServers, Absent}
    BY <1>3, <2>8
  <2> QED
    BY <2>4, <2>5, <2>6, <2>7, <2>8, Footprints
<1>5. includes' \in SUBSET Ref /\ found' \in SUBSET Ref
  <2>1. CASE SkillImported
    BY <1>3, <2>1, ThisSkillIsOne DEF SkillImported, hubVars, Ref, SkillInv, CopySoFar
  <2>2. CASE found' \subseteq found \cup includes \cup {"repo-mcp", "cursor-mcp"}
    BY <1>3, <2>2, Footprints DEF Ref
  <2> QED
    BY <2>1, <2>2, Footprints
<1>6. sidecar' \in Sidecar /\ pluginEmpty' \in BOOLEAN /\ scanned' \in BOOLEAN
  BY <1>3, Footprints DEF Sidecar
<1>7. edits' \in 0 .. MaxEdits /\ deaths' \in 0 .. MaxDeaths
  <2>1. edits \in 0 .. MaxEdits /\ deaths \in 0 .. MaxDeaths
    BY DEF HubTypes, TypeOK, ScanTypeOK
  <2>2. /\ edits' = edits \/ (edits < MaxEdits /\ edits' = edits + 1)
        /\ deaths' = deaths \/ (deaths < MaxDeaths /\ deaths' = deaths + 1)
    BY Footprints
  <2> QED
    BY <2>1, <2>2, BoundsAreNat
<1> QED
  BY <1>2, <1>4, <1>5, <1>6, <1>7 DEF ScanTypeOK

(* A build replaces one path after the other, and only while it runs. *)
LEMMA BuildTypesStep ==
  ASSUME HubTypes, [Next]_vars
  PROVE  /\ pc' \in ScanPc \cup {"build", "replace"} /\ built' \in BOOLEAN
         /\ (compiled' # Nothing <=> Commanding') /\ path' \in 0 .. Len(Paths)
         /\ \A p \in Path :
              out'[p].is \in {"nothing", "broken", "empty directory", "listing", p}
         /\ BuildTypes'
<1>1. /\ pc \in ScanPc \cup {"build", "replace"} /\ built \in BOOLEAN
      /\ (compiled # Nothing <=> Commanding) /\ path \in 0 .. 6
      /\ (pc = "replace" => path < 6)
      /\ (~Commanding => path = 0)
      /\ ~Commanding => path = 0
      /\ out = [p \in Path |-> out[p]]
      /\ \A p \in Path : out[p].is \in {"nothing", "broken", "empty directory", "listing", p}
  BY PathsAre DEF HubTypes, TypeOK, BuildTypes, Commanding
<1>2. CASE UNCHANGED <<out, compiled, path>> /\ built' \in {built, FALSE}
           /\ (Commanding <=> Commanding')
           /\ (pc' = "replace" => pc = "replace") /\ pc' \in ScanPc \cup {"build", "replace"}
  BY <1>1, <1>2, PathsAre DEF BuildTypes, Commanding
<1>3. CASE Scan
  <2>1. pc \notin {"build", "replace"} /\ pc' \in ScanPc
    BY <1>3 DEF Scan, ScanStep, BeginScan, NextDir, RefuseSkill, EmptyDestination, CopyFile,
      MeetLink, SkillImported, ReadRoot, CopyRoot, ReadCursor, CopyCursor, RefuseMcp, OpenSidecar,
                WriteSidecar, OpenPlugin, WritePlugin, RestorePlugin, scanVars,
      ScanDies, ScanFails, Over, ScanPc
  <2> QED
    BY <1>2, <1>3, <2>1 DEF Scan, Commanding, ScanPc
<1>4. CASE Edit
  BY <1>1, <1>2, <1>4 DEF Edit, EditSource, buildVars, Commanding
<1>5. CASE BeginBuild
  BY <1>1, <1>5, PayloadIsSomething, PathsAre DEF BeginBuild, BuildTypes, Commanding
<1>6. CASE RemovePath
  <2>1. /\ pc = "build" /\ path \in 0 .. 6 /\ path < 6 /\ pc' = "replace"
        /\ UNCHANGED <<compiled, path, built>>
        /\ out' = [out EXCEPT ![Paths[path + 1]] = Broken]
    BY <1>1, <1>6, PathsAre DEF RemovePath
  <2>2. path + 1 \in 1 .. 6
    BY <2>1
  <2>3. Paths[path + 1] \in Path
    BY <2>2, PathsAre
  <2>4. /\ out' = [p \in Path |-> out'[p]]
        /\ \A p \in Path : out'[p] \in {out[p], Broken}
    BY <1>1, <2>1, <2>3
  <2>5. \A p \in Path : out'[p].is \in {"nothing", "broken", "empty directory", "listing", p}
    <3> TAKE p \in Path
    <3>1. Broken.is = "broken"
      BY DEF Broken
    <3>2. CASE out'[p] = out[p]
      BY <1>1, <3>2
    <3>3. CASE out'[p] = Broken
      BY <3>1, <3>3
    <3> QED
      BY <2>4, <3>2, <3>3
  <2> QED
    BY <1>1, <2>1, <2>4, <2>5, PathsAre DEF BuildTypes, Commanding
<1>7. CASE CopyPath
  <2>1. /\ pc = "replace" /\ path \in 0 .. 6 /\ path < 6 /\ pc' = "build" /\ path' = path + 1
        /\ UNCHANGED <<compiled, built>>
        /\ out' = [out EXCEPT ![Paths[path + 1]] = Piece(Paths[path + 1], compiled)]
    BY <1>1, <1>7, PathsAre DEF CopyPath
  <2>2. path + 1 \in 1 .. 6 /\ path' \in 0 .. 6
    BY <2>1
  <2>3. Paths[path + 1] \in Path
    BY <2>2, PathsAre
  <2>4. /\ out' = [p \in Path |-> out'[p]]
        /\ \A p \in Path : out'[p] \in {out[p], Piece(p, compiled)}
    BY <1>1, <2>1, <2>3
  <2>5. \A p \in Path : out'[p].is \in {"nothing", "broken", "empty directory", "listing", p}
    <3> TAKE p \in Path
    <3>1. Piece(p, compiled).is \in {"empty directory", "listing", p}
      BY PieceIs
    <3>2. CASE out'[p] = out[p]
      BY <1>1, <3>2
    <3>3. CASE out'[p] = Piece(p, compiled)
      BY <3>1, <3>3
    <3> QED
      BY <2>4, <3>2, <3>3
  <2> QED
    BY <1>1, <2>1, <2>2, <2>4, <2>5, PathsAre DEF BuildTypes, Commanding
<1>8. CASE EndBuild \/ BuildDies
  <2>1. pc' = "idle" /\ path' = 0 /\ compiled' = Nothing /\ out' = out
    BY <1>8 DEF EndBuild, BuildDies
  <2>2. built' \in BOOLEAN
    BY <1>1, <1>8 DEF EndBuild, BuildDies
  <2>3. \A p \in Path :
          out'[p].is \in {"nothing", "broken", "empty directory", "listing", p}
    BY <1>1, <2>1
  <2>4. BuildTypes'
    BY <1>1, <2>1 DEF BuildTypes, Commanding
  <2>5. pc' \in ScanPc \cup {"build", "replace"} /\ ~Commanding' /\ path' \in 0 .. Len(Paths)
    BY <2>1, PathsAre DEF Commanding, ScanPc
  <2> QED
    BY <2>1, <2>2, <2>3, <2>4, <2>5
<1>9. CASE UNCHANGED vars
  BY <1>1, <1>2, <1>9 DEF vars, buildVars, scanVars, Commanding
<1> QED
  BY <1>3, <1>4, <1>5, <1>6, <1>7, <1>8, <1>9 DEF Next

(* Nobody changes a file that has been opened. *)
LEMMA OpenedStep ==
  ASSUME HubTypes, [Next]_vars
  PROVE  Opened'
<1>1. /\ Opened
      /\ RootFile \in Config \cup {Absent, Unreadable}
      /\ source.cursor \in Config \cup {Absent, Unreadable}
  BY DEF HubTypes, TypeOK, ScanTypeOK, Source, RootFile, RootSuffix, Suffix
<1>2. CASE ReadRoot
  BY <1>1, <1>2 DEF ReadRoot, Opened, RootFile, RootSuffix
<1>3. CASE ReadCursor
  BY <1>1, <1>3 DEF ReadCursor, CursorAddsNothing, Opened
<1>4. CASE pc' \notin {"root copy", "cursor copy"}
  BY <1>4 DEF Opened
<1>5. CASE UNCHANGED <<source, pc>>
  BY <1>1, <1>5 DEF Opened, RootFile, RootSuffix
<1>6. CASE Edit
  <2>1. pc' \notin {"root copy", "cursor copy"}
    BY <1>6 DEF Edit, EditSource
  <2> QED
    BY <1>4, <2>1
<1>7. CASE Scan /\ ~ReadRoot /\ ~ReadCursor
  <2>1. pc' \notin {"root copy", "cursor copy"}
    BY <1>7 DEF Scan, ScanStep, BeginScan, NextDir, RefuseSkill, EmptyDestination, CopyFile, MeetLink,
                SkillImported, CopyRoot, CopyCursor, RefuseMcp, OpenSidecar, WriteSidecar, OpenPlugin,
                WritePlugin, RestorePlugin, scanVars, ScanDies, ScanFails, Over
  <2> QED
    BY <1>4, <2>1
<1>8. CASE BeginBuild \/ RemovePath \/ CopyPath \/ EndBuild \/ BuildDies
  BY <1>4, <1>8 DEF BeginBuild, RemovePath, CopyPath, EndBuild, BuildDies
<1>9. CASE UNCHANGED vars
  BY <1>5, <1>9 DEF vars, scanVars
<1> QED
  BY <1>2, <1>3, <1>6, <1>7, <1>8, <1>9 DEF Next

(* No step breaks the types. *)
LEMMA TypesStep == SkillInv /\ HubTypes /\ [Next]_vars => HubTypes'
BY ScanTypesStep, BuildTypesStep, OpenedStep DEF HubTypes, TypeOK, Commanding

(* Everything a hub and its commands keep has its type, and what was generated is
   there only while a build runs.                                                 *)
THEOREM HubTypeCorrect == Spec => []TypeOK
<1>1. HubTypes => TypeOK
  BY DEF HubTypes
<1> QED
  BY <1>1, TypesInit, TypesStep, SkillInvariant, PTL DEF Spec
-----------------------------------------------------------------------------
(* The build. *)

(* Each path is replaced once. *)
LEMMA PathsDiffer ==
  /\ \A i, j \in 1 .. 6 : Paths[i] = Paths[j] => i = j
  /\ \A p \in Path : \E i \in 1 .. 6 : p = Paths[i]
BY DEF Paths, Path

(* What is compiled depends on the hub alone. *)
LEMMA HubDecides ==
  ASSUME UNCHANGED hubVars
  PROVE  /\ Payload' = Payload
         /\ Compiles(Targets) => Compiles(Targets)'
<1>1. \A t : Servers(t)' = Servers(t) /\ Merges(t)' = Merges(t)
  BY DEF hubVars, Servers, FromRepo, FromCursor, OnlyCursor, RepoConfig, CursorConfig, Merges
<1> QED
  BY <1>1 DEF hubVars, Payload, Compiles, Loads, Present, RepoConfig, CursorConfig

(* A new hub is not built. *)
LEMMA BuiltInit == Init => BuiltInv
BY DEF Init, ScanInit, BuiltInv, Replacing, WellBuilt, Commanding

(* No step breaks what holds of a build. *)
LEMMA BuiltStep == HubTypes /\ BuiltInv /\ [Next]_vars => BuiltInv'
<1> SUFFICES ASSUME HubTypes, BuiltInv, [Next]_vars
             PROVE  BuiltInv'
  OBVIOUS
<1>1. /\ path \in 0 .. 6 /\ (pc = "replace" => path < 6)
      /\ out = [p \in Path |-> out[p]]
  BY PathsAre DEF HubTypes, TypeOK, BuildTypes
<1>2. CASE ~Commanding' /\ ~built'
  BY <1>2 DEF BuiltInv, Replacing, WellBuilt
<1>3. CASE UNCHANGED <<hubVars, buildVars, pc>>
  <2>1. Replacing'
    BY <1>3, HubDecides DEF BuiltInv, Replacing, Commanding, buildVars, Piece
  <2>2. WellBuilt'
    BY <1>3, HubDecides DEF BuiltInv, WellBuilt, buildVars, Piece
  <2> QED
    BY <2>1, <2>2 DEF BuiltInv
<1>4. CASE Scan
  <2>1. pc' \in ScanPc
    BY <1>4 DEF Scan, ScanStep, BeginScan, NextDir, RefuseSkill, EmptyDestination, CopyFile,
                MeetLink, SkillImported, ReadRoot, CopyRoot, ReadCursor, CopyCursor, RefuseMcp,
                OpenSidecar, WriteSidecar, OpenPlugin, WritePlugin, RestorePlugin, scanVars, ScanDies, ScanFails, Over, ScanPc
  <2> QED
    BY <1>2, <1>4, <2>1 DEF Scan, Commanding, ScanPc
<1>5. CASE Edit
  BY <1>3, <1>5 DEF Edit, EditSource
<1>6. CASE BeginBuild
  <2>1. UNCHANGED hubVars /\ Compiles(Targets) /\ compiled' = Payload /\ path' = 0 /\ ~built'
    BY <1>6 DEF BeginBuild
  <2>2. \A i \in 1 .. path' : FALSE
    BY <2>1
  <2> QED
    BY <2>1, <2>2, HubDecides DEF BuiltInv, Replacing, WellBuilt
<1>7. CASE RemovePath
  <2>1. /\ pc = "build" /\ path < 6 /\ UNCHANGED <<hubVars, compiled, path, built>>
        /\ out' = [out EXCEPT ![Paths[path + 1]] = Broken]
    BY <1>7, PathsAre DEF RemovePath
  <2>2. ~built'
    BY <2>1 DEF BuiltInv, WellBuilt
  <2>3. \A i \in 1 .. path : Paths[i] \in Path /\ Paths[i] # Paths[path + 1]
    <3> TAKE i \in 1 .. path
    <3>1. i \in 1 .. 6 /\ path + 1 \in 1 .. 6 /\ i # path + 1
      BY <1>1, <2>1
    <3> QED
      BY <3>1, PathsDiffer, PathsAre
  <2>4. \A i \in 1 .. path : out'[Paths[i]] = out[Paths[i]]
    BY <1>1, <2>1, <2>3
  <2>5. compiled = Payload /\ Compiles(Targets)
        /\ \A i \in 1 .. path : out[Paths[i]] = Piece(Paths[i], compiled)
    BY <2>1 DEF BuiltInv, Replacing, Commanding
  <2>6. Replacing'
    BY <2>1, <2>4, <2>5, HubDecides DEF Replacing, Piece
  <2> QED
    BY <2>2, <2>6 DEF BuiltInv, WellBuilt
<1>8. CASE CopyPath
  <2>1. /\ pc = "replace" /\ path < 6 /\ path' = path + 1 /\ UNCHANGED <<hubVars, compiled, built>>
        /\ out' = [out EXCEPT ![Paths[path + 1]] = Piece(Paths[path + 1], compiled)]
    BY <1>1, <1>8 DEF CopyPath
  <2>2. ~built'
    BY <2>1 DEF BuiltInv, WellBuilt
  <2>3. compiled = Payload /\ Compiles(Targets)
        /\ \A i \in 1 .. path : out[Paths[i]] = Piece(Paths[i], compiled)
    BY <2>1 DEF BuiltInv, Replacing, Commanding
  <2>4. ASSUME NEW i \in 1 .. path'
        PROVE  out'[Paths[i]] = Piece(Paths[i], compiled)
    <3>1. i \in 1 .. 6 /\ path + 1 \in 1 .. 6 /\ (i = path + 1 \/ i \in 1 .. path)
      BY <1>1, <2>1
    <3>2. Paths[i] \in Path /\ Paths[path + 1] \in Path
          /\ (Paths[i] = Paths[path + 1] => i = path + 1)
      BY <3>1, PathsDiffer, PathsAre
    <3>3. CASE i = path + 1
      BY <1>1, <2>1, <3>2, <3>3
    <3>4. CASE i \in 1 .. path /\ i # path + 1
      BY <1>1, <2>1, <2>3, <3>2, <3>4
    <3> QED
      BY <3>1, <3>3, <3>4
  <2>5. Replacing'
    BY <2>1, <2>3, <2>4, HubDecides DEF Replacing, Piece
  <2> QED
    BY <2>2, <2>5 DEF BuiltInv, WellBuilt
<1>9. CASE EndBuild
  <2>1. pc = "build" /\ path = 6 /\ pc' = "idle" /\ UNCHANGED <<hubVars, out>>
    BY <1>9, PathsAre DEF EndBuild
  <2>2. compiled = Payload /\ Compiles(Targets)
        /\ \A i \in 1 .. 6 : out[Paths[i]] = Piece(Paths[i], compiled)
    BY <2>1 DEF BuiltInv, Replacing, Commanding
  <2>3. \A p \in Path : out[p] = Piece(p, Payload)
    BY <2>2, PathsDiffer
  <2>4. WellBuilt'
    BY <2>1, <2>2, <2>3, HubDecides DEF WellBuilt, Piece
  <2> QED
    BY <2>1, <2>4 DEF BuiltInv, Replacing, Commanding
<1>10. CASE BuildDies
  BY <1>2, <1>10 DEF BuildDies, BuiltInv, WellBuilt, Commanding
<1>11. CASE UNCHANGED vars
  BY <1>3, <1>11 DEF vars, scanVars
<1> QED
  BY <1>4, <1>5, <1>6, <1>7, <1>8, <1>9, <1>10, <1>11 DEF Next

(* It holds always. *)
LEMMA BuiltInvariant == Spec => []BuiltInv
BY BuiltInit, BuiltStep, TypesInit, TypesStep, SkillInvariant, PTL DEF Spec

(* Right after a build that ended well, a check of the same worktree passes, for
   any targets and whatever died before (build_hub, trees_equal).               *)
THEOREM BuildThenCheckPasses == Spec => [](built => CheckPasses(out))
<1>1. BuiltInv => (built => CheckPasses(out))
  BY DEF BuiltInv, WellBuilt, CheckPasses
<1> QED
  BY <1>1, BuiltInvariant, PTL

(* The committed output passes in every clone of a hub that has all three targets
   with marketplaces, which the hub of the run has.                              *)
THEOREM ClonePasses ==
  ASSUME {"codex", "claude", "cursor"} \subseteq Targets
  PROVE  Spec => []CommittedOutputPasses
<1>1. ASSUME NEW p \in Path PROVE Piece(p, Payload) # EmptyDir
  <2>1. p \in DOMAIN MarketplaceOf => MarketplaceOf[p] \in Targets
    BY PathsAre DEF MarketplaceOf
  <2>2. Piece(p, Payload).is \in {"listing", p} /\ p # "empty directory"
    BY <2>1, PathsAre DEF Piece, Listing, Generated
  <2>3. EmptyDir.is = "empty directory"
    BY DEF EmptyDir
  <2> QED
    BY <2>2, <2>3
<1>2. BuiltInv => CommittedOutputPasses
  BY <1>1 DEF BuiltInv, WellBuilt, CommittedOutputPasses, CheckPasses, Cloned
<1> QED
  BY <1>2, BuiltInvariant, PTL

(* It passes in no clone of any other hub: the directory of the marketplace that
   is not there is made, and git does not keep it (run hub_clone).              *)
THEOREM CloneFails ==
  ASSUME ~ ({"codex", "claude", "cursor"} \subseteq Targets)
  PROVE  Spec => [](built => ~CheckPasses(Cloned(out)))
<1>1. PICK p \in Path : p \in DOMAIN MarketplaceOf /\ MarketplaceOf[p] \notin Targets
  BY PathsAre DEF MarketplaceOf
<1>2. Piece(p, Payload) = EmptyDir /\ EmptyDir # Nothing
  BY <1>1 DEF Piece, EmptyDir, Nothing
<1>3. BuiltInv => (built => ~CheckPasses(Cloned(out)))
  BY <1>1, <1>2 DEF BuiltInv, WellBuilt, CheckPasses, Cloned
<1> QED
  BY <1>3, BuiltInvariant, PTL
-----------------------------------------------------------------------------
(* What a hub has of its repository. *)

(* An asset that is there stays, until it is replaced by another. *)
LEMMA AssetsStay ==
  ASSUME SkillInv, HubTypes, [Next]_vars
  PROVE  /\ \A s \in SkillId : skills[s] # {} => skills'[s] # {}
         /\ \A f \in McpFile : mcps[f] # Absent => mcps'[f] # Absent
<1>1. /\ skills \in [SkillId -> SUBSET (File \cup {Here})]
      /\ mcps \in [McpFile -> Config \cup {Absent, Unreadable}]
  BY DEF HubTypes, TypeOK, ScanTypeOK
<1>2. ASSUME EmptyDestination \/ CopyFile
      PROVE  \A s \in SkillId : skills[s] # {} => skills'[s] # {}
  BY <1>1, <1>2 DEF EmptyDestination, CopyFile
<1>3. \A f \in McpFile : mcps[f] # Absent => mcps'[f] # Absent
  <2>1. /\ RootFile \in Config => RootFile # Absent
        /\ source.cursor \in Config => source.cursor # Absent
        /\ \A f \in {"json", "yaml"} : Emptied[f] # Absent
        /\ RootSuffix \in {"json", "yaml"}
    BY AbsentIsNoConfig DEF Emptied, NoServers, Config, RootSuffix
  <2>2. CASE ReadRoot
    BY <1>1, <2>1, <2>2 DEF ReadRoot
  <2>3. CASE CopyRoot
    BY <1>1, <2>1, <2>3 DEF CopyRoot, HubTypes, Opened
  <2>4. CASE ReadCursor
    BY <1>1, <2>1, <2>4 DEF ReadCursor
  <2>5. CASE CopyCursor
    BY <1>1, <2>1, <2>5 DEF CopyCursor, HubTypes, Opened
  <2> QED
    BY <2>2, <2>3, <2>4, <2>5, Footprints
<1>4. EmptyDestination \/ CopyFile \/ UNCHANGED skills
  <2>1. CASE Scan
    BY <2>1 DEF Scan, ScanStep, BeginScan, NextDir, RefuseSkill, MeetLink, SkillImported, ReadRoot,
                CopyRoot, ReadCursor, CopyCursor, RefuseMcp, OpenSidecar, WriteSidecar, OpenPlugin,
                WritePlugin, RestorePlugin, ScanDies, hubVars
  <2>2. CASE Edit
    BY <2>2 DEF Edit, EditSource, hubVars
  <2>3. CASE BeginBuild \/ RemovePath \/ CopyPath \/ EndBuild \/ BuildDies \/ UNCHANGED vars
    BY <2>3 DEF BeginBuild, RemovePath, CopyPath, EndBuild, BuildDies, vars, hubVars
  <2> QED
    BY <2>1, <2>2, <2>3 DEF Next
<1> QED
  BY <1>2, <1>3, <1>4

(* The repository is as it was, as long as nobody has changed it. *)
LEMMA SourceStays ==
  ASSUME HubTypes, [Next]_vars, edits' = 0
  PROVE  edits = 0 /\ source' = source
<1>1. edits \in Nat
  <2>1. edits \in 0 .. MaxEdits
    BY DEF HubTypes, TypeOK, ScanTypeOK
  <2> QED
    BY <2>1, BoundsAreNat
<1>2. ~Edit
  <2>1. Edit => edits' = edits + 1
    BY DEF Edit, EditSource
  <2> QED
    BY <1>1, <2>1
<1>3. CASE Scan
  BY <1>3 DEF Scan, ScanStep, BeginScan, NextDir, RefuseSkill, EmptyDestination, CopyFile, MeetLink,
              SkillImported, ReadRoot, CopyRoot, ReadCursor, CopyCursor, RefuseMcp, OpenSidecar,
                WriteSidecar, OpenPlugin, WritePlugin, RestorePlugin, scanVars,
              ScanDies, counts
<1>4. CASE BeginBuild \/ RemovePath \/ CopyPath \/ EndBuild \/ BuildDies \/ UNCHANGED vars
  BY <1>4 DEF BeginBuild, RemovePath, CopyPath, EndBuild, BuildDies, vars, counts
<1> QED
  BY <1>2, <1>3, <1>4 DEF Next

(* Who adds references, and who begins the sidecar. *)
LEMMA WhoRefers ==
  ASSUME SkillInv, HubTypes, [Next]_vars
  PROVE  /\ \/ Refs' \subseteq Refs
            \/ SkillImported /\ Refs' = Refs \cup {ThisSkill} /\ ThisSkill \in SkillId
            \/ CopyRoot /\ RootFile \in Config /\ Refs' = Refs \cup {"repo-mcp"}
            \/ WriteSidecar /\ Refs' = Refs \cup {"cursor-mcp"}
         /\ sidecar' = sidecar \/ pc \in {"cursor only", "sidecar"}
<1>1. CASE SkillImported
  BY <1>1, ThisSkillIsOne DEF SkillImported, hubVars, Refs, SkillInv, CopySoFar
<1>2. CASE CopyRoot
  BY <1>2 DEF CopyRoot, Refs, HubTypes, Opened
<1>3. CASE WriteSidecar
  BY <1>3 DEF WriteSidecar, Refs
<1>4. CASE Scan /\ ~SkillImported /\ ~CopyRoot /\ ~WriteSidecar
  BY <1>4 DEF Scan, ScanStep, BeginScan, NextDir, RefuseSkill, EmptyDestination, CopyFile, MeetLink,
              ReadRoot, ReadCursor, CopyCursor, RefuseMcp, OpenSidecar, OpenPlugin, WritePlugin,
              RestorePlugin, ScanDies, ScanFails, Over, hubVars, scanVars, Refs
<1>5. CASE Edit
  BY <1>5 DEF Edit, EditSource, hubVars, Refs
<1>6. CASE BeginBuild \/ RemovePath \/ CopyPath \/ EndBuild \/ BuildDies \/ UNCHANGED vars
  BY <1>6 DEF BeginBuild, RemovePath, CopyPath, EndBuild, BuildDies, vars, hubVars, scanVars, Refs
<1> QED
  BY <1>1, <1>2, <1>3, <1>4, <1>5, <1>6 DEF Next

(* A new hub refers to nothing. *)
LEMMA RefsInit == Init => RefsHaveAssets
BY DEF Init, ScanInit, RefsHaveAssets, Refs, CursorFile

(* Where the command is that copies a skill, or Cursor's servers. *)
LEMMA WhoCopies ==
  ASSUME [Next]_vars
  PROVE  /\ pc' = "copy" => EmptyDestination \/ (pc = "copy" /\ UNCHANGED dir)
         /\ pc' \in {"cursor only", "sidecar"} =>
              CopyCursor \/ (pc \in {"cursor only", "sidecar"} /\ UNCHANGED mcps)
<1>1. CASE Scan
  BY <1>1 DEF Scan, ScanStep, BeginScan, NextDir, RefuseSkill, EmptyDestination, CopyFile, MeetLink,
              SkillImported, ReadRoot, CopyRoot, ReadCursor, CopyCursor, RefuseMcp, OpenSidecar,
              WriteSidecar, OpenPlugin, WritePlugin, RestorePlugin, ScanDies, ScanFails, Over,
              scanVars
<1>2. CASE Edit
  BY <1>2 DEF Edit, EditSource, hubVars
<1>3. CASE BeginBuild \/ RemovePath \/ CopyPath \/ EndBuild \/ BuildDies \/ UNCHANGED vars
  BY <1>3 DEF BeginBuild, RemovePath, CopyPath, EndBuild, BuildDies, vars, hubVars, scanVars
<1> QED
  BY <1>1, <1>2, <1>3 DEF Next

(* What is referred to is there. *)
LEMMA RefsStep == SkillInv /\ HubTypes /\ RefsHaveAssets /\ [Next]_vars => RefsHaveAssets'
<1> SUFFICES ASSUME SkillInv, HubTypes, RefsHaveAssets, [Next]_vars
             PROVE  RefsHaveAssets'
  OBVIOUS
<1>1. /\ \A s \in SkillId : skills[s] # {} => skills'[s] # {}
      /\ \A f \in McpFile : mcps[f] # Absent => mcps'[f] # Absent
  BY AssetsStay
<1>2. /\ skills \in [SkillId -> SUBSET (File \cup {Here})]
      /\ mcps \in [McpFile -> Config \cup {Absent, Unreadable}]
  BY DEF HubTypes, TypeOK, ScanTypeOK
<1>3. \A s \in Refs' \cap SkillId : skills'[s] # {}
  <2>1. CASE SkillImported /\ Refs' = Refs \cup {ThisSkill} /\ ThisSkill \in SkillId
    BY <1>1, <2>1 DEF RefsHaveAssets, SkillImported
  <2>2. CASE Refs' \cap SkillId \subseteq Refs
    BY <1>1, <2>2 DEF RefsHaveAssets
  <2> QED
    BY <2>1, <2>2, WhoRefers, RefsHaveTypes
<1>4. pc' = "copy" => skills'[ThisSkill'] # {}
  <2>1. CASE EmptyDestination
    <3>1. dir \in Index /\ UNCHANGED dir /\ skills' = [skills EXCEPT ![ThisSkill] = {Here}]
      BY <2>1, DirsAreInOrder DEF EmptyDestination, SkillInv, SkillTypes, Index
    <3>2. ThisSkill \in SkillId /\ ThisSkill' = ThisSkill
      BY <3>1, ThisSkillIsOne DEF ThisSkill, ThisDir
    <3> QED
      BY <1>2, <3>1, <3>2
  <2>2. CASE pc = "copy" /\ UNCHANGED dir
    <3>1. ThisSkill \in SkillId /\ ThisSkill' = ThisSkill
      BY <2>2, ThisSkillIsOne DEF ThisSkill, ThisDir, SkillInv, CopySoFar
    <3> QED
      BY <1>1, <2>2, <3>1 DEF RefsHaveAssets
  <2> QED
    BY <2>1, <2>2, WhoCopies
<1>5. "repo-mcp" \in Refs' => RepoConfig' # Absent
  <2>1. {"repo-mcp.json", "repo-mcp.yaml"} \subseteq McpFile
    BY DEF McpFile
  <2>2. CASE "repo-mcp" \in Refs
    BY <1>1, <2>1, <2>2 DEF RefsHaveAssets, RepoConfig
  <2>3. CASE CopyRoot /\ RootFile \in Config
    <3>1. Imported[RootSuffix] \in {"repo-mcp.json", "repo-mcp.yaml"} /\ RootFile # Absent
      BY <2>3, AbsentIsNoConfig DEF Imported, RootSuffix
    <3> QED
      BY <1>2, <2>1, <2>3, <3>1 DEF CopyRoot, RepoConfig
  <2> QED
    BY <2>2, <2>3, WhoRefers, RefsHaveTypes
<1>6. "cursor-mcp" \in Refs' \/ sidecar' # "absent" \/ pc' \in {"cursor only", "sidecar"} =>
        CursorFile' # Absent
  <2>1. "cursor-mcp.json" \in McpFile
    BY DEF McpFile
  <2>2. CASE "cursor-mcp" \in Refs \/ sidecar # "absent" \/ pc \in {"cursor only", "sidecar"}
    BY <1>1, <2>1, <2>2 DEF RefsHaveAssets, CursorFile
  <2>3. CASE CopyCursor
    BY <1>2, <2>1, <2>3, AbsentIsNoConfig DEF CopyCursor, CursorFile, HubTypes, Opened
  <2>4. WriteSidecar => pc = "sidecar"
    BY DEF WriteSidecar
  <2> QED
    BY <2>2, <2>3, <2>4, WhoRefers, WhoCopies, RefsHaveTypes
<1> QED
  BY <1>3, <1>4, <1>5, <1>6 DEF RefsHaveAssets

(* A new hub has nothing of the repository. *)
LEMMA UneditedInit == Init => Unedited
<1> SUFFICES ASSUME Init PROVE Unedited
  OBVIOUS
<1>1. /\ pc = "idle" /\ ~scanned /\ includes = {} /\ found = {}
      /\ skills = [s \in SkillId |-> {}] /\ mcps = [f \in McpFile |-> Absent]
  BY DEF Init, ScanInit
<1>2. SkillsFromSource /\ McpsSoFar
  BY <1>1 DEF SkillsFromSource, McpsSoFar, AfterRoot, Scanning, Scanned, ScanPc
<1>3. CursorFile = Absent /\ \A f \in Suffix : mcps[Imported[f]] = Absent
  BY <1>1 DEF CursorFile, Imported, Suffix, McpFile
<1>4. McpsFromSource
  BY <1>1, <1>3 DEF McpsFromSource, Refs
<1> QED
  BY <1>2, <1>4 DEF Unedited

(* As long as nobody changes the repository, every skill of the hub is one of its
   own, and whole.                                                               *)
LEMMA SkillsFromSourceStep ==
  ASSUME SkillInv, HubTypes, SkillsFromSource, [Next]_vars, UNCHANGED source
  PROVE  SkillsFromSource'
<1>1. /\ skills \in [SkillId -> SUBSET (File \cup {Here})]
      /\ dir \in 1 .. Len(SkillDirs) + 1 /\ Len(SkillDirs) \in Nat
  <2>1. dir \in 1 .. Len(SkillDirs) + 1 /\ skills \in [SkillId -> SUBSET (File \cup {Here})]
    BY DEF HubTypes, TypeOK, ScanTypeOK
  <2> QED
    BY <2>1, DirsAreInOrder
<1>2. /\ \A s \in SkillId : skills[s] # {} => \E d \in Dir : Slug[d] = s /\ HasSkill(d)
      /\ scanned /\ Scanning => \A i \in Index :
           i < dir /\ HasSkill(SkillDirs[i]) => "SKILL.md" \in source.skills[SkillDirs[i]]
      /\ pc = "copy" => HasSkill(ThisDir) /\ "SKILL.md" \in source.skills[ThisDir]
      /\ Scanned => \A d \in Dir : HasSkill(d) => "SKILL.md" \in source.skills[d]
  BY DEF SkillsFromSource
<1>3. \A d : HasSkill(d)' = HasSkill(d)
  BY DEF HasSkill
<1>4. CASE NextDir
  <2>1. /\ pc = "skill" /\ pc' \in {"skill", "root"} /\ UNCHANGED <<skills, scanned>>
        /\ dir' = dir \/ (dir' = dir + 1 /\ ~HasSkill(ThisDir))
    BY <1>4 DEF NextDir, hubVars, HasSkill
  <2>2. \A i \in Index : i < dir' /\ HasSkill(SkillDirs[i]) => i < dir
    BY <1>1, <2>1 DEF Index, ThisDir
  <2>3. ~Scanned' /\ Scanning /\ pc' # "copy"
    BY <2>1 DEF Scanned, Scanning, ScanPc
  <2>4. scanned' => \A i \in Index :
          i < dir' /\ HasSkill(SkillDirs[i]) => "SKILL.md" \in source.skills[SkillDirs[i]]
    BY <1>2, <2>1, <2>2, <2>3
  <2> QED
    BY <1>2, <2>1, <2>3, <2>4 DEF SkillsFromSource, HasSkill
<1>5. CASE EmptyDestination
  <2>1. /\ pc = "skill" /\ pc' = "copy" /\ dir \in Index /\ UNCHANGED <<dir, scanned>>
        /\ HasSkill(ThisDir) /\ "SKILL.md" \in source.skills[ThisDir]
        /\ skills' = [skills EXCEPT ![ThisSkill] = {Here}]
    BY <1>1, <1>5 DEF EmptyDestination, HasSkill, Refused, Index
  <2>2. ThisDir \in Dir /\ ThisSkill \in SkillId /\ Slug[ThisDir] = ThisSkill
    BY <2>1, ThisSkillIsOne DEF ThisSkill
  <2>3. \A s \in SkillId : skills'[s] # {} => \E d \in Dir : Slug[d] = s /\ HasSkill(d)
    BY <1>1, <1>2, <2>1, <2>2
  <2> QED
    BY <1>2, <2>1, <2>3 DEF SkillsFromSource, Scanning, Scanned, ScanPc, HasSkill, ThisDir
<1>6. CASE CopyFile
  <2>1. /\ pc = "copy" /\ pc' = "copy" /\ dir \in Index /\ UNCHANGED <<dir, scanned>>
        /\ skills' = [skills EXCEPT ![ThisSkill] = @ \cup ({NextCopied} \cap source.skills[ThisDir])]
    BY <1>6 DEF CopyFile, SkillInv, CopySoFar
  <2>2. ThisDir \in Dir /\ ThisSkill \in SkillId /\ Slug[ThisDir] = ThisSkill /\ HasSkill(ThisDir)
    BY <1>2, <2>1, ThisSkillIsOne DEF ThisSkill
  <2>3. \A s \in SkillId : skills'[s] # {} => \E d \in Dir : Slug[d] = s /\ HasSkill(d)
    BY <1>1, <1>2, <2>1, <2>2
  <2> QED
    BY <1>2, <2>1, <2>3 DEF SkillsFromSource, Scanning, Scanned, ScanPc, HasSkill, ThisDir
<1>7. CASE SkillImported
  <2>1. /\ pc = "copy" /\ pc' = "skill" /\ dir' = dir + 1 /\ UNCHANGED <<skills, scanned>>
        /\ "SKILL.md" \in source.skills[ThisDir]
    BY <1>2, <1>7 DEF SkillImported, hubVars
  <2>2. \A i \in Index : i < dir' => i < dir \/ i = dir
    BY <1>1, <2>1 DEF Index
  <2> QED
    BY <1>2, <2>1, <2>2 DEF SkillsFromSource, Scanning, Scanned, ScanPc, HasSkill, ThisDir
<1>8. CASE WritePlugin
  <2>1. /\ pc = "plugin write" /\ pc' = "idle" /\ UNCHANGED <<skills, scanned>>
        /\ dir = Len(SkillDirs) + 1
    BY <1>8 DEF WritePlugin, Over, SkillInv, AllDirs
  <2>2. scanned => \A d \in Dir : HasSkill(d) => "SKILL.md" \in source.skills[d]
    <3>1. \A i \in Index : i < dir
      <4>1. Len(SkillDirs) \in Nat /\ dir = Len(SkillDirs) + 1
        BY <1>1, <2>1
      <4> QED
        BY <4>1 DEF Index
    <3>2. \A d \in Dir : \E i \in Index : d = SkillDirs[i]
      BY DEF Dir, Index
    <3>3. Scanning
      BY <2>1 DEF Scanning, ScanPc
    <3> QED
      BY <1>2, <3>1, <3>2, <3>3
  <2>3. ~Scanning' /\ (Scanned' => scanned)
    BY <2>1 DEF Scanning, Scanned
  <2> QED
    BY <1>2, <1>3, <2>1, <2>2, <2>3 DEF SkillsFromSource
<1>9. CASE BeginScan
  <2>1. pc = "idle" /\ pc' = "skill" /\ dir = 1 /\ UNCHANGED <<skills, dir>>
    BY <1>9 DEF BeginScan, hubVars, SkillInv, AtRest, Scanning, ScanPc
  <2>2. \A i \in Index : ~ (i < dir)
    BY <1>1, <2>1 DEF Index
  <2> QED
    BY <1>2, <2>1, <2>2 DEF SkillsFromSource, Scanning, Scanned, ScanPc, HasSkill
<1>10. CASE UNCHANGED skills /\ ~scanned' /\ (pc' = "copy" => pc = "copy" /\ UNCHANGED dir)
  BY <1>2, <1>10 DEF SkillsFromSource, Scanned, HasSkill, ThisDir
<1>11. CASE /\ UNCHANGED <<skills, scanned, dir>> /\ pc' # "copy"
            /\ (Scanned' => Scanned) /\ (Scanning' => Scanning)
  BY <1>2, <1>11 DEF SkillsFromSource, HasSkill
<1>12. CASE RefuseSkill \/ MeetLink \/ RefuseMcp \/ ScanDies \/ Edit
  BY <1>10, <1>12 DEF RefuseSkill, MeetLink, RefuseMcp, ScanDies, ScanFails, Over, Edit,
                     EditSource, hubVars
<1>13. CASE ReadRoot \/ CopyRoot \/ ReadCursor \/ CopyCursor \/ OpenSidecar \/ WriteSidecar
            \/ OpenPlugin
  BY <1>11, <1>13 DEF ReadRoot, CopyRoot, ReadCursor, CopyCursor, OpenSidecar, WriteSidecar,
                      OpenPlugin, Scanned, Scanning, ScanPc
<1>14. CASE RestorePlugin \/ BeginBuild \/ RemovePath \/ CopyPath \/ EndBuild \/ BuildDies
  BY <1>11, <1>14 DEF RestorePlugin, BeginBuild, RemovePath, CopyPath, EndBuild, BuildDies, hubVars,
                     scanVars, Scanned, Scanning, ScanPc
<1>15. CASE UNCHANGED vars
  BY <1>2, <1>15 DEF vars, hubVars, scanVars, SkillsFromSource, HasSkill, ThisDir, Scanned, Scanning
<1> QED
  BY <1>4, <1>5, <1>6, <1>7, <1>8, <1>9, <1>12, <1>13, <1>14, <1>15 DEF Next, Scan, ScanStep

(* As long as nobody changes the repository, the MCP files of the hub are its own,
   or emptied for them.                                                            *)
LEMMA McpsFromSourceStep ==
  ASSUME SkillInv, HubTypes, McpsFromSource, McpsSoFar, [Next]_vars, UNCHANGED source
  PROVE  McpsFromSource'
<1>1. /\ mcps \in [McpFile -> Config \cup {Absent, Unreadable}]
      /\ {"repo-mcp.json", "repo-mcp.yaml", "cursor-mcp.json"} \subseteq McpFile
      /\ RootFile \in Config \cup {Absent, Unreadable}
      /\ source.cursor \in Config \cup {Absent, Unreadable}
  BY DEF HubTypes, TypeOK, ScanTypeOK, McpFile, Source, RootFile, RootSuffix, Suffix
<1>2. RootFile' = RootFile /\ RootSuffix' = RootSuffix /\ CursorCovered' = CursorCovered
  BY DEF RootFile, RootSuffix, CursorCovered
<1>3. /\ RootSuffix \in Suffix
      /\ \A f \in Suffix : Imported[f] \in McpFile /\ Imported[f] # "cursor-mcp.json"
      /\ \A f, g \in Suffix : Imported[f] = Imported[g] => f = g
  BY DEF RootSuffix, Suffix, Imported, McpFile
<1>4. ASSUME NEW f \in Suffix, mcps'[Imported[f]] # Absent
      PROVE  /\ f = RootSuffix /\ RootFile \in Config
             /\ mcps'[Imported[f]] \in {RootFile, Emptied[f]}
  <2>1. CASE mcps'[Imported[f]] = mcps[Imported[f]]
    BY <1>3, <1>4, <2>1 DEF McpsFromSource
  <2>2. CASE ReadRoot /\ mcps' # mcps
    <3>1. /\ RootFile \in Config
          /\ mcps' = [mcps EXCEPT ![Imported[RootSuffix]] = Emptied[RootSuffix]]
      BY <1>1, <2>2 DEF ReadRoot
    <3>2. CASE f = RootSuffix
      BY <1>1, <1>3, <3>1, <3>2
    <3>3. CASE f # RootSuffix
      BY <1>1, <1>3, <2>1, <3>1, <3>3
    <3> QED
      BY <3>2, <3>3
  <2>3. CASE CopyRoot
    <3>1. RootFile \in Config /\ mcps' = [mcps EXCEPT ![Imported[RootSuffix]] = RootFile]
      BY <2>3 DEF CopyRoot, HubTypes, Opened
    <3>2. CASE f = RootSuffix
      BY <1>1, <1>3, <3>1, <3>2
    <3>3. CASE f # RootSuffix
      BY <1>1, <1>3, <2>1, <3>1, <3>3
    <3> QED
      BY <3>2, <3>3
  <2>4. CASE ReadCursor \/ CopyCursor
    BY <1>1, <1>3, <2>1, <2>4 DEF ReadCursor, CopyCursor
  <2> QED
    BY <2>1, <2>2, <2>3, <2>4, Footprints
<1>5. CursorFile' # Absent =>
        /\ CursorFile' \in {source.cursor, Unreadable}
        /\ source.cursor \in Config /\ ~CursorCovered
  <2>1. CASE CursorFile' = CursorFile
    BY <2>1 DEF McpsFromSource
  <2>2. CASE ReadRoot \/ CopyRoot
    BY <1>1, <1>3, <2>1, <2>2 DEF ReadRoot, CopyRoot, CursorFile
  <2>3. CASE ReadCursor /\ mcps' # mcps
    <3>1. rootServers = RootFile
      BY <2>3 DEF ReadCursor, McpsSoFar, AfterRoot
    <3>2. CursorAddsNothing = CursorCovered
      BY <3>1 DEF CursorAddsNothing, CursorCovered
    <3>3. /\ ~CursorCovered /\ source.cursor \in Config
          /\ mcps' = [mcps EXCEPT !["cursor-mcp.json"] = Emptied["json"]]
      BY <1>1, <2>3, <3>2 DEF ReadCursor, CursorCovered
    <3> QED
      BY <1>1, <3>3 DEF CursorFile, Emptied
  <2>4. CASE CopyCursor
    <3>1. /\ ~CursorCovered /\ source.cursor \in Config
          /\ mcps' = [mcps EXCEPT !["cursor-mcp.json"] = source.cursor]
      BY <2>4 DEF CopyCursor, McpsSoFar, HubTypes, Opened
    <3> QED
      BY <1>1, <3>1 DEF CursorFile
  <2>5. CASE mcps' = mcps
    BY <2>1, <2>5 DEF CursorFile
  <2>6. mcps' = mcps \/ ReadRoot \/ CopyRoot \/ ReadCursor \/ CopyCursor
    BY Footprints
  <2>7. CASE mcps' # mcps
    BY <2>2, <2>3, <2>4, <2>6, <2>7
  <2> QED
    BY <2>5, <2>7
<1>6. "repo-mcp" \in Refs' => RootFile # Absent
  <2>1. "repo-mcp" \in Refs => RootFile # Absent
    BY DEF McpsFromSource
  <2>2. \/ Refs' \subseteq Refs
        \/ Refs' = Refs \cup {ThisSkill} /\ ThisSkill \in SkillId
        \/ RootFile \in Config
        \/ Refs' = Refs \cup {"cursor-mcp"}
    BY WhoRefers
  <2>3. "repo-mcp" \notin SkillId
    BY RefsHaveTypes
  <2> QED
    BY <2>1, <2>2, <2>3, AbsentIsNoConfig
<1> QED
  BY <1>2, <1>4, <1>5, <1>6 DEF McpsFromSource

(* A step that keeps the MCP files, the references and where a scan is. *)
LEMMA McpsSoFarKept ==
  ASSUME McpsSoFar, UNCHANGED <<source, mcps, sidecar, pc, found, includes, rootServers>>,
         Scanned' => Scanned
  PROVE  McpsSoFar'
<1>1. RootFile' = RootFile /\ RootSuffix' = RootSuffix /\ CursorCovered' = CursorCovered
  BY DEF RootFile, RootSuffix, CursorCovered
<1>2. \A refs : RootIsIn(refs)' = RootIsIn(refs) /\ CursorIsIn(refs)' = CursorIsIn(refs)
  BY <1>1 DEF RootIsIn, CursorIsIn, CursorFile
<1> QED
  BY <1>1, <1>2 DEF McpsSoFar, Refs, CursorFile, RootIsIn, CursorIsIn

(* The steps of a scan bring what the repository has, one after the other. *)
LEMMA McpsSoFarStep ==
  ASSUME SkillInv, HubTypes, SidecarFirst, McpsFromSource, McpsSoFar, [Next]_vars, UNCHANGED source
  PROVE  McpsSoFar'
<1>1. RootFile' = RootFile /\ RootSuffix' = RootSuffix /\ CursorCovered' = CursorCovered
  BY DEF RootFile, RootSuffix, CursorCovered
<1>2. /\ mcps \in [McpFile -> Config \cup {Absent, Unreadable}]
      /\ Imported[RootSuffix] \in McpFile /\ Imported[RootSuffix] # "cursor-mcp.json"
      /\ "cursor-mcp.json" \in McpFile
  BY DEF HubTypes, TypeOK, ScanTypeOK, McpFile, RootSuffix, Imported
<1>3. CASE ReadRoot
  <2>1. /\ pc' \in {"cursor", "root copy"} /\ rootServers' = RootFile /\ ~Scanned'
        /\ pc' = "cursor" => RootFile = Absent
    BY <1>3 DEF ReadRoot, Scanned, ScanPc
  <2> QED
    BY <1>1, <2>1 DEF McpsSoFar, AfterRoot, RootIsIn
<1>4. CASE CopyRoot
  <2>1. /\ pc = "root copy" /\ pc' = "cursor" /\ UNCHANGED rootServers /\ ~Scanned'
        /\ mcps' = [mcps EXCEPT ![Imported[RootSuffix]] = RootFile] /\ "repo-mcp" \in Refs'
    BY <1>4 DEF CopyRoot, Refs, Scanned, ScanPc
  <2>2. mcps'[Imported[RootSuffix]] = RootFile
    BY <1>2, <2>1
  <2> QED
    BY <1>1, <2>1, <2>2 DEF McpsSoFar, AfterRoot, RootIsIn
<1>5. CASE ReadCursor
  <2>1. /\ pc = "cursor" /\ pc' \in {"cursor copy", "plugin"} /\ ~Scanned'
        /\ UNCHANGED <<rootServers, includes, found>>
        /\ pc' = "plugin" <=> CursorAddsNothing
        /\ mcps' = mcps \/ mcps' = [mcps EXCEPT !["cursor-mcp.json"] = Emptied["json"]]
    BY <1>5 DEF ReadCursor, Scanned, ScanPc
  <2>2. rootServers = RootFile /\ RootIsIn(Refs)
    BY <2>1 DEF McpsSoFar, AfterRoot
  <2>3. CursorAddsNothing = CursorCovered
    BY <2>2 DEF CursorAddsNothing, CursorCovered
  <2>4. mcps'[Imported[RootSuffix]] = mcps[Imported[RootSuffix]]
    BY <1>2, <2>1
  <2>5. RootIsIn(Refs)'
    BY <1>1, <2>1, <2>2, <2>4 DEF RootIsIn, Refs
  <2> QED
    BY <1>1, <2>1, <2>2, <2>3, <2>5 DEF McpsSoFar, CursorIsIn
<1>6. CASE CopyCursor
  <2>1. /\ pc = "cursor copy" /\ pc' = "cursor only" /\ ~Scanned'
        /\ UNCHANGED <<rootServers, includes, found>>
        /\ mcps' = [mcps EXCEPT !["cursor-mcp.json"] = source.cursor]
    BY <1>6 DEF CopyCursor, Scanned, ScanPc
  <2>2. rootServers = RootFile /\ RootIsIn(Refs) /\ ~CursorCovered
    BY <2>1 DEF McpsSoFar, AfterRoot
  <2>3. /\ mcps'[Imported[RootSuffix]] = mcps[Imported[RootSuffix]]
        /\ CursorFile' = source.cursor
    BY <1>2, <2>1 DEF CursorFile
  <2>4. RootIsIn(Refs)'
    BY <1>1, <2>1, <2>2, <2>3 DEF RootIsIn, Refs
  <2> QED
    BY <1>1, <2>1, <2>2, <2>3, <2>4 DEF McpsSoFar
<1>7. CASE OpenSidecar \/ WriteSidecar
  <2>1. /\ pc \in {"cursor only", "sidecar"} /\ pc' \in {"sidecar", "plugin"} /\ ~Scanned'
        /\ UNCHANGED <<rootServers, mcps>> /\ Refs \subseteq Refs'
        /\ pc' = "plugin" => "cursor-mcp" \in Refs' /\ sidecar' = "cursor only"
    BY <1>7 DEF OpenSidecar, WriteSidecar, Scanned, ScanPc, Refs
  <2>2. rootServers = RootFile /\ RootIsIn(Refs) /\ ~CursorCovered /\ CursorFile = source.cursor
    BY <2>1 DEF McpsSoFar, AfterRoot
  <2>3. RootIsIn(Refs)' /\ CursorFile' = source.cursor
    BY <1>1, <2>1, <2>2 DEF RootIsIn, CursorFile
  <2> QED
    BY <1>1, <2>1, <2>2, <2>3 DEF McpsSoFar, CursorIsIn
<1>8. CASE OpenPlugin \/ WritePlugin
  <2>1. /\ pc \in {"plugin", "plugin write"} /\ pc' \in {"plugin write", "idle"}
        /\ UNCHANGED <<mcps, sidecar>>
        /\ pc' = "plugin write" =>
             ~Scanned' /\ UNCHANGED rootServers /\ Refs' = Refs /\ includes' = {}
        /\ pc' = "idle" => pc = "plugin write" /\ includes' = found
    BY <1>8 DEF OpenPlugin, WritePlugin, Over, Scanned, ScanPc, Refs
  <2>2. /\ rootServers = RootFile /\ RootIsIn(Refs) /\ CursorIsIn(Refs)
        /\ pc = "plugin write" => includes = {}
    BY <2>1 DEF McpsSoFar, AfterRoot
  <2>3. \A refs : RootIsIn(refs)' = RootIsIn(refs) /\ CursorIsIn(refs)' = CursorIsIn(refs)
    BY <1>1, <2>1 DEF RootIsIn, CursorIsIn, CursorFile
  <2>4. CASE pc' = "plugin write"
    <3>1. /\ ~Scanned' /\ rootServers' = RootFile' /\ RootIsIn(Refs') /\ CursorIsIn(Refs')
      BY <1>1, <2>1, <2>2, <2>4
    <3>2. RootIsIn(Refs)' /\ CursorIsIn(Refs)'
      BY <1>1, <2>1, <3>1 DEF RootIsIn, CursorIsIn, CursorFile
    <3> QED
      BY <2>1, <2>4, <3>1, <3>2 DEF McpsSoFar
  <2>5. CASE pc' = "idle"
    <3>1. includes' = Refs
      BY <2>1, <2>2, <2>5 DEF Refs
    <3> QED
      BY <1>1, <2>1, <2>2, <2>3, <2>5, <3>1 DEF McpsSoFar, AfterRoot, RootIsIn, CursorIsIn, CursorFile
  <2> QED
    BY <2>1, <2>4, <2>5
<1>9. CASE /\ pc' \notin AfterRoot \cup {"root copy"} /\ ~Scanned'
  BY <1>9 DEF McpsSoFar, AfterRoot
<1>10. CASE BeginScan \/ NextDir \/ RefuseSkill \/ EmptyDestination \/ CopyFile \/ MeetLink
           \/ SkillImported \/ RefuseMcp \/ ScanDies
  <2>1. pc' \in {"idle", "skill", "copy", "root"} /\ ~Scanned'
    BY <1>10 DEF BeginScan, NextDir, RefuseSkill, EmptyDestination, CopyFile, MeetLink,
       SkillImported, RefuseMcp, ScanDies, ScanFails, Over, Scanned, ScanPc
  <2> QED
    BY <1>9, <2>1 DEF AfterRoot
<1>11. CASE Edit
  <2>1. UNCHANGED <<mcps, sidecar, pc, includes, found, rootServers>> /\ ~Scanned'
    BY <1>11 DEF Edit, EditSource, hubVars, Scanned
  <2> QED
    BY <2>1, McpsSoFarKept
<1>12. CASE RestorePlugin \/ BeginBuild \/ RemovePath \/ CopyPath \/ EndBuild \/ BuildDies
  <2>1. /\ pc \in {"idle", "build", "replace"} /\ pc' \in {"idle", "build", "replace"}
        /\ UNCHANGED <<mcps, sidecar, includes, scanned>>
    BY <1>12 DEF RestorePlugin, BeginBuild, RemovePath, CopyPath, EndBuild, BuildDies, hubVars,
                 scanVars
  <2>2. Scanned' => Scanned
    BY <2>1 DEF Scanned, ScanPc
  <2>3. Scanned => RootIsIn(includes) /\ CursorIsIn(includes)
    BY DEF McpsSoFar
  <2>4. RootIsIn(includes)' = RootIsIn(includes) /\ CursorIsIn(includes)' = CursorIsIn(includes)
    BY <1>1, <2>1 DEF RootIsIn, CursorIsIn, CursorFile
  <2> QED
    BY <2>1, <2>2, <2>3, <2>4 DEF McpsSoFar, AfterRoot
<1>13. CASE UNCHANGED vars
  <2>1. /\ UNCHANGED <<source, mcps, sidecar, pc, found, includes, rootServers>>
        /\ Scanned' => Scanned
    BY <1>13 DEF vars, hubVars, scanVars, Scanned
  <2> QED
    BY <2>1, McpsSoFarKept
<1> QED
  BY <1>3, <1>4, <1>5, <1>6, <1>7, <1>8, <1>10, <1>11, <1>12, <1>13 DEF Next, Scan, ScanStep

(* As long as nobody changes it, the hub has of the repository what it is to have. *)
LEMMA UneditedStep == SkillInv /\ HubTypes /\ SidecarFirst /\ Unedited /\ [Next]_vars => Unedited'
BY SourceStays, SkillsFromSourceStep, McpsFromSourceStep, McpsSoFarStep DEF Unedited

(* After a scan of an unchanged repository the hub's MCP asset is the root file. *)
LEMMA RepoIsRoot ==
  ASSUME HubInv, edits = 0, Scanned
  PROVE  /\ RepoConfig = RootFile /\ RootFile \in Config \cup {Absent}
         /\ mcps["repo-mcp.json"] = Absent \/ mcps["repo-mcp.yaml"] = Absent
         /\ FromRepo = IF RootFile = Absent THEN NoServers ELSE RootFile
<1>1. /\ RootFile # Absent => "repo-mcp" \in includes /\ mcps[Imported[RootSuffix]] = RootFile
      /\ \A f \in Suffix : mcps[Imported[f]] # Absent => f = RootSuffix /\ RootFile \in Config
      /\ "repo-mcp" \in includes => RootFile # Absent
  BY DEF HubInv, Unedited, McpsSoFar, McpsFromSource, RootIsIn, Refs
<1>2. /\ Imported["json"] = "repo-mcp.json" /\ Imported["yaml"] = "repo-mcp.yaml"
      /\ Suffix = {"json", "yaml"} /\ RootSuffix \in {"json", "yaml"}
  BY DEF Imported, Suffix, RootSuffix
<1>3. mcps["repo-mcp.json"] = Absent \/ mcps["repo-mcp.yaml"] = Absent
  BY <1>1, <1>2
<1>4. RootFile \in Config \cup {Absent}
  BY <1>1, <1>2
<1>5. RepoConfig = RootFile
  <2>1. CASE RootFile = Absent
    BY <1>1, <1>2, <2>1, AbsentIsNoConfig DEF RepoConfig
  <2>2. CASE RootFile # Absent
    BY <1>1, <1>2, <2>2 DEF RepoConfig
  <2> QED
    BY <2>1, <2>2
<1> QED
  BY <1>1, <1>3, <1>4, <1>5, AbsentIsNoConfig DEF FromRepo

(* Cursor's asset is Cursor's own file, where that adds anything. *)
LEMMA CursorIsOwn ==
  ASSUME HubInv, edits = 0, Scanned, NEW t \in Target
  PROVE  /\ ~CursorCovered => /\ CursorFile = source.cursor /\ source.cursor \in Config
                              /\ FromCursor(t) = IF t = "cursor" THEN source.cursor ELSE NoServers
         /\ CursorCovered => CursorFile = Absent /\ FromCursor(t) = NoServers
         /\ OnlyCursor \/ FromCursor(t) = NoServers
<1>1. /\ ~CursorCovered => /\ "cursor-mcp" \in includes /\ CursorFile = source.cursor
                           /\ sidecar = "cursor only"
      /\ CursorFile # Absent => source.cursor \in Config /\ ~CursorCovered
      /\ "cursor-mcp" \in includes => CursorFile # Absent
      /\ source.cursor = Absent => CursorCovered
  BY DEF HubInv, Unedited, McpsSoFar, McpsFromSource, CursorIsIn, RefsHaveAssets, Refs, CursorCovered
<1>2. ~CursorCovered => CursorFile \in Config
  BY <1>1
<1> QED
  BY <1>1, <1>2 DEF FromCursor, OnlyCursor, CursorConfig, CursorFile

(* Each target has the servers the repository declares for it. *)
LEMMA ServersAreDeclared ==
  ASSUME HubInv, edits = 0, Scanned, NEW t \in Target
  PROVE  Servers(t) = Declared(t)
<1> DEFINE root == IF RootFile = Absent THEN NoServers ELSE RootFile
           own == IF t = "cursor" /\ source.cursor # Absent THEN source.cursor ELSE NoServers
<1>1. Declared(t) = [s \in Server |-> IF own[s] # None THEN own[s] ELSE root[s]]
  BY DEF Declared
<1>2. FromRepo = root
  BY RepoIsRoot
<1>3. ASSUME NEW s \in Server
      PROVE  (IF FromCursor(t)[s] # None THEN FromCursor(t)[s] ELSE FromRepo[s])
             = (IF own[s] # None THEN own[s] ELSE root[s])
  <2>1. CASE ~CursorCovered
    <3>1. FromCursor(t) = own
      BY <2>1, CursorIsOwn DEF CursorCovered
    <3> QED
      BY <1>2, <3>1
  <2>2. CASE CursorCovered
    <3>1. FromCursor(t)[s] = None
      BY <2>2, CursorIsOwn DEF NoServers
    <3>2. own[s] # None => own[s] = root[s]
      BY <2>2 DEF CursorCovered, Covers, NoServers
    <3> QED
      BY <1>2, <3>1, <3>2
  <2> QED
    BY <2>1, <2>2
<1> QED
  BY <1>1, <1>3 DEF Servers

(* The skills a hub of an unchanged repository has, and lists, are the repository's. *)
LEMMA SkillsAreItsOwn ==
  ASSUME HubInv, edits = 0, Scanned
  PROVE  /\ includes \cap SkillId = {Slug[d] : d \in {e \in Dir : source.skills[e] # {}}}
         /\ \A d \in Dir : HasSkill(d) => /\ Slug[d] \in SkillId
                                         /\ skills[Slug[d]] = {Here} \cup source.skills[d]
         /\ \A s \in SkillId : skills[s] # {} =>
              \E d \in Dir : /\ Slug[d] = s /\ HasSkill(d) /\ "SKILL.md" \in source.skills[d]
                            /\ skills[s] = {Here} \cup source.skills[d]
<1>1. \A d \in Dir : HasSkill(d) =>
        /\ Slug[d] \in SkillId /\ Slug[d] \in includes
        /\ skills[Slug[d]] = {Here} \cup source.skills[d]
  BY DEF HubInv, SkillInv, ImportedSkillsMirror, HasSkill, SkillId
<1>2. \A s \in SkillId : skills[s] # {} => \E d \in Dir : Slug[d] = s /\ HasSkill(d)
  BY DEF HubInv, Unedited, SkillsFromSource
<1>3. \A d \in Dir : HasSkill(d) => "SKILL.md" \in source.skills[d]
  BY DEF HubInv, Unedited, SkillsFromSource
<1>4. \A s \in includes \cap SkillId : skills[s] # {}
  BY DEF HubInv, RefsHaveAssets, Refs
<1> QED
  BY <1>1, <1>2, <1>3, <1>4 DEF HasSkill

(* The MCP files of such a hub can be read, and have the secrets its repository has. *)
LEMMA SecretsAreItsOwn ==
  ASSUME HubInv, edits = 0, Scanned
  PROVE  /\ \A f \in McpFile : mcps[f] # Unreadable
         /\ (\A f \in McpFile : ~HasSecret(mcps[f])) <=>
              ~HasSecret(RootFile) /\ ~HasSecret(source.cursor)
<1>1. /\ RepoConfig = RootFile /\ RootFile \in Config \cup {Absent}
      /\ mcps["repo-mcp.json"] = Absent \/ mcps["repo-mcp.yaml"] = Absent
  BY RepoIsRoot
<1>2. /\ ~CursorCovered => CursorFile = source.cursor /\ source.cursor \in Config
      /\ CursorCovered => CursorFile = Absent
  BY CursorIsOwn DEF Target
<1>3. ~HasSecret(Absent) /\ Absent # Unreadable /\ Unreadable \notin Config
  BY AbsentIsNoConfig DEF HasSecret
<1>4. CursorCovered /\ HasSecret(source.cursor) => HasSecret(RootFile)
  <2> SUFFICES ASSUME CursorCovered, HasSecret(source.cursor)
               PROVE  HasSecret(RootFile)
    OBVIOUS
  <2>1. PICK s \in Server : source.cursor[s] \in Secret
    BY DEF HasSecret
  <2>2. source.cursor # Absent
    BY <1>3
  <2>3. Covers(RootFile, source.cursor) /\ RootFile \in Config
    BY <1>1, <2>2 DEF CursorCovered, Covers
  <2>4. RootFile[s] = source.cursor[s]
    BY <2>1, <2>3, SecretsAreCommands DEF Covers
  <2> QED
    BY <2>1, <2>3, <2>4 DEF HasSecret
<1>5. \A f \in McpFile : mcps[f] \in {Absent, RootFile, CursorFile}
  BY <1>1 DEF McpFile, RepoConfig, CursorFile
<1>6. \E f \in McpFile : mcps[f] = RootFile
  BY <1>1 DEF McpFile, RepoConfig
<1>7. \E f \in McpFile : mcps[f] = CursorFile
  BY DEF McpFile, CursorFile
<1> HIDE DEF HasSecret, CursorCovered, RootFile, CursorFile
<1> QED
  BY <1>1, <1>2, <1>3, <1>4, <1>5, <1>6, <1>7

(* A hub of an unchanged repository compiles exactly if nothing of that is refused. *)
LEMMA HubCompiles ==
  ASSUME HubInv, edits = 0, Scanned
  PROVE  Compiles(Targets) <=> Acceptable(Targets)
<1>1. ~pluginEmpty
  BY DEF HubInv, PluginWhole, Scanned, ScanPc
<1>2. \A s \in SkillId : skills[s] # {} => "SKILL.md" \in skills[s]
  BY SkillsAreItsOwn
<1>3. (\A s \in SkillId : skills[s] # {} => "refused" \notin skills[s]) <=>
        \A d \in Dir : "refused" \notin source.skills[d]
  <2>1. "refused" # Here
    BY DEF Here
  <2> QED
    BY <2>1, SkillsAreItsOwn DEF HasSkill
<1>4. mcps["repo-mcp.json"] = Absent \/ mcps["repo-mcp.yaml"] = Absent
  BY RepoIsRoot
<1>5. sidecar # "absent" => mcps["cursor-mcp.json"] # Absent
  BY DEF HubInv, RefsHaveAssets, CursorFile
<1>6. Loads <=> /\ \A d \in Dir : "refused" \notin source.skills[d]
                /\ ~HasSecret(RootFile) /\ ~HasSecret(source.cursor)
  BY <1>1, <1>2, <1>3, <1>4, <1>5, SecretsAreItsOwn DEF Loads
<1>7. includes \subseteq Present
  <2>1. includes \subseteq Ref
    BY DEF HubInv, HubTypes, TypeOK, ScanTypeOK
  <2> QED
    BY <2>1 DEF HubInv, RefsHaveAssets, Refs, Ref, Present, CursorConfig, CursorFile
<1>8. ASSUME NEW t \in Targets PROVE Merges(t)
  <2>1. OnlyCursor \/ FromCursor(t) = NoServers
    BY CursorIsOwn, TargetsAreKnown
  <2> QED
    BY <2>1 DEF Merges, NoServers
<1>9. includes \cap SkillId = {Slug[d] : d \in {e \in Dir : source.skills[e] # {}}}
  BY SkillsAreItsOwn
<1> QED
  BY <1>6, <1>7, <1>8, <1>9 DEF Compiles, Acceptable

(* An unchanged repository is delivered as it declares itself, for any directories,
   ids, servers and targets, and after any number of scans and builds that died:
   the hub compiles exactly if validation refuses nothing of the repository, and
   what is built has the skills' files and the servers each target is to have.     *)
THEOREM RepositoryIsDelivered == Spec => []DeliveredIsDeclared
<1>1. HubInv => DeliveredIsDeclared
  <2> SUFFICES ASSUME HubInv, edits = 0, Scanned
               PROVE  /\ Compiles(Targets) <=> Acceptable(Targets)
                      /\ \A t \in Targets : Servers(t) = Declared(t)
                      /\ built => LET dist == out["dist"].from IN
                           /\ dist.servers = [t \in Targets |-> Declared(t)]
                           /\ \A d \in Dir : source.skills[d] # {} =>
                                dist.skills[Slug[d]] = {Here} \cup source.skills[d]
    BY DEF DeliveredIsDeclared
  <2>1. \A t \in Targets : Servers(t) = Declared(t)
    BY ServersAreDeclared, TargetsAreKnown
  <2>2. ASSUME built
        PROVE  /\ out["dist"].from.servers = [t \in Targets |-> Declared(t)]
               /\ \A d \in Dir : source.skills[d] # {} =>
                    out["dist"].from.skills[Slug[d]] = {Here} \cup source.skills[d]
    <3>1. out["dist"].from = Payload
      BY <2>2, PathsAre DEF HubInv, BuiltInv, WellBuilt, Piece, Generated
    <3>2. \A d \in Dir : source.skills[d] # {} =>
            /\ skills[Slug[d]] = {Here} \cup source.skills[d]
            /\ Slug[d] \in SkillId \cap includes
      BY DEF HubInv, SkillInv, ImportedSkillsMirror, SkillId
    <3> QED
      BY <2>1, <3>1, <3>2 DEF Payload
  <2> QED
    BY <2>1, <2>2, HubCompiles
<1>2. Init => /\ RefsHaveAssets /\ Unedited /\ SidecarFirst /\ PluginWhole /\ BuiltInv
              /\ HubTypes /\ SkillInv
  BY RefsInit, UneditedInit, BuiltInit, TypesInit, SkillInit
     DEF Init, ScanInit, SidecarFirst, Sidecar, PluginWhole
<1>3. HubInv /\ [Next]_vars => HubInv'
  BY SkillStep, SidecarStep, PluginStep, TypesStep, RefsStep, BuiltStep, UneditedStep DEF HubInv
<1>4. Init => HubInv
  BY <1>2 DEF HubInv
<1> QED
  BY <1>1, <1>3, <1>4, PTL DEF Spec
=============================================================================
