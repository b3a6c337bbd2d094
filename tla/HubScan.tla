------------------------------ MODULE HubScan ------------------------------
(***************************************************************************)
(* `pig scan': reusable assets of a source repository are imported into    *)
(* the hub (scan/hub.py), which then loads and merges them like authored   *)
(* ones (assets.py, validate/hub.py, render/mcp.py).                       *)
(*                                                                         *)
(* A scan replaces the skills of the same id, copies the MCP files of the  *)
(* repository and of Cursor, and at last adds what it imported to the PIG  *)
(* plugin.  It can die between any two writes, and within one: the MCP     *)
(* files, the sidecar and the plugin are truncated and then written in     *)
(* place, by one write.  It stops at the first thing it cannot import.     *)
(*                                                                         *)
(* Abstracted: a skill's directory is the set of its files; what makes a   *)
(* path unfit for import (a link, a path outside) is one kind of file      *)
(* ("link"), what validation does not accept (a literal secret in a        *)
(* structured file, a malformed one, an asset.yaml for another id, type or *)
(* mode) another ("refused"); an asset.yaml it accepts narrows nothing,    *)
(* front matter is readable.  A configuration nobody can read is           *)
(* Unreadable.  rmtree and a copied file of a skill are one step each.     *)
(* The inventory of context files is left out: nothing reads it.           *)
(***************************************************************************)
EXTENDS Integers, Sequences, PluginRendering

CONSTANTS
  SkillDirs,     \* directories of .agents/skills, as a sequence in the order of their names
  Slug,          \* _slugify: the asset id a directory maps to
  Alias,         \* the name a skill's SKILL.md gives it, or NoName
  Server,        \* names of MCP servers
  Command,       \* what a server may be configured to
  Secret,        \* the ones among them with a literal secret
  None,          \* no such server
  Absent,        \* no such file
  Unreadable,    \* a file that is no configuration
  MaxEdits,      \* bound: changes of the source repository
  MaxDeaths      \* bound: scans and builds that die

Dir == {SkillDirs[i] : i \in 1 .. Len(SkillDirs)}
SkillId == {Slug[d] : d \in Dir}
Files == <<"SKILL.md", "extra", "refused", "link">>   \* in the order they are copied in
File == {Files[i] : i \in 1 .. Len(Files)}
Config == [Server -> Command \cup {None}]
Suffix == {"json", "yaml"}
McpFile == {"repo-mcp.json", "repo-mcp.yaml", "cursor-mcp.json"}
Ref == SkillId \cup {"repo-mcp", "cursor-mcp"}

ASSUME DirsAreInOrder == SkillDirs \in Seq(Dir)
(* A reference names the type of its asset. *)
ASSUME RefsHaveTypes == SkillId \cap {"repo-mcp", "cursor-mcp"} = {}
ASSUME DirsHaveSlugs == Slug \in [Dir -> SkillId]
ASSUME SkillsHaveNames == SkillId \subseteq Name /\ Alias \in [SkillId -> Name \cup {NoName}]
ASSUME SecretsAreCommands == Secret \subseteq Command /\ None \notin Secret
ASSUME AbsentIsNoConfig == Absent \notin Config /\ Unreadable \notin Config \cup {Absent}
ASSUME BoundsAreNat == MaxEdits \in Nat /\ MaxDeaths \in Nat

VARIABLES
  source,        \* the repository: skills, root MCP files by suffix, Cursor's
  skills,        \* assets/skills: files by asset id; {} is no directory
  mcps,          \* assets/mcps
  sidecar,       \* cursor-mcp.asset.yaml
  includes,      \* of plugins/pig.yaml
  pluginEmpty,   \* plugins/pig.yaml has no contents
  pc, dir, copied,   \* step of the command that runs, directory, files copied
  found,         \* what this scan has imported
  rootServers,   \* what it read of the root MCP file, or Absent
  scanned,       \* the current scan, or the last one, met no error so far, and
                 \* the source did not change since it began
  edits, deaths

hubVars == <<skills, mcps, sidecar, includes, pluginEmpty>>
scanVars == <<pc, dir, copied, found, rootServers, scanned>>
counts == <<edits, deaths>>

Source == [skills : [Dir -> SUBSET File],
           root : [Suffix -> Config \cup {Absent, Unreadable}],
           cursor : Config \cup {Absent, Unreadable}]
ScanPc == {"idle", "skill", "copy", "root", "root copy", "cursor", "cursor copy", "cursor only",
           "sidecar", "plugin", "plugin write"}
Sidecar == {"absent", "empty", "cursor only"}
Here == "."      \* the directory itself

ScanTypeOK ==
  /\ source \in Source
  /\ skills \in [SkillId -> SUBSET (File \cup {Here})]
  /\ mcps \in [McpFile -> Config \cup {Absent, Unreadable}]
  /\ sidecar \in Sidecar /\ pluginEmpty \in BOOLEAN /\ scanned \in BOOLEAN
  /\ includes \in SUBSET Ref /\ found \in SUBSET Ref
  /\ rootServers \in Config \cup {Absent}
  /\ dir \in 1 .. Len(SkillDirs) + 1 /\ copied \in 0 .. Len(Files)
  /\ edits \in 0 .. MaxEdits /\ deaths \in 0 .. MaxDeaths

(* init_hub, and a repository the hub does not know. *)
ScanInit ==
  /\ skills = [s \in SkillId |-> {}]
  /\ mcps = [f \in McpFile |-> Absent]
  /\ sidecar = "absent" /\ pluginEmpty = FALSE /\ scanned = FALSE
  /\ includes = {} /\ found = {}
  /\ rootServers = Absent
  /\ pc = "idle" /\ dir = 1 /\ copied = 0
  /\ edits = 0 /\ deaths = 0
-----------------------------------------------------------------------------
(* scan_hub: the hub's configuration is valid; load_plugins takes no plugin without
   an id.                                                                           *)
BeginScan ==
  /\ pc = "idle" /\ ~pluginEmpty /\ pc' = "skill"
  /\ scanned' = TRUE
  /\ UNCHANGED <<source, hubVars, dir, copied, found, rootServers, counts>>

(* The command is over; nothing of its own stays. *)
Over ==
  /\ pc' = "idle" /\ dir' = 1 /\ copied' = 0
  /\ found' = {} /\ rootServers' = Absent

(* An InstructionHubError: what was written stays. *)
ScanFails == Over /\ scanned' = FALSE

(* _import_skills: a directory without SKILL.md and a second one with the same
   id end the scan before anything of theirs is touched; else the destination
   is emptied.                                                                *)
ThisDir == SkillDirs[dir]
ThisSkill == Slug[ThisDir]
Refused == "SKILL.md" \notin source.skills[ThisDir] \/ ThisSkill \in found

NextDir ==
  /\ pc = "skill"
  /\ \/ dir > Len(SkillDirs) /\ pc' = "root" /\ UNCHANGED dir
     \/ dir <= Len(SkillDirs) /\ source.skills[ThisDir] = {} /\ dir' = dir + 1 /\ UNCHANGED pc
  /\ UNCHANGED <<source, hubVars, copied, found, rootServers, scanned, counts>>

RefuseSkill ==
  /\ pc = "skill" /\ dir <= Len(SkillDirs)
  /\ source.skills[ThisDir] # {} /\ Refused
  /\ ScanFails
  /\ UNCHANGED <<source, hubVars, counts>>

(* Mistake: files the source no longer has stay. *)
KeepOldFiles ==
  /\ pc = "skill" /\ dir <= Len(SkillDirs)
  /\ source.skills[ThisDir] # {} /\ ~Refused
  /\ skills' = [skills EXCEPT ![ThisSkill] = @ \cup {Here}]
  /\ pc' = "copy"
  /\ UNCHANGED <<source, mcps, sidecar, includes, pluginEmpty, dir, copied, found, rootServers,
                 scanned, counts>>

EmptyDestination ==
  /\ pc = "skill" /\ dir <= Len(SkillDirs)
  /\ source.skills[ThisDir] # {} /\ ~Refused
  /\ skills' = [skills EXCEPT ![ThisSkill] = {Here}]
  /\ pc' = "copy"
  /\ UNCHANGED <<source, mcps, sidecar, includes, pluginEmpty, dir, copied, found, rootServers,
                 scanned, counts>>

(* _copy_skill_tree, one file after the other. *)
NextCopied == Files[copied + 1]
CopyFile ==
  /\ pc = "copy" /\ copied < Len(Files)
  /\ NextCopied \in source.skills[ThisDir] => NextCopied # "link"
  /\ skills' = [skills EXCEPT ![ThisSkill] = @ \cup ({NextCopied} \cap source.skills[ThisDir])]
  /\ copied' = copied + 1
  /\ UNCHANGED <<source, mcps, sidecar, includes, pluginEmpty, pc, dir, found, rootServers,
                 scanned, counts>>

(* The half of the skill that was copied stays. *)
MeetLink ==
  /\ pc = "copy" /\ copied < Len(Files)
  /\ NextCopied = "link" /\ "link" \in source.skills[ThisDir]
  /\ ScanFails
  /\ UNCHANGED <<source, hubVars, counts>>

SkillImported ==
  /\ pc = "copy" /\ copied = Len(Files)
  /\ found' = found \cup {ThisSkill}
  /\ pc' = "skill" /\ dir' = dir + 1 /\ copied' = 0
  /\ UNCHANGED <<source, hubVars, rootServers, scanned, counts>>
-----------------------------------------------------------------------------
(* _import_mcp_configs: the first root file there is, under its own suffix.  The
   copy opens the old file and so empties it: a YAML file is then a mapping
   without servers, a JSON file unreadable.                                   *)
RootSuffix == IF source.root["json"] # Absent THEN "json" ELSE "yaml"
RootFile == source.root[RootSuffix]
Imported == [json |-> "repo-mcp.json", yaml |-> "repo-mcp.yaml"]
NoServers == [s \in Server |-> None]
Emptied == [json |-> Unreadable, yaml |-> NoServers]

ReadRoot ==
  /\ pc = "root" /\ RootFile # Unreadable
  /\ rootServers' = RootFile
  /\ IF RootFile = Absent THEN pc' = "cursor" /\ UNCHANGED mcps
     ELSE /\ pc' = "root copy"
          /\ mcps' = [mcps EXCEPT ![Imported[RootSuffix]] = Emptied[RootSuffix]]
  /\ UNCHANGED <<source, skills, sidecar, includes, pluginEmpty, dir, copied, found, scanned, counts>>

CopyRoot ==
  /\ pc = "root copy" /\ pc' = "cursor"
  /\ mcps' = [mcps EXCEPT ![Imported[RootSuffix]] = RootFile]
  /\ found' = found \cup {"repo-mcp"}
  /\ UNCHANGED <<source, skills, sidecar, includes, pluginEmpty, dir, copied, rootServers, scanned,
                 counts>>

(* Mistake: only the names are compared. *)
CoversNames(root, config) ==
  root # Absent /\ \A s \in Server : config[s] # None => root[s] # None

(* _mcp_servers_subset, and a root file that has servers at all. *)
Covers(root, config) ==
  /\ root # Absent /\ \E s \in Server : root[s] # None
  /\ \A s \in Server : config[s] # None => root[s] = config[s]

CursorAddsNothing ==
  source.cursor = Absent \/ (source.cursor # Unreadable /\ Covers(rootServers, source.cursor))

ReadCursor ==
  /\ pc = "cursor" /\ source.cursor # Unreadable
  /\ IF CursorAddsNothing THEN pc' = "plugin" /\ UNCHANGED mcps
     ELSE pc' = "cursor copy" /\ mcps' = [mcps EXCEPT !["cursor-mcp.json"] = Emptied["json"]]
  /\ UNCHANGED <<source, skills, sidecar, includes, pluginEmpty, dir, copied, found, rootServers,
                 scanned, counts>>

CopyCursor ==
  /\ pc = "cursor copy" /\ pc' = "cursor only"
  /\ mcps' = [mcps EXCEPT !["cursor-mcp.json"] = source.cursor]
  /\ UNCHANGED <<source, skills, sidecar, includes, pluginEmpty, dir, copied, found, rootServers,
                 scanned, counts>>

(* Nobody can read the file: an error. *)
RefuseMcp ==
  /\ \/ pc = "root" /\ RootFile = Unreadable
     \/ pc = "cursor" /\ source.cursor = Unreadable
  /\ ScanFails
  /\ UNCHANGED <<source, hubVars, counts>>

(* Mistake: the sidecar is not written. *)
NoSidecar ==
  /\ pc = "cursor only" /\ pc' = "plugin"
  /\ found' = found \cup {"cursor-mcp"}
  /\ UNCHANGED <<source, hubVars, dir, copied, rootServers, scanned, counts>>

(* The sidecar that keeps Cursor's servers from the other targets (write_yaml). *)
OpenSidecar ==
  /\ pc = "cursor only" /\ pc' = "sidecar"
  /\ sidecar' = "empty"
  /\ UNCHANGED <<source, skills, mcps, includes, pluginEmpty, dir, copied, found, rootServers,
                 scanned, counts>>

WriteSidecar ==
  /\ pc = "sidecar" /\ pc' = "plugin"
  /\ sidecar' = "cursor only"
  /\ found' = found \cup {"cursor-mcp"}
  /\ UNCHANGED <<source, skills, mcps, includes, pluginEmpty, dir, copied, rootServers, scanned,
                 counts>>

(* _update_pig_plugin: references are added, never taken away; the file they are
   in is emptied before it has them.                                            *)
OpenPlugin ==
  /\ pc = "plugin" /\ pc' = "plugin write"
  /\ found' = found \cup includes
  /\ includes' = {} /\ pluginEmpty' = TRUE
  /\ UNCHANGED <<source, skills, mcps, sidecar, dir, copied, rootServers, scanned, counts>>

WritePlugin ==
  /\ pc = "plugin write"
  /\ includes' = found /\ pluginEmpty' = FALSE
  /\ Over
  /\ UNCHANGED <<source, skills, mcps, sidecar, scanned, counts>>

(* External: neither a scan nor a build takes an empty plugin; somebody removes
   it, and `pig init' makes it anew.                                           *)
RestorePlugin ==
  /\ pc = "idle" /\ pluginEmpty /\ pluginEmpty' = FALSE
  /\ UNCHANGED <<source, skills, mcps, sidecar, includes, scanVars, counts>>

(* Someone changes the repository: one skill, or one MCP file; while such a file
   is copied, which has been opened then, it is as if right after.             *)
EditSource(contents, configs) ==
  /\ edits < MaxEdits /\ edits' = edits + 1
  /\ pc \notin {"root copy", "cursor copy"}
  /\ scanned' = FALSE
  /\ \/ \E d \in Dir : \E c \in contents[d] : source' = [source EXCEPT !.skills[d] = c]
     \/ \E f \in Suffix, c \in configs : source' = [source EXCEPT !.root[f] = c]
     \/ \E c \in configs : source' = [source EXCEPT !.cursor = c]
  /\ UNCHANGED <<hubVars, pc, dir, copied, found, rootServers, deaths>>

ScanStep ==
  \/ BeginScan \/ NextDir \/ RefuseSkill \/ EmptyDestination \/ CopyFile \/ MeetLink
  \/ SkillImported \/ ReadRoot \/ CopyRoot \/ ReadCursor \/ CopyCursor \/ RefuseMcp
  \/ OpenSidecar \/ WriteSidecar \/ OpenPlugin \/ WritePlugin

(* The process is killed. *)
ScanDies ==
  /\ pc \in ScanPc \ {"idle"}
  /\ deaths < MaxDeaths /\ deaths' = deaths + 1
  /\ ScanFails
  /\ UNCHANGED <<source, hubVars, edits>>
-----------------------------------------------------------------------------
(* load_plugins; load_assets and what is checked of every asset: a skill's
   directory has a SKILL.md, no two files are one asset, a sidecar has its file,
   every file can be read and has no literal secret.                            *)
HasSecret(config) == config \in Config /\ \E s \in Server : config[s] \in Secret
Loads ==
  /\ ~pluginEmpty
  /\ \A s \in SkillId : skills[s] # {} => "SKILL.md" \in skills[s] /\ "refused" \notin skills[s]
  /\ mcps["repo-mcp.json"] = Absent \/ mcps["repo-mcp.yaml"] = Absent
  /\ sidecar # "absent" => mcps["cursor-mcp.json"] # Absent
  /\ \A f \in McpFile : mcps[f] # Unreadable /\ ~HasSecret(mcps[f])

(* The MCP asset of the repository, whichever file it is. *)
RepoConfig == IF mcps["repo-mcp.json"] # Absent THEN mcps["repo-mcp.json"]
                                               ELSE mcps["repo-mcp.yaml"]
CursorConfig == mcps["cursor-mcp.json"]

(* The servers a target gets from an asset that is included and supports it.  An
   empty sidecar says nothing of the targets, and so stands for all of them
   (_merge_default_support).                                                    *)
OnlyCursor == sidecar = "cursor only"
FromRepo == IF "repo-mcp" \in includes /\ RepoConfig \in Config THEN RepoConfig ELSE NoServers
FromCursor(t) ==
  IF "cursor-mcp" \in includes /\ CursorConfig \in Config /\ (OnlyCursor => t = "cursor")
  THEN CursorConfig ELSE NoServers

(* collect_mcp_servers: an asset for this target only goes before one for all;
   of two equals neither does.                                                *)
Merges(t) == OnlyCursor \/ \A s \in Server : FromRepo[s] = None \/ FromCursor(t)[s] = None
Servers(t) == [s \in Server |-> IF FromCursor(t)[s] # None THEN FromCursor(t)[s] ELSE FromRepo[s]]

(* The skills as the assets of the PIG plugin: copied as they are for any target
   (default_skill_support), and none the compiler's own.                        *)
SkillAsset(s) == [type |-> "skill", id |-> s, name |-> s, alias |-> Alias[s], mode |-> "agent-skill"]
GetAlong(ids, targets) ==
  /\ Managed \notin ids
  /\ \A t \in targets : Accepted({SkillAsset(s) : s \in ids}, TRUE, t)

(* validate_hub and the part of rendering that can fail: every reference is an
   asset.                                                                      *)
Present == {s \in SkillId : skills[s] # {}}
           \cup (IF RepoConfig # Absent THEN {"repo-mcp"} ELSE {})
           \cup (IF CursorConfig # Absent THEN {"cursor-mcp"} ELSE {})
Compiles(targets) ==
  /\ Loads /\ includes \subseteq Present
  /\ GetAlong(includes \cap SkillId, targets)
  /\ \A t \in targets : Merges(t)

(* What the repository itself declares for a target: Cursor's own file goes
   before the root's.                                                       *)
Declared(t) ==
  LET root == IF RootFile = Absent THEN NoServers ELSE RootFile
      own == IF t = "cursor" /\ source.cursor # Absent THEN source.cursor ELSE NoServers
  IN  [s \in Server |-> IF own[s] # None THEN own[s] ELSE root[s]]

(* What a repository has to be for a hub of it to be valid: no secrets, nothing
   else that is refused, and skills that can be told apart.                     *)
Acceptable(targets) ==
  /\ \A d \in Dir : "refused" \notin source.skills[d]
  /\ ~HasSecret(RootFile) /\ ~HasSecret(source.cursor)
  /\ GetAlong({Slug[d] : d \in {e \in Dir : source.skills[e] # {}}}, targets)

(* A scan that ended well. *)
Scanned == scanned /\ pc \notin ScanPc \ {"idle"}

(* After a scan the hub has exactly the skills' files and lists the skills,
   whatever failed or half-done scans left there before.                    *)
ImportedSkillsMirror ==
  Scanned => \A d \in Dir : source.skills[d] # {} =>
    /\ skills[Slug[d]] = {Here} \cup source.skills[d]
    /\ Slug[d] \in includes

(* Cursor's servers reach no other target, also when a scan dies or meets an error
   after it copied them; only while a scan rewrites the sidecar, and when it died
   in that, nothing keeps them to Cursor.                                         *)
CursorOnlyStaysOnCursor ==
  sidecar # "empty" => \A t \in Target \ {"cursor"}, s \in Server :
    Servers(t)[s] # None => Servers(t)[s] = FromRepo[s]

=============================================================================
