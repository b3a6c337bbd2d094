------------------------------ MODULE HubBuild ------------------------------
(***************************************************************************)
(* `pig build', `pig build --check' and the hub's git repository           *)
(* (compiler.py, fs.py, the marketplaces of render/plugins.py).            *)
(*                                                                         *)
(* A build compiles the hub in a temporary directory and then replaces the *)
(* six generated paths one by one; it may die in between.  A check         *)
(* compiles again and compares path by path.  Commands run one after the   *)
(* other: nobody scans while a build runs.                                 *)
(*                                                                         *)
(* Abstracted: what is generated is what it was compiled from, with the    *)
(* path it is for.  Git is external: it keeps files, and no directory      *)
(* without files.                                                          *)
(***************************************************************************)
EXTENDS HubScan

CONSTANTS
  Targets,       \* targets of hub.yaml
  Sources,       \* what the repository may be at first
  Contents,      \* what each skill's directory may be edited to
  McpContents    \* what an MCP file may be edited to

ASSUME TargetsAreKnown == Targets # {} /\ Targets \subseteq Target
ASSUME SourcesAreSources ==
  /\ Sources \subseteq Source
  /\ Contents \in [Dir -> SUBSET SUBSET File] /\ McpContents \subseteq Config \cup {Absent, Unreadable}

VARIABLES
  out,           \* the generated paths in the worktree
  compiled,      \* what the running build generated, or Nothing
  path,          \* how many paths it has replaced
  built          \* the last build ended well, and the hub is as it found it

buildVars == <<out, compiled, path, built>>
vars == <<source, hubVars, scanVars, counts, buildVars>>

(* GENERATED_PATHS. *)
Paths == <<"dist", ".agents/plugins", ".claude-plugin", ".cursor-plugin",
           "hub.release.json", "hub.stable.json">>
Path == {Paths[i] : i \in 1 .. Len(Paths)}
MarketplaceOf == [p \in {".agents/plugins", ".claude-plugin", ".cursor-plugin"} |->
                    CASE p = ".agents/plugins" -> "codex"
                      [] p = ".claude-plugin" -> "claude"
                      [] p = ".cursor-plugin" -> "cursor"]

Nothing == [is |-> "nothing"]
Broken == [is |-> "broken"]          \* removed, or copied in part
EmptyDir == [is |-> "empty directory"]
Listing == [is |-> "listing"]        \* plugin ids and names, no contents
Generated(p, from) == [is |-> p, from |-> from]

(* What the compiler makes of the included assets for each target. *)
Payload == [skills |-> [s \in SkillId \cap includes |-> skills[s]],
            servers |-> [t \in Targets |-> Servers(t)]]

(* render_target_plugins, write_release_files: the three marketplaces'
   directories are made for any targets, their files for those there are.     *)
Piece(p, from) ==
  IF p \notin DOMAIN MarketplaceOf THEN Generated(p, from)
  ELSE IF MarketplaceOf[p] \in Targets THEN Listing ELSE EmptyDir

(* init_hub makes the directories. *)
Init ==
  /\ source \in Sources
  /\ ScanInit
  /\ out = [p \in Path |-> IF p \in DOMAIN MarketplaceOf \cup {"dist"} THEN EmptyDir ELSE Nothing]
  /\ compiled = Nothing
  /\ path = 0
  /\ built = FALSE
-----------------------------------------------------------------------------
(* validate_hub and _compile_hub: nothing of the worktree changes when either
   fails.                                                                     *)
BeginBuild ==
  /\ pc = "idle" /\ Compiles(Targets)
  /\ pc' = "build"
  /\ compiled' = Payload /\ path' = 0
  /\ built' = FALSE
  /\ UNCHANGED <<source, hubVars, dir, copied, found, rootServers, scanned, counts, out>>

(* replace_tree: the old tree goes first. *)
RemovePath ==
  /\ pc = "build" /\ path < Len(Paths)
  /\ pc' = "replace"
  /\ out' = [out EXCEPT ![Paths[path + 1]] = Broken]
  /\ UNCHANGED <<source, hubVars, dir, copied, found, rootServers, scanned, counts, compiled,
                 path, built>>

(* Mistake: what was generated for the path before. *)
CopyPathBefore ==
  /\ pc = "replace"
  /\ pc' = "build" /\ path' = path + 1
  /\ out' = [out EXCEPT ![Paths[path + 1]] = Piece(Paths[IF path = 0 THEN 1 ELSE path], compiled)]
  /\ UNCHANGED <<source, hubVars, dir, copied, found, rootServers, scanned, counts, compiled,
                 built>>

CopyPath ==
  /\ pc = "replace"
  /\ pc' = "build" /\ path' = path + 1
  /\ out' = [out EXCEPT ![Paths[path + 1]] = Piece(Paths[path + 1], compiled)]
  /\ UNCHANGED <<source, hubVars, dir, copied, found, rootServers, scanned, counts, compiled,
                 built>>

(* Mistake: the last path is forgotten. *)
EndBuildEarly ==
  /\ pc = "build" /\ path = Len(Paths) - 1
  /\ pc' = "idle" /\ path' = 0
  /\ compiled' = Nothing
  /\ built' = TRUE
  /\ UNCHANGED <<source, hubVars, dir, copied, found, rootServers, scanned, counts, out>>

EndBuild ==
  /\ pc = "build" /\ path = Len(Paths)
  /\ pc' = "idle" /\ path' = 0
  /\ compiled' = Nothing
  /\ built' = TRUE
  /\ UNCHANGED <<source, hubVars, dir, copied, found, rootServers, scanned, counts, out>>

BuildDies ==
  /\ pc \in {"build", "replace"}
  /\ deaths < MaxDeaths /\ deaths' = deaths + 1
  /\ pc' = "idle" /\ path' = 0
  /\ compiled' = Nothing
  /\ UNCHANGED <<source, hubVars, dir, copied, found, rootServers, scanned, edits, out, built>>

Scan ==
  /\ ScanStep \/ ScanDies \/ RestorePlugin
  /\ built' = FALSE
  /\ UNCHANGED <<out, compiled, path>>

Edit == EditSource(Contents, McpContents) /\ UNCHANGED buildVars

Next == Scan \/ Edit \/ BeginBuild \/ RemovePath \/ CopyPath \/ EndBuild \/ BuildDies

Spec == Init /\ [][Next]_vars
-----------------------------------------------------------------------------
(* The type invariant; what was generated is there only while a build runs. *)
TypeOK ==
  /\ ScanTypeOK
  /\ compiled # Nothing <=> pc \in {"build", "replace"}
  /\ pc \in ScanPc \cup {"build", "replace"}
  /\ path \in 0 .. Len(Paths) /\ built \in BOOLEAN
  /\ \A p \in Path : out[p].is \in {"nothing", "broken", "empty directory", "listing", p}

(* build_hub(check=True): what is there equals, path by path, what would be
   built now; a directory without files is not the same as none (trees_equal). *)
CheckPasses(worktree) ==
  /\ Compiles(Targets)
  /\ \A p \in Path : worktree[p] = Piece(p, Payload)

(* External: what a clone has of a commit. *)
Cloned(worktree) == [p \in Path |-> IF worktree[p] = EmptyDir THEN Nothing ELSE worktree[p]]

(* A repository that was scanned and did not change since the hub was made: the
   hub compiles exactly if the repository has nothing that validation refuses, and
   what is built gives every target the skills as they are and the servers the
   repository declares for it, whatever died before.                              *)
DeliveredIsDeclared ==
  edits = 0 /\ Scanned =>
    /\ Compiles(Targets) <=> Acceptable(Targets)
    /\ \A t \in Targets : Servers(t) = Declared(t)
    /\ built => LET dist == out["dist"].from IN
         /\ dist.servers = [t \in Targets |-> Declared(t)]
         /\ \A d \in Dir : source.skills[d] # {} =>
              dist.skills[Slug[d]] = {Here} \cup source.skills[d]

(* A hub whose generated output is committed right after a build proves it
   current in every clone.                                                   *)
CommittedOutputPasses == built => CheckPasses(Cloned(out))
=============================================================================
