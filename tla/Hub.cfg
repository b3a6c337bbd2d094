\* A hub for all targets; four directories, of which two have one id, one has the
\* reserved id and one the name of another; one server, with and without a secret;
\* the repository changes once, one command dies.
CONSTANTS
  d1 = d1
  d2 = d2
  d3 = d3
  d4 = d4
  x = x
  c1 = c1
  c2 = c2
  secret = secret
  None = None
  Absent = Absent
  Unreadable = Unreadable
  NoName = NoName
  SkillDirs <- Directories
  Slug <- Ids
  Alias <- Aliases
  Server = {x}
  Command = {c1, c2, secret}
  Secret = {secret}
  MaxEdits = 1
  MaxDeaths = 1
  Targets = {"claude", "codex", "cursor", "gemini"}
  Sources <- AnySource
  Contents <- Edited
  McpContents <- AnyMcp
  Name <- Names
  Fold <- LowerCase
  Managed = "update"
SPECIFICATION Spec
SYMMETRY AlikeCommands
INVARIANTS TypeOK ImportedSkillsMirror CursorOnlyStaysOnCursor DeliveredIsDeclared CommittedOutputPasses
