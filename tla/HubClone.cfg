\* A hub for Claude only, with no MCP files: build, commit, clone, check.
CONSTANTS
  d1 = d1
  d2 = d2
  d3 = d3
  d4 = d4
  x = x
  c1 = c1
  c2 = c2
  secret = secret
  None = None
  Absent = Absent
  Unreadable = Unreadable
  NoName = NoName
  SkillDirs <- Directories
  Slug <- Ids
  Alias <- Aliases
  Server = {x}
  Command = {c1, c2, secret}
  Secret = {secret}
  MaxEdits = 0
  MaxDeaths = 0
  Targets = {"claude"}
  Sources <- AnySource
  Contents <- Edited
  McpContents <- AnyMcp
  Name <- Names
  Fold <- LowerCase
  Managed = "update"
SPECIFICATION Spec
INVARIANT CommittedOutputPasses
