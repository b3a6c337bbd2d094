------------------------------- MODULE HubMC -------------------------------
(* Constants of HubBuild for TLC. *)
EXTENDS HubBuild, TLC

CONSTANTS d1, d2, d3, d4, x, c1, c2, secret

(* Two directories map to one id, as "Review Docs" and "review-docs" do, one to the
   id of the compiler's skill, and one holds a skill that calls itself like the
   first.                                                                          *)
Directories == <<d1, d2, d3, d4>>
Ids == [d \in {d1, d2, d3, d4} |->
          CASE d \in {d1, d2} -> "review" [] d = d3 -> "update" [] d = d4 -> "triage"]
Aliases == [s \in {"review", "update", "triage"} |-> IF s = "triage" THEN "REVIEW" ELSE NoName]

(* No skill, a whole one, a larger one with a link inside, and a directory without
   SKILL.md; the last two directories stay as they are.                            *)
SkillContents == {{}, {"SKILL.md"}, {"SKILL.md", "extra", "link"}, {"extra"}}
Edited == [d \in {d1, d2, d3, d4} |-> IF d \in {d1, d2} THEN SkillContents ELSE {}]

(* The two commands are alike. *)
AlikeCommands == Permutations({c1, c2})

(* No file, any configuration of one server without a secret, and a file nobody can
   read.                                                                           *)
AnyMcp == [{x} -> {c1, c2, None}] \cup {Absent, Unreadable}

(* At first only one root file, as the other would not be read, every MCP file
   readable, and nothing wrong in the second directory: edits bring the rest. *)
Repository(skillsOf, json, yaml, cursor) ==
  [skills |-> skillsOf, root |-> [json |-> json, yaml |-> yaml], cursor |-> cursor]
Ordinary ==
  {s \in [skills : [{d1, d2, d3, d4} -> SkillContents],
          root : [{"json", "yaml"} -> AnyMcp \ {Unreadable}], cursor : AnyMcp \ {Unreadable}] :
     /\ s.skills[d2] \in {{}, {"SKILL.md"}} /\ s.skills[d3] = {} /\ s.skills[d4] = {}
     /\ s.root["json"] = Absent \/ s.root["yaml"] = Absent}

(* What validation refuses: ids and names that clash, a file, and a secret. *)
Clashing ==
  {Repository(k, Absent, Absent, Absent) :
     k \in {f \in [{d1, d2, d3, d4} -> {{}, {"SKILL.md"}}] : f[d2] = {}}}
Refusable ==
  {Repository([d \in {d1, d2, d3, d4} |-> IF d = d1 THEN {"SKILL.md", "refused"} ELSE {}],
              Absent, Absent, Absent)}
Secrets ==
  {Repository([d \in {d1, d2, d3, d4} |-> {}], config[1], config[2], config[3]) :
     config \in [1 .. 3 -> {Absent, [s \in {x} |-> secret]}]}
AnySource == Ordinary \cup Clashing \cup Refusable \cup Secrets

(* Rendered names, one of them also in capitals. *)
Names == {"review", "REVIEW", "update", "triage"}
LowerCase == [n \in Names |-> IF n = "REVIEW" THEN "review" ELSE n]

(* PluginRendering has no steps: TLC evaluates its property once. *)
ASSUME RenderedApart == AcceptedAreApart
=============================================================================
