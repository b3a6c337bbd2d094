-------------------------- MODULE PluginRendering --------------------------
(***************************************************************************)
(* Where the assets of one plugin go for one target, and what validation   *)
(* makes sure of before (validate/hub.py, render/assets.py, commands.py,   *)
(* managed_skills.py).  Two pieces of code work out the same places: the   *)
(* validation, in which commands and skills claim a destination and the    *)
(* name they are invoked by, and the renderer, which writes without        *)
(* looking at what is there.                                               *)
(*                                                                         *)
(* An asset is taken as one target sees it: its type, its id, the name of  *)
(* its file or directory (a verbatim command's without the suffix, which   *)
(* is the target's), the name a skill gives itself (or NoName), and the    *)
(* target's support mode.  Abstracted: what is written.                    *)
(***************************************************************************)
CONSTANTS
  Name,          \* ids and file names
  NoName,        \* a skill that gives itself no name
  Fold,          \* the name without case, as validation compares it
  Managed        \* id of the compiler's own update skill

ASSUME FoldIsOnNames == Fold \in [Name -> Name] /\ Managed \in Name /\ NoName \notin Name

Target == {"claude", "codex", "cursor", "gemini"}

(* _validate_support_modes; hooks and MCP assets go elsewhere. *)
Modes(type, t) ==
  CASE type = "skill" -> {"agent-skill", "native", "projected", "unsupported"}
    [] type = "rule" -> {"native", "projected", "unsupported"}
    [] type = "agent" -> {"native", "projected", "unsupported"}
                         \cup (IF t = "codex" THEN {"agent-skill"} ELSE {})
    [] type = "command" -> {"native", "projected", "unsupported"}
                           \cup (IF t = "codex" THEN {} ELSE {"verbatim"})
Assets(t) ==
  {a \in [type : {"skill", "rule", "agent", "command"}, id : Name, name : Name,
          alias : Name \cup {NoName},
          mode : {"agent-skill", "native", "verbatim", "projected", "unsupported"}] :
     a.mode \in Modes(a.type, t) /\ (a.alias # NoName => a.type = "skill")}
-----------------------------------------------------------------------------
(* _validate_invocation_destinations: who claims a name, ... *)
Claims(a, t) ==
  \/ a.mode = "agent-skill"
  \/ a.type = "skill" /\ a.mode = "native" /\ t # "cursor"
  \/ a.type = "command" /\ a.mode \in {"native", "verbatim"}

(* ... which one, in which directory, ... *)
ClaimedName(a) ==
  IF a.mode = "agent-skill" \/ (a.type = "command" /\ a.mode = "native") THEN a.id ELSE a.name
ClaimedDirectory(a, t) ==
  IF a.mode = "verbatim" \/ (a.type = "command" /\ a.mode = "native" /\ t = "gemini")
  THEN "commands" ELSE "skills"
Destination(a, t) == <<ClaimedDirectory(a, t), Fold[ClaimedName(a)]>>

(* ... and how it is invoked (_authored_skill_name). *)
Invocation(a) ==
  Fold[IF a.type = "skill" /\ a.alias # NoName THEN a.alias ELSE ClaimedName(a)]

(* Two assets of a plugin get along; an asset leaves the place of the update
   skill, which every target's menu has, alone.                              *)
Compatible(a, b, t) ==
  Claims(a, t) /\ Claims(b, t) =>
    Destination(a, t) # Destination(b, t) /\ Invocation(a) # Invocation(b)
LeavesUpdateSkill(a, t) ==
  Claims(a, t) => /\ Destination(a, t) # <<"skills", Fold[Managed]>>
                  /\ Invocation(a) # Fold[Managed]

(* Validation accepts the plugin for the target; pig: it is the PIG plugin. *)
Accepted(plugin, pig, t) ==
  /\ \A a, b \in plugin : a # b => Compatible(a, b, t)
  /\ pig => \A a \in plugin : LeavesUpdateSkill(a, t)
-----------------------------------------------------------------------------
(* directory_for. *)
DirectoryFor(type) ==
  CASE type = "skill" -> "skills" [] type = "rule" -> "rules"
    [] type = "agent" -> "agents" [] type = "command" -> "commands"

(* render_command. *)
CommandPlace(a, t) == <<IF t = "gemini" THEN "commands" ELSE "skills", a.id>>

(* render_assets_for_target: where the asset is written. *)
Rendered(a, t) ==
  CASE a.mode = "unsupported" -> {}
    [] a.type = "command" /\ a.mode = "native" ->
         {CommandPlace(a, t)}
    [] a.mode = "agent-skill" -> {<<"skills", a.id>>}
    [] t = "cursor" /\ a.mode \in {"projected", "native"} /\ a.type \in {"skill", "rule"} ->
         {<<"rules", a.id>>}
    [] a.mode = "verbatim" \/ (a.mode = "native" /\ a.type # "command"
                                 /\ ~(t = "cursor" /\ a.type \in {"skill", "rule"})) ->
         {<<DirectoryFor(a.type), a.name>>}
    [] a.mode = "projected" /\ ~(t = "cursor" /\ a.type \in {"skill", "rule"}) ->
         {<<"projected", a.id>>}

(* On a file system that ignores case. *)
Written(a, t) == {<<place[1], Fold[place[2]]>> : place \in Rendered(a, t)}
Invoked == {"skills", "commands"}

(* What validation has accepted is written side by side: no command, skill or
   converted agent replaces another, and render_managed_skills finds the place
   of the update skill free.  (Rules and projections are not compared: see the
   hazards.)                                                                   *)
AcceptedIsApart(plugin, pig, t) ==
  Accepted(plugin, pig, t) =>
    /\ \A a, b \in plugin : a # b =>
         \A place \in Written(a, t) \cap Written(b, t) : place[1] \notin Invoked
    /\ pig => \A a \in plugin : <<"skills", Fold[Managed]>> \notin Written(a, t)

(* Any two assets, for any target, as the PIG plugin or another one. *)
AcceptedAreApart ==
  \A t \in Target : \A a, b \in Assets(t) : \A pig \in BOOLEAN : AcceptedIsApart({a, b}, pig, t)
=============================================================================
