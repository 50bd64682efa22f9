---------------------------- MODULE ComponentFiles ----------------------------
(***************************************************************************)
(* What the components write into the files of the agents, and what an     *)
(* uninstall of some of them from some agents takes away again             *)
(* (inject.go of each internal/components, internal/cli/run.go,            *)
(* internal/components/uninstall/service.go).                              *)
(*                                                                         *)
(* A file is the set of what is in it: the keys of a JSON file, the        *)
(* sections of a prompt, the tables of a TOML one, "whole" for a file with *)
(* a single author, and "user" for what the user put there.  Text is in a  *)
(* file that does not parse as a JSON object, Empty in one that is {}.     *)
(* Directories, that is the clean-up of those that became empty, are left  *)
(* out.  The install is the global one, with strict TDD and the single     *)
(* SDD mode, in a workspace.                                               *)
(***************************************************************************)
EXTENDS Adapters, FiniteSets, SequencesExt

CONSTANTS
    Machines,      \* the agents that are set up together: sequences of agents
    Personas,      \* a subset of {"gentleman", "neutral", "custom"}
    Mixes,         \* the sets of components that are installed together
    Removals       \* the sets of components that are uninstalled together

VARIABLES
    files,      \* path -> what is in the file; other files do not exist
    kept,       \* the files when the command was first started
    installed,  \* the pairs <<agent, component>> that have been installed
    job         \* the command: what it was asked, what is left of it

fileVars == <<files, kept, installed, job>>

Text == "text"
Empty == "{}"
Sections == {"persona", "engram-protocol", "sdd-orchestrator", "strict-tdd-mode", "trigger-rules"}

At(content, path) == IF path \in DOMAIN content THEN content[path] ELSE {}

Put(content, path, file) ==
    IF file = {} THEN Restrict(content, DOMAIN content \ {path})
    ELSE (path :> file) @@ content

\* The members of a set in some order.
InAnOrder(set) == FoldSet(LAMBDA x, seq : Append(seq, x), <<>>, set)

-----------------------------------------------------------------------------
(* The writes of the components.  An operation is applied to the file at a *)
(* path: "merge" adds keys to a JSON file and starts one that does not     *)
(* parse anew, "strict" fails on that one, "add" adds sections or tables   *)
(* to a text, "whole" writes the file anew, "base" writes the start of a   *)
(* prompt, "create" writes a file that is missing, "unset" takes keys out  *)
(* of a JSON file, "removeOwn" removes a file it recognises by those keys. *)

Op(kind, path, keys) == [op |-> kind, at |-> path, keys |-> keys]
Whole(dir, name) == <<Op("whole", <<dir, name>>, {"whole"})>>
Add(path, section) == <<Op("add", path, {section})>>
Merge(path, key) == <<Op("merge", path, {key})>>
When(condition, ops) == IF condition THEN ops ELSE <<>>

\* OpenClaw has its prompt and its skills in the workspace.
InstallPrompt(a) == IF a = "openclaw" THEN <<"workspace", "AGENTS.md">> ELSE Registry[a].prompt
InstallSkills(a) ==
    IF a = "openclaw" THEN "workspace/.openclaw/skills" ELSE Registry[a].skills

OpenCodeLike(a) == a \in {"opencode", "kilocode"}
Modular(a) == Registry[a].promptKind = "modules"

\* The key a server has in the file of the agent.
ServerKey(a, server) ==
    (CASE OpenCodeLike(a) -> "mcp."
       [] a = "openclaw" -> "mcp.servers."
       [] a = "vscode" -> "servers."
       [] OTHER -> "mcpServers.") \o server

BootstrapTemplate(a) ==
    <<Op("whole", Registry[a].prompt, {"whole"}), Op("create", Registry[a].settings, {Text})>>

\* A text of one component: a module of its own, or a section of the prompt.
PromptText(a, section) ==
    IF Modular(a) THEN Whole(Registry[a].config, section) ELSE Add(InstallPrompt(a), section)

\* Where the first version put the persona for VS Code, and the server that
\* Claude Code had in a file of its own.  No install writes them any more.
LegacyPersona == <<".github", "copilot-instructions.md">>
LegacyServer == Claude.mcp["context7"]

PersonaPrompt(a, persona) ==
    CASE Modular(a) ->
             BootstrapTemplate(a) \o Whole(Registry[a].config, "persona")
                 \o Whole(Registry[a].config, "output-style")
      [] a = "opencode" \/ Registry[a].promptKind \in {"sections", "append"} ->
             Add(Registry[a].prompt, "persona")
      [] OTHER ->
             When(a = "vscode", <<Op("removeOwn", LegacyPersona, {"preamble"})>>)
                 \o <<Op(IF persona = "gentleman" THEN "whole" ELSE "base",
                         Registry[a].prompt, {"preamble"})>>

PersonaAgent(a, persona) ==
    When(OpenCodeLike(a),
         <<Op(IF persona = "gentleman" THEN "merge" ELSE "unset",
              Registry[a].settings, {"agent.gentleman"})>>)

PersonaStyle(a, persona) ==
    LET dir == Registry[a].styles IN
    When(dir # NoDir,
         Whole(dir, persona) \o Merge(Registry[a].settings, "outputStyle")
             \o When(persona # "gentleman", <<Op("remove", <<dir, "gentleman">>, {})>>))

PersonaWrites(a, persona) ==
    CASE persona = "custom" -> <<>>
      [] persona # "custom" /\ a = "openclaw" -> Add(<<"workspace", "SOUL.md">>, "persona")
      [] OTHER -> PersonaPrompt(a, persona) \o PersonaAgent(a, persona) \o PersonaStyle(a, persona)

Context7Writes(a) ==
    LET file == Registry[a].mcp["context7"] IN
    CASE Registry[a].mcpKind \in {"separate", "settings"} ->
             Merge(Registry[a].settings, ServerKey(a, "context7"))
      [] Registry[a].mcpKind = "file" -> Merge(file, ServerKey(a, "context7"))
      [] OTHER -> <<Op("add", file, {Text, "context7"})>>

\* Pi gets its packages and nothing else.
ProvisionEngramMCP ==
    <<Op("strict", Pi.settings, {"packages"})>> \o Merge(<<".pi/npm", "package.json">>, "dependencies")

EngramServer(a) ==
    LET file == Registry[a].mcp["engram"] IN
    CASE Registry[a].mcpKind = "separate" -> <<Op("whole", file, {"whole"})>>
      [] Registry[a].mcpKind = "settings" ->
             Merge(Registry[a].settings, ServerKey(a, "engram"))
      [] Registry[a].mcpKind = "file" ->
             Merge(file, ServerKey(a, "engram"))
                 \o When(a = "antigravity",
                         <<Op("create", Registry[a].settings, {Empty})>>
                             \o Whole(".gemini/antigravity-cli/plugins/gentle-ai-engram", "plugin"))
      [] Registry[a].mcpKind = "yaml" -> <<Op("add", file, {Text, "engram"})>>
      [] Registry[a].mcpKind = "toml" ->
             Whole(".codex", "engram-instructions") \o Whole(".codex", "engram-compact-prompt")
                 \o <<Op("add", file, {Text, "engram", "instructions", "features"})>>
                 \o Whole(".codex", "profiles")

EngramWrites(a) ==
    IF a = "pi" THEN ProvisionEngramMCP
    ELSE EngramServer(a) \o When(Modular(a), BootstrapTemplate(a)) \o PromptText(a, "engram-protocol")

\* The keys of the agents whose settings say what is allowed.
PermissionKeys ==
    [claude |-> "permissions", opencode |-> "permission", kilocode |-> "permission",
     gemini |-> "general.defaultApprovalMode", qwen |-> "permissions",
     vscode |-> "chat.tools.autoApprove"]

PermissionWrites(a) ==
    CASE a = "codex" -> <<Op("add", Codex.mcp["context7"], {Text, "permissions"})>>
      [] a \in DOMAIN PermissionKeys -> Merge(Registry[a].settings, PermissionKeys[a])
      [] OTHER -> <<>>

ThemeWrites(a) == When(Registry[a].settings # NoFile, Merge(Registry[a].settings, "theme"))

ClaudeThemeWrites(a) == When(a = "claude", Whole(".claude/themes", "gentleman"))

LogoWrites ==
    Whole(".config/opencode/tui-plugins", "gentle-logo")
        \o <<Op("strict", <<".config/opencode", "tui.json">>, {"plugin.gentle-logo"})>>

SkillsWrites(a) ==
    When(InstallSkills(a) # NoDir,
         Whole(InstallSkills(a), "skills") \o Whole(InstallSkills(a), "judgment-day"))

SDDPrompt(a) ==
    When(Modular(a), BootstrapTemplate(a)) \o PromptText(a, "sdd-orchestrator")
        \o PromptText(a, "trigger-rules") \o PromptText(a, "strict-tdd-mode")

SDDAgents(a) ==
    <<Op("merge", Registry[a].settings, {"agent.sdd", "share"})>>
        \o Whole(Registry[a].config \o "/plugins", "plugins")

SDDHook(a) ==
    CASE a = "codex" -> <<Op("strict", <<".codex", "hooks.json">>, {"hook"})>>
      [] a = "claude" -> <<Op("strict", Claude.settings, {"hook"})>>
      [] OTHER -> <<>>

SDDWrites(a) ==
    LET x == Registry[a] IN
    When(~OpenCodeLike(a), SDDPrompt(a))
        \o When(x.commands # NoDir, Whole(x.commands, "sdd"))
        \o When(OpenCodeLike(a), SDDAgents(a))
        \o When(InstallSkills(a) # NoDir,
                Whole(InstallSkills(a), "_shared") \o Whole(InstallSkills(a), "sdd")
                    \o Whole(InstallSkills(a), "judgment-day"))
        \o When(x.workflows # NoDir, Whole(x.workflows, "sdd"))
        \o When(x.subAgents # NoDir, Whole(x.subAgents, "sdd"))
        \o SDDHook(a)

GGAWrites ==
    Whole(".local/share/gga/lib", "pr_mode") \o Whole(".config/gga", "config")
        \o Whole(".config/gga", "AGENTS.md")

Writes(a, component, persona) ==
    CASE component = "persona" -> PersonaWrites(a, persona)
      [] component = "engram" -> EngramWrites(a)
      [] component = "context7" -> Context7Writes(a)
      [] component = "permission" -> PermissionWrites(a)
      [] component = "sdd" -> SDDWrites(a)
      [] component = "skills" -> SkillsWrites(a)
      [] component = "theme" -> ThemeWrites(a)
      [] component = "claude-theme" -> ClaudeThemeWrites(a)
      [] component = "logo" -> LogoWrites
      [] component = "gga" -> GGAWrites

-----------------------------------------------------------------------------
(* The files an install puts into its backup: those each component says it *)
(* writes (componentPathsWithWorkspaceScoped).                             *)

EngramPaths(a) ==
    LET x == Registry[a] IN
    (CASE x.mcpKind \in {"separate", "file"} -> {x.mcp["engram"]}
       [] x.mcpKind = "settings" -> {x.settings}
       [] x.mcpKind = "toml" -> {x.mcp["engram"], <<".codex", "profiles">>}
       [] OTHER -> {})
        \cup (IF a = "antigravity" THEN {x.settings} ELSE {})
        \cup (IF x.promptKind = "sections" THEN {InstallPrompt(a)} ELSE {})

SDDPaths(a) ==
    LET x == Registry[a] IN
    (IF Modular(a) THEN {} ELSE {InstallPrompt(a)})
        \cup ({x.commands, x.subAgents} \ {NoDir}) \X {"sdd"}
        \cup (IF a = "opencode"
              THEN {x.settings, <<".config/opencode/plugins", "plugins">>} ELSE {})
        \cup ({InstallSkills(a)} \ {NoDir}) \X {"_shared", "sdd"}

PersonaPaths(a, persona) ==
    LET x == Registry[a] IN
    CASE persona = "custom" -> {}
      [] persona # "custom" /\ a = "openclaw" -> {<<"workspace", "SOUL.md">>}
      [] OTHER ->
             (IF Modular(a) THEN {} ELSE {InstallPrompt(a)})
                 \cup (IF x.styles = NoDir THEN {} ELSE {<<x.styles, persona>>, x.settings})

ComponentPaths(a, component, persona) ==
    LET x == Registry[a] IN
    (CASE component = "engram" -> EngramPaths(a)
       [] component = "sdd" -> SDDPaths(a)
       [] component = "skills" -> ({InstallSkills(a)} \ {NoDir}) \X {"skills", "judgment-day"}
       [] component = "context7" ->
              (CASE x.mcpKind \in {"separate", "settings"} -> {x.settings}
                 [] x.mcpKind \in {"file", "toml"} -> {x.mcp["context7"]}
                 [] OTHER -> {})
       [] component = "persona" -> PersonaPaths(a, persona)
       [] component = "permission" ->
              (CASE a = "codex" -> {x.mcp["context7"]}
                 [] a \in DOMAIN PermissionKeys -> {x.settings}
                 [] OTHER -> {})
       [] component = "gga" -> {".config/gga"} \X {"config", "AGENTS.md"}
       [] component = "theme" -> {x.settings} \ {NoFile}
       [] component = "claude-theme" ->
              IF a = "claude" THEN {<<".claude/themes", "gentleman">>} ELSE {}
       [] component = "logo" ->
              {<<".config/opencode/tui-plugins", "gentle-logo">>,
               <<".config/opencode", "tui.json">>})
        \cup (IF Modular(a) THEN {x.prompt} ELSE {})

-----------------------------------------------------------------------------
(* What an uninstall does with one component of one agent                  *)
(* (componentOperations).  "clean" takes keys out of a JSON file and fails *)
(* on one that does not parse, "cut" takes sections or tables out of a     *)
(* text, "persona" the section and the start of a prompt, "remove" the     *)
(* file.  The rewrites are done first, then the files, then the trees.     *)

Clean(path, keys) == <<Op("clean", path, keys)>>
Cut(path, keys) == <<Op("cut", path, keys)>>
RemoveFile(path) == <<Op("remove", path, {})>>
RemoveTree(dir, name) == <<Op("removeTree", <<dir, name>>, {})>>

RemovePersona(a) ==
    LET x == Registry[a] IN
    <<Op("persona", x.prompt, {"persona"})>>
        \o When(x.styles # NoDir, RemoveFile(<<x.styles, "gentleman">>))
        \o When(x.settings # NoFile,
                Clean(x.settings, {"outputStyle"}
                                      \cup (IF a = "opencode" THEN {"agent.gentleman"} ELSE {})))

\* Faulty: every agent has its servers under one key.
CleanedKeyOfClaude(a, server) == "mcpServers." \o server

\* The key the cleaners look for.
CleanedKey(a, server) ==
    (CASE a = "opencode" -> "mcp." [] a = "vscode" -> "servers." [] OTHER -> "mcpServers.")
        \o server

Context7Operations(a) ==
    LET x == Registry[a] IN
    CASE x.mcpKind = "separate" ->
             Clean(x.settings, {CleanedKey(a, "context7")})
                 \o <<Op("removeOwn", x.mcp["context7"], {"whole"})>>
      [] x.mcpKind = "settings" -> Clean(x.settings, {CleanedKey(a, "context7")})
      [] x.mcpKind = "file" -> Clean(x.mcp["context7"], {CleanedKey(a, "context7")})
      [] OTHER -> <<>>

\* Faulty: of the server with a file of its own, only that file is saved.
Context7TargetsOwnFile(a) == IF Registry[a].mcpKind = "toml" THEN {} ELSE {Registry[a].mcp["context7"]}

Context7Targets(a) ==
    LET x == Registry[a] IN
    CASE x.mcpKind = "separate" -> {x.settings, x.mcp["context7"]}
      [] x.mcpKind \in {"settings", "file"} -> {x.mcp["context7"]}
      [] OTHER -> {}

CodexTexts == {".codex"} \X {"engram-instructions", "engram-compact-prompt"}

EngramOperations(a) ==
    LET x == Registry[a] IN
    CASE x.mcpKind = "separate" -> RemoveFile(x.mcp["engram"])
      [] x.mcpKind = "settings" -> Clean(x.settings, {CleanedKey(a, "engram")})
      [] x.mcpKind = "file" -> Clean(x.mcp["engram"], {CleanedKey(a, "engram")})
      [] x.mcpKind = "toml" ->
             Cut(x.mcp["engram"], {"engram", "instructions"})
                 \o FlattenSeq(InAnOrder({RemoveFile(path) : path \in CodexTexts}))
      [] OTHER -> <<>>

EngramTargets(a) ==
    LET x == Registry[a] IN
    CASE x.mcpKind \in {"separate", "file"} -> {x.mcp["engram"]}
      [] x.mcpKind = "settings" -> {x.settings}
      [] x.mcpKind = "toml" -> {x.mcp["engram"]} \cup CodexTexts
      [] OTHER -> {}

\* Only these agents' permissions are taken back.
RemovePermission(a) ==
    When(a \in {"claude", "opencode", "gemini", "vscode"},
         Clean(Registry[a].settings, {PermissionKeys[a]}))

\* The profiles that are in OpenCode's settings (DetectProfiles).
ProfileKey == [work |-> "agent.profile.work", home |-> "agent.profile.home"]
DetectProfiles(content) ==
    {profile \in DOMAIN ProfileKey : ProfileKey[profile] \in At(content, OpenCode.settings)}

\* No scope: every profile that is found; a scope: those that were chosen.
ProfilesToRemove(content, scope) == IF scope.scoped THEN scope.profiles ELSE DetectProfiles(content)

SDDPluginFiles == <<<<".config/opencode/plugins", "plugins">>,
                    <<".gentle-ai/cache", "model-variants">>>>

OpenCodeOperations(content, scope) ==
    Clean(OpenCode.settings,
          {"agent.sdd"} \cup {ProfileKey[profile] : profile \in ProfilesToRemove(content, scope)})
        \o RemoveFile(SDDPluginFiles[1]) \o RemoveFile(SDDPluginFiles[2])
        \o RemoveTree(".config/opencode/node_modules", "unique-names-generator")

RemoveSDD(a, content, scope) ==
    LET x == Registry[a] IN
    Cut(x.prompt, {"sdd-orchestrator", "strict-tdd-mode"})
        \o When(x.commands # NoDir, RemoveFile(<<x.commands, "sdd">>))
        \o When(a = "claude", Clean(x.settings, {"hook"}))
        \o When(a = "codex", Clean(<<".codex", "hooks.json">>, {"hook"}))
        \o When(a = "opencode", OpenCodeOperations(content, scope))
        \o When(x.skills # NoDir,
                RemoveTree(x.skills, "_shared") \o RemoveTree(x.skills, "sdd")
                    \o RemoveTree(x.skills, "judgment-day"))
        \o When(x.workflows # NoDir, RemoveFile(<<x.workflows, "sdd">>))
        \o When(x.subAgents # NoDir, RemoveFile(<<x.subAgents, "sdd">>))

\* The skills of the SDD phases stay, and so do the QE overrides.
RemoveSkills(a) ==
    When(Registry[a].skills # NoDir,
         RemoveTree(Registry[a].skills, "skills") \o RemoveTree(Registry[a].skills, "judgment-day"))

ProjectData == <<"workspace/.engram", "data">>

Operations(a, component, content, scope) ==
    LET x == Registry[a] IN
    CASE component = "persona" -> RemovePersona(a)
      [] component = "context7" -> Context7Operations(a)
      [] component = "engram" /\ scope.project -> RemoveTree(ProjectData[1], ProjectData[2])
      [] component = "engram" /\ ~scope.project ->
             EngramOperations(a) \o Cut(x.prompt, {"engram-protocol"})
      [] component = "permission" -> RemovePermission(a)
      [] component = "sdd" -> RemoveSDD(a, content, scope)
      [] component = "skills" -> RemoveSkills(a)
      [] component = "theme" -> When(x.settings # NoFile, Clean(x.settings, {"theme"}))
      [] component = "claude-theme" ->
             When(a = "claude", RemoveFile(<<".claude/themes", "gentleman">>))
      [] component = "logo" -> RemoveFile(<<".config/opencode/tui-plugins", "gentle-logo">>)
      [] component = "gga" ->
             RemoveFile(<<".config/gga", "config">>) \o RemoveFile(<<".config/gga", "AGENTS.md">>)

SettingsTarget(a) == {Registry[a].settings} \ {NoFile}

SDDTargets(a) ==
    LET x == Registry[a] IN
    {x.prompt} \cup ({x.commands, x.workflows, x.subAgents} \ {NoDir}) \X {"sdd"}
        \cup (IF a \in {"claude", "opencode"} THEN {x.settings} ELSE {})
        \cup (IF a = "codex" THEN {<<".codex", "hooks.json">>} ELSE {})
        \cup (IF a = "opencode"
              THEN {SDDPluginFiles[1], SDDPluginFiles[2],
                    <<".config/opencode/node_modules", "unique-names-generator">>} ELSE {})
        \cup ({x.skills} \ {NoDir}) \X {"_shared", "sdd", "judgment-day"}

Targets(a, component, scope) ==
    LET x == Registry[a] IN
    CASE component = "persona" ->
             {x.prompt} \cup ({x.styles} \ {NoDir}) \X {"gentleman"} \cup SettingsTarget(a)
      [] component = "context7" -> Context7Targets(a)
      [] component = "engram" ->
             IF scope.project THEN {ProjectData} ELSE EngramTargets(a) \cup {x.prompt}
      [] component \in {"permission", "theme"} -> SettingsTarget(a)
      [] component = "sdd" -> SDDTargets(a)
      [] component = "skills" -> ({x.skills} \ {NoDir}) \X {"skills", "judgment-day"}
      [] component = "claude-theme" ->
             IF a = "claude" THEN {<<".claude/themes", "gentleman">>} ELSE {}
      [] component = "logo" -> {<<".config/opencode/tui-plugins", "gentle-logo">>}
      [] component = "gga" -> {".config/gga"} \X {"config", "AGENTS.md"}

\* Every uninstall saves GGA's files.
AllTargets(chosen, scope) ==
    UNION {Targets(pair[1], pair[2], scope) : pair \in chosen}
        \cup {".config/gga"} \X {"config", "AGENTS.md"}

VisualPolish == {"theme", "claude-theme", "logo"}
Expand(components) ==
    IF components \cap VisualPolish = {} THEN components ELSE components \cup VisualPolish

\* The order in which components are gone through (allManagedComponents); it
\* is one the planner gives, too.
Ordered ==
    <<"persona", "engram", "context7", "permission", "sdd", "skills", "theme", "claude-theme",
      "logo", "gga">>

\* What a sequence of agents is asked for, component by component.
Pairs(agents, components) ==
    LET chosen == SelectSeq(Ordered, LAMBDA component : component \in components)
    IN  FlattenSeq([i \in 1..Len(agents) |->
            [j \in 1..Len(chosen) |-> <<agents[i], chosen[j]>>]])

ByComponent(agents, components) ==
    LET chosen == SelectSeq(Ordered, LAMBDA component : component \in components)
    IN  FlattenSeq([j \in 1..Len(chosen) |->
            [i \in 1..Len(agents) |-> <<agents[i], chosen[j]>>]])

\* The rewrites of one file are done together, one after the other.  Nothing is
\* done with a file that does not exist.
Plan(agents, components, content, scope) ==
    LET pairs == Pairs(agents, components)
        all == FlattenSeq([i \in 1..Len(pairs) |->
                   SelectSeq(Operations(pairs[i][1], pairs[i][2], content, scope),
                             LAMBDA o : o.at \in DOMAIN content)])
        Kind(kinds) == SelectSeq(all, LAMBDA o : o.op \in kinds)
        rewrites == Kind({"clean", "cut", "persona"})
        paths == InAnOrder({rewrites[i].at : i \in DOMAIN rewrites})
    IN  FlattenSeq([i \in 1..Len(paths) |->
            SelectSeq(rewrites, LAMBDA o : o.at = paths[i])])
            \o Kind({"remove", "removeOwn"}) \o Kind({"removeTree"})

-----------------------------------------------------------------------------
(* Applying an operation.                                                  *)

Fails(o, file) == o.op \in {"clean", "strict"} /\ Text \in file

\* A rewrite that leaves nothing removes the file.
Without(file, keys) ==
    LET rest == file \ keys
    IN  IF rest # file /\ rest \subseteq {Empty, Text} THEN {} ELSE rest

\* Faulty: whatever precedes a section is taken for the start.
WithoutPersonaAndAbove(file) ==
    IF file \cap Sections = {} THEN Without(file, {"persona"})
    ELSE Without(file, {"persona", "preamble", "user"})

\* The start of a prompt is recognised by the section that follows it.
WithoutPersona(file) ==
    LET rest == file \ {"persona"}
    IN  IF rest \cap Sections # {} THEN Without(file, {"persona", "preamble"})
        ELSE Without(file, {"persona"})

Written(o, file) ==
    CASE o.op = "merge" -> IF Text \in file THEN o.keys ELSE file \cup o.keys
      [] o.op \in {"add", "strict"} -> file \cup o.keys
      [] o.op = "whole" -> o.keys
      [] o.op = "base" -> (file \cap Sections) \cup o.keys
      [] o.op = "create" -> IF file = {} THEN o.keys ELSE file
      [] o.op = "unset" ->
             IF Text \in file \/ file \cap o.keys = {} THEN file
             ELSE IF file \subseteq o.keys THEN {Empty} ELSE file \ o.keys
      [] o.op \in {"clean", "cut"} -> Without(file, o.keys)
      [] o.op = "persona" -> WithoutPersona(file)
      [] o.op \in {"remove", "removeTree"} -> {}
      [] o.op = "removeOwn" -> IF o.keys \subseteq file THEN {} ELSE file

Changes(o, content) == Written(o, At(content, o.at)) # At(content, o.at)

\* The operations one after the other, up to the first that fails.
ApplyAll(ops, content) ==
    LET result[i \in 0..Len(ops)] ==
            IF i = 0 THEN [files |-> content, failed |-> FALSE]
            ELSE LET before == result[i - 1]
                     file == At(before.files, ops[i].at)
                 IN  IF before.failed \/ Fails(ops[i], file)
                     THEN [before EXCEPT !.failed = TRUE]
                     ELSE [before EXCEPT !.files = Put(@, ops[i].at, Written(ops[i], file))]
    IN  result[Len(ops)]

-----------------------------------------------------------------------------
(* The commands.  An install is one step here: what happens to one that is *)
(* cut or fails is in Pipeline.  An uninstall does its operations one by   *)
(* one and may be killed between two.                                      *)

\* What the user has before the install: nothing, files of the user's own, or
\* JSON files that do not parse.
JSONFiles(a) ==
    LET x == Registry[a] IN
    ({x.settings} \ {NoFile, Kimi.settings, Hermes.settings})
        \cup (IF x.mcpKind = "file" THEN {x.mcp["context7"]} ELSE {})
        \cup (IF a = "codex" THEN {<<".codex", "hooks.json">>} ELSE {})
        \cup (IF a = "opencode" THEN {<<".config/opencode", "tui.json">>} ELSE {})

TOMLFiles(a) ==
    CASE a = "codex" -> {Codex.mcp["engram"]}
      [] a \in {"kimi", "hermes"} -> {Registry[a].settings}
      [] OTHER -> {}

UserFile(path, condition) ==
    CASE condition = "broken" -> {Text, "user"}
      [] condition = "used" /\ path = OpenCode.settings ->
             {"user"} \cup {ProfileKey[profile] : profile \in DOMAIN ProfileKey}
      [] OTHER -> {"user"}

\* What an earlier version left, as it was or with the user's additions, or a
\* file of the user's with its name.
LegacyFiles(agents, condition) ==
    (IF "claude" \notin agents THEN <<>>
     ELSE LegacyServer :> (IF condition = "used" THEN {"user"} ELSE {"whole"}))
        @@ (IF "vscode" \notin agents THEN <<>>
            ELSE LegacyPersona :> (IF condition = "used" THEN {"user"} ELSE {"preamble", "user"}))

UserFiles(machine, condition) ==
    LET agents == Range(machine)
        json == UNION {JSONFiles(a) : a \in agents}
    IN  (ProjectData :> {"whole"})
            @@ (IF condition = "fresh" THEN <<>>
                ELSE LegacyFiles(agents, condition)
                         @@ [path \in json |-> UserFile(path, condition)]
                         @@ [path \in {Registry[a].prompt : a \in agents} |-> {"user"}]
                         @@ [path \in UNION {TOMLFiles(a) : a \in agents} |-> {"user", Text}])

NoScope == [project |-> FALSE, scoped |-> FALSE, profiles |-> {}]

Init ==
    \E machine \in Machines, condition \in {"fresh", "used", "broken"} :
        /\ files = UserFiles(machine, condition)
        /\ kept = files
        /\ installed = {}
        /\ job = [phase |-> "new", machine |-> machine, persona |-> "custom", agents |-> <<>>,
                  components |-> {}, scope |-> NoScope, ops |-> <<>>, targets |-> {}]

\* gentle-ai install: the components one after the other, each for all agents.
Install ==
    \E persona \in Personas, components \in Mixes :
        LET pairs == ByComponent(job.machine, components)
            result == ApplyAll(FlattenSeq([i \in 1..Len(pairs) |->
                                   Writes(pairs[i][1], pairs[i][2], persona)]), files)
        IN  /\ job.phase = "new"
            /\ files' = result.files
            /\ kept' = files
            /\ installed' = Range(pairs)
            /\ job' = [job EXCEPT !.phase = IF result.failed THEN "aborted" ELSE "installed",
                                  !.persona = persona,
                                  !.targets = UNION {ComponentPaths(pair[1], pair[2], persona) :
                                                         pair \in Range(pairs)}]

\* The user writes into the files that are not only gentle-ai's, and may leave
\* one of the JSON files in a state that does not parse.
UserEdits ==
    \E broken \in {NoFile} \cup UNION {JSONFiles(a) : a \in Range(job.machine)} :
        /\ job.phase = "installed"
        /\ broken = NoFile \/ broken \in DOMAIN files
        /\ files' = [path \in DOMAIN files |->
                        (IF "whole" \in files[path] THEN files[path] ELSE files[path] \cup {"user"})
                            \cup (IF path = broken THEN {Text} ELSE {})]
        /\ kept' = files'
        /\ job' = [job EXCEPT !.phase = "edited"]
        /\ UNCHANGED installed

\* With the project scope Engram stays with the agents.
Chosen ==
    {<<job.agents[i], component>> : i \in DOMAIN job.agents,
        component \in job.components \ (IF job.scope.project THEN {"engram"} ELSE {})}

Matters(o, content) == Fails(o, At(content, o.at)) \/ Changes(o, content)

\* What there is to do; operations that change nothing are passed over.
Due(agents, components, scope) ==
    SelectSeq(Plan(agents, components, files, scope), LAMBDA o : Matters(o, files))

Begin(agents, components, scope) ==
    LET chosen == {<<agents[i], component>> : i \in DOMAIN agents, component \in components} IN
    /\ kept' = files
    /\ job' = [job EXCEPT !.phase = "removing", !.agents = agents, !.components = components,
                          !.scope = scope, !.ops = Due(agents, components, scope),
                          !.targets = AllTargets(chosen, scope)]
    /\ UNCHANGED <<files, installed>>

\* The terminal interface asks for profiles and for Engram's scope, where they
\* make a difference.
Scopes(agents, components) ==
    {[project |-> project, scoped |-> scoped, profiles |-> profiles] :
        project \in {FALSE, "engram" \in components},
        scoped \in {FALSE, "opencode" \in Range(agents) /\ "sdd" \in components},
        profiles \in {{}, {"work"}}}

StartUninstall ==
    /\ job.phase \in {"installed", "edited"}
    /\ \E some \in SUBSET Range(job.machine) \ {{}}, components \in Removals :
           LET agents == SelectSeq(job.machine, LAMBDA a : a \in some) IN
           \E scope \in Scopes(agents, Expand(components)) :
               /\ ~scope.scoped => scope.profiles = {}
               /\ Begin(agents, Expand(components), scope)

\* CompleteUninstall: everything of every supported agent.
StartComplete ==
    /\ job.phase \in {"installed", "edited"}
    /\ Begin(InAnOrder(SupportedAgents), Range(Ordered), NoScope)

UninstallStep ==
    /\ job.phase = "removing"
    /\ job.ops # <<>>
    /\ LET o == Head(job.ops) IN
       IF Fails(o, At(files, o.at))
       THEN job' = [job EXCEPT !.phase = "failed"] /\ UNCHANGED files
       ELSE /\ files' = Put(files, o.at, Written(o, At(files, o.at)))
            /\ job' = [job EXCEPT !.ops = SelectSeq(Tail(@), LAMBDA x : Matters(x, files'))]
    /\ UNCHANGED <<kept, installed>>

Kill ==
    /\ job.phase = "removing"
    /\ job.ops # <<>>
    /\ job' = [job EXCEPT !.phase = "killed"]
    /\ UNCHANGED <<files, kept, installed>>

\* A killed uninstall is started again as it was; its targets are the same.
Rerun ==
    /\ job.phase = "killed"
    /\ job' = [job EXCEPT !.phase = "removing",
                          !.ops = Due(job.agents, job.components, job.scope)]
    /\ UNCHANGED <<files, kept, installed>>

Finish ==
    /\ job.phase = "removing"
    /\ job.ops = <<>>
    /\ job' = [job EXCEPT !.phase = "removed"]
    /\ UNCHANGED <<files, kept, installed>>

Next ==
    \/ Install \/ UserEdits \/ StartUninstall \/ StartComplete \/ Rerun
    \/ UninstallStep \/ Kill \/ Finish

Spec == Init /\ [][Next]_fileVars

-----------------------------------------------------------------------------
Ended == job.phase \in {"killed", "failed", "removed"}

\* What components of agents put into the files: pairs <<path, key>>.
PutBy(pairs) ==
    UNION {LET ops == Writes(pair[1], pair[2], job.persona)
           IN  UNION {{ops[i].at} \X ops[i].keys : i \in DOMAIN ops} : pair \in pairs}

Lost(path) == kept[path] \ (At(files, path) \cup {Empty})

\* The settings of OpenCode and Kilocode, which the persona and SDD merge into,
\* and the persona of the first version, removed without being listed (README).
Unlisted == {OpenCode.settings, Kilocode.settings, LegacyPersona}

(* Whatever a command takes out of the user's home is in its backup: the   *)
(* files an install overwrites, and every file an uninstall changes, are   *)
(* among the targets computed beside the operations (componentPaths,       *)
(* componentOperations), so a restore gives them back.                     *)
ChangesAreBackedUp ==
    /\ job.phase \in {"installed", "aborted"} =>
           \A path \in DOMAIN kept \ Unlisted : Lost(path) # {} => path \in job.targets
    /\ Ended =>
           \A path \in DOMAIN kept : At(files, path) # kept[path] => path \in job.targets

\* Places of more than one component, where the uninstall of one takes what is
\* the other's as well (README): the prompt of Gemini and Antigravity, and the
\* skill that both SDD and Skills install.
SharedPlaces ==
    {Gemini.prompt}
        \cup {<<InstallSkills(a), "judgment-day">> : a \in SupportedAgents}

\* The logo and GGA are of no agent.
OfTheMachine == {"logo", "gga"}

Others ==
    {pair \in installed \ Chosen :
        ~(pair[2] \in OfTheMachine /\ pair[2] \in job.components)}

(* An uninstall, at whatever operation it ends, takes only what the chosen *)
(* components of the chosen agents put there, the chosen profiles and      *)
(* Engram's project data: nothing of the user's, and nothing another       *)
(* component or agent still needs (README.md, docs/usage.md:124).          *)
OthersKept ==
    Ended =>
        LET lost == UNION {{path} \X Lost(path) : path \in DOMAIN kept}
            shared == {thing \in lost : thing[1] \in SharedPlaces}
        IN  /\ shared \subseteq PutBy(installed)
            /\ lost \ shared \subseteq
                   PutBy(Chosen \cap installed)
                       \cup {<<OpenCode.settings, ProfileKey[profile]>> :
                                profile \in ProfilesToRemove(kept, job.scope)}
                       \cup (IF job.scope.project THEN {<<ProjectData, "whole">>} ELSE {})
                       \cup (IF <<"claude", "context7">> \in Chosen
                             THEN {<<LegacyServer, "whole">>} ELSE {})
            /\ (lost \ shared) \cap PutBy(Others) = {}

\* What stays although it was uninstalled (README): no operation looks for it.
LeftFiles ==
    {<<".codex", "profiles">>, <<".config/kilo/plugins", "plugins">>,
     <<".gemini/antigravity-cli/plugins/gentle-ai-engram", "plugin">>,
     <<".claude/output-styles", "neutral">>, <<".local/share/gga/lib", "pr_mode">>}

Left(pair, path, key) ==
    \/ path \in LeftFiles
    \/ key \in {"trigger-rules", "share", "plugin.gentle-logo", Empty}
    \/ key = "preamble" /\ files[path] \cap Sections = {}
    \/ pair \in {<<"qwen", "permission">>, <<"pi", "engram">>}
    \/ pair[1] = "kilocode" /\ path = Kilocode.settings
    \/ pair[1] = "openclaw" /\ path # Registry["openclaw"].prompt
    \/ pair[1] = "kimi" /\ key = "whole" /\ path[1] = Kimi.config
    \/ pair[1] = "hermes" /\ path = Hermes.settings
    \/ pair[1] = "codex" /\ path = Codex.mcp["engram"]
           /\ key \in {"context7", "features", "permissions", Text}

(* After an uninstall has finished, killed and started again or not,       *)
(* nothing that the chosen components of the chosen agents installed is    *)
(* left, except what no operation looks for.                               *)
UninstallRemoves ==
    job.phase = "removed" =>
        LET needed == PutBy(installed \ Chosen) IN
        \A pair \in Chosen \cap installed :
            \A thing \in PutBy({pair}) \ needed :
                thing[2] \in At(files, thing[1]) => Left(pair, thing[1], thing[2])
=============================================================================
