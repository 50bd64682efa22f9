------------------------------- MODULE Adapters -------------------------------
(***************************************************************************)
(* Where each agent keeps its configuration (internal/agents/<agent>/      *)
(* adapter.go), on Linux.  A file is <<directory, name>>, with the         *)
(* directory relative to the home directory or, where it starts with       *)
(* "workspace", to the workspace.  The files that are written as one - the *)
(* commands of an agent, the skills of one kind - are one file.            *)
(*                                                                         *)
(* Only what a component asks its adapter is here.  promptKind and mcpKind *)
(* are the strategies of internal/model; an agent without a feature has    *)
(* NoDir or NoFile for it.                                                 *)
(***************************************************************************)
EXTENDS Sequences

NoDir == ""
NoFile == <<"", "">>

\* The server names a component passes to MCPConfigPath.
Servers == {"context7", "engram"}

\* Most agents keep every server in one file.
InOne(file) == [server \in Servers |-> file]

Claude ==
    [config |-> ".claude", prompt |-> <<".claude", "CLAUDE.md">>, promptKind |-> "sections",
     settings |-> <<".claude", "settings.json">>, mcpKind |-> "separate",
     mcp |-> [server \in Servers |-> <<".claude/mcp", server>>],
     styles |-> ".claude/output-styles", skills |-> ".claude/skills",
     commands |-> ".claude/commands", subAgents |-> ".claude/agents", workflows |-> NoDir]

OpenCode ==
    [config |-> ".config/opencode", prompt |-> <<".config/opencode", "AGENTS.md">>,
     promptKind |-> "replace", settings |-> <<".config/opencode", "opencode.json">>,
     mcpKind |-> "settings", mcp |-> InOne(<<".config/opencode", "opencode.json">>),
     styles |-> NoDir, skills |-> ".config/opencode/skills",
     commands |-> ".config/opencode/commands", subAgents |-> NoDir, workflows |-> NoDir]

Kilocode ==
    [config |-> ".config/kilo", prompt |-> <<".config/kilo", "AGENTS.md">>,
     promptKind |-> "replace", settings |-> <<".config/kilo", "opencode.json">>,
     mcpKind |-> "settings", mcp |-> InOne(<<".config/kilo", "opencode.json">>),
     styles |-> NoDir, skills |-> ".config/kilo/skills",
     commands |-> ".config/kilo/commands", subAgents |-> NoDir, workflows |-> NoDir]

Gemini ==
    [config |-> ".gemini", prompt |-> <<".gemini", "GEMINI.md">>, promptKind |-> "replace",
     settings |-> <<".gemini", "settings.json">>, mcpKind |-> "settings",
     mcp |-> InOne(<<".gemini", "settings.json">>), styles |-> NoDir,
     skills |-> ".gemini/skills", commands |-> NoDir, subAgents |-> NoDir, workflows |-> NoDir]

Cursor ==
    [config |-> ".cursor", prompt |-> <<".cursor/rules", "gentle-ai.mdc">>,
     promptKind |-> "replace", settings |-> <<".cursor", "settings.json">>,
     mcpKind |-> "file", mcp |-> InOne(<<".cursor", "mcp.json">>), styles |-> NoDir,
     skills |-> ".cursor/skills", commands |-> NoDir, subAgents |-> ".cursor/agents",
     workflows |-> NoDir]

VSCode ==
    [config |-> ".copilot", prompt |-> <<".config/Code/User/prompts", "gentle-ai.instructions.md">>,
     promptKind |-> "instructions", settings |-> <<".config/Code/User", "settings.json">>,
     mcpKind |-> "file", mcp |-> InOne(<<".config/Code/User", "mcp.json">>), styles |-> NoDir,
     skills |-> ".copilot/skills", commands |-> NoDir, subAgents |-> NoDir, workflows |-> NoDir]

Codex ==
    [config |-> ".codex", prompt |-> <<".codex", "AGENTS.md">>, promptKind |-> "replace",
     settings |-> NoFile, mcpKind |-> "toml", mcp |-> InOne(<<".codex", "config.toml">>),
     styles |-> NoDir, skills |-> ".codex/skills", commands |-> NoDir, subAgents |-> NoDir,
     workflows |-> NoDir]

Windsurf ==
    [config |-> ".codeium/windsurf",
     prompt |-> <<".codeium/windsurf/memories", "global_rules.md">>, promptKind |-> "append",
     settings |-> <<".config/Windsurf/User", "settings.json">>, mcpKind |-> "file",
     mcp |-> InOne(<<".codeium/windsurf", "mcp_config.json">>), styles |-> NoDir,
     skills |-> ".codeium/windsurf/skills", commands |-> NoDir, subAgents |-> NoDir,
     workflows |-> "workspace/.windsurf/workflows"]

\* The prompt is the file Gemini has.  The home directory has neither
\* .gemini/antigravity-desktop nor the marker of a migration.
Antigravity ==
    [config |-> ".gemini/antigravity", prompt |-> <<".gemini", "GEMINI.md">>,
     promptKind |-> "append", settings |-> <<".gemini/antigravity-cli", "settings.json">>,
     mcpKind |-> "file", mcp |-> InOne(<<".gemini/antigravity-cli", "mcp_config.json">>),
     styles |-> NoDir, skills |-> ".gemini/antigravity-cli/skills", commands |-> NoDir, subAgents |-> NoDir,
     workflows |-> NoDir]

Kimi ==
    [config |-> ".kimi", prompt |-> <<".kimi", "KIMI.md">>, promptKind |-> "modules",
     settings |-> <<".kimi", "config.toml">>, mcpKind |-> "file",
     mcp |-> InOne(<<".kimi", "mcp.json">>), styles |-> NoDir,
     skills |-> ".config/agents/skills", commands |-> NoDir, subAgents |-> ".kimi/agents",
     workflows |-> NoDir]

Qwen ==
    [config |-> ".qwen", prompt |-> <<".qwen", "QWEN.md">>, promptKind |-> "replace",
     settings |-> <<".qwen", "settings.json">>, mcpKind |-> "settings",
     mcp |-> InOne(<<".qwen", "settings.json">>), styles |-> NoDir,
     skills |-> ".qwen/skills", commands |-> ".qwen/commands", subAgents |-> NoDir,
     workflows |-> NoDir]

\* The prompt is in the directory the adapter is asked about, home or workspace.
OpenClaw ==
    [config |-> ".openclaw", prompt |-> <<"", "AGENTS.md">>, promptKind |-> "sections",
     settings |-> <<".openclaw", "openclaw.json">>, mcpKind |-> "settings",
     mcp |-> InOne(<<".openclaw", "openclaw.json">>), styles |-> NoDir,
     skills |-> ".openclaw/skills", commands |-> NoDir, subAgents |-> NoDir, workflows |-> NoDir]

Hermes ==
    [config |-> ".hermes", prompt |-> <<".hermes", "SOUL.md">>, promptKind |-> "sections",
     settings |-> <<".hermes", "config.yaml">>, mcpKind |-> "yaml",
     mcp |-> InOne(<<".hermes", "config.yaml">>), styles |-> NoDir,
     skills |-> ".hermes/skills", commands |-> NoDir, subAgents |-> NoDir, workflows |-> NoDir]

Trae ==
    [config |-> ".trae", prompt |-> <<".config/Trae/User", "user_rules.md">>,
     promptKind |-> "sections", settings |-> <<".config/Trae/User", "settings.json">>,
     mcpKind |-> "file", mcp |-> InOne(<<".config/Trae/User", "mcp.json">>), styles |-> NoDir,
     skills |-> ".trae/skills", commands |-> NoDir, subAgents |-> NoDir, workflows |-> NoDir]

Kiro ==
    [config |-> ".kiro", prompt |-> <<".kiro/steering", "gentle-ai.md">>,
     promptKind |-> "steering", settings |-> <<".config/kiro/user", "settings.json">>,
     mcpKind |-> "file", mcp |-> InOne(<<".kiro/settings", "mcp.json">>), styles |-> NoDir,
     skills |-> ".kiro/skills", commands |-> NoDir, subAgents |-> ".kiro/agents",
     workflows |-> NoDir]

Pi ==
    [config |-> ".pi", prompt |-> <<".pi/agent", "APPEND_SYSTEM.md">>, promptKind |-> "append",
     settings |-> <<".pi/agent", "settings.json">>, mcpKind |-> "file",
     mcp |-> InOne(<<".pi/agent", "mcp.json">>), styles |-> NoDir, skills |-> NoDir,
     commands |-> NoDir, subAgents |-> NoDir, workflows |-> NoDir]

\* NewDefaultRegistry: every agent with its adapter.
Registry ==
    [claude |-> Claude, opencode |-> OpenCode, kilocode |-> Kilocode, gemini |-> Gemini,
     cursor |-> Cursor, vscode |-> VSCode, codex |-> Codex, windsurf |-> Windsurf,
     antigravity |-> Antigravity, kimi |-> Kimi, qwen |-> Qwen, openclaw |-> OpenClaw,
     hermes |-> Hermes, trae |-> Trae, kiro |-> Kiro, pi |-> Pi]

SupportedAgents == DOMAIN Registry
=============================================================================
