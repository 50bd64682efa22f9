---- MODULE MCAgentFiles ----
(***************************************************************************)
(* The files of the agents fall into groups that share none: the prompt    *)
(* files, the layers of an OpenCode plugin, and Pi's CodeGraph integration.*)
(* A behaviour works on one group, and the others are at rest.             *)
(* Prompts: one agent of each kind, two of them on one file; files as      *)
(* earlier programs and users left them.                                   *)
(***************************************************************************)
EXTENDS ManagedFiles, OpenCodePlugin, PiCodeGraph

CONSTANTS claude, windsurf, opencode, gemini, antigravity

Home(a) == CASE a = antigravity -> gemini [] OTHER -> a
MCPath == [a \in Agents |-> Home(a)]

MCStrategy ==
    [a \in Agents |-> CASE a = claude -> "sections"
                        [] a = opencode -> "opencode"
                        [] a = gemini -> "replace"
                        [] OTHER -> "append"]

MCOrder == <<claude, gemini, opencode, windsurf, antigravity>>
MCMachines == {{claude}, {opencode}, {gemini, antigravity}}

MCSelections == {{"persona", "skills"}, {"engram", "context7"}}
MCSyncModes == {[codegraph |-> b, strict |-> b] : b \in BOOLEAN}
MCRemovals == {<<"persona", "engram", "sdd">>, <<"sdd", "engram">>}

LegacyFiles ==
    {<<>>, <<Base("gentleman")>>, <<Bare, User(0)>>,
     <<Begin("agent-teams-lite"), Rest, End("agent-teams-lite"), User(0)>>}

\* tui.json and package.json as users write them: a plugin with options is
\* a pair, a list of packages may be no object
Reading(names, odd) == [names |-> names, odd |-> odd]
MCTuiTexts ==
    {Reading({}, {"npm"}), Reading({"npm"}, {"other"}), Reading({"logo"}, {}), Reading({"npm", "logo"}, {})}
MCPackageTexts ==
    {Reading({}, {}), Reading({"dependencies", "devDependencies"}, {}),
     Reading({"dependencies"}, {"devDependencies"})}

\* planner/order.go on every graph of three components, cycles included
Few == {"engram", "sdd", "skills"}
ASSUME \A graph \in [Few -> SUBSET Few] :
    LET order == TopologicalSort(graph, Few) IN
    IF Acyclic(graph, Few) THEN IsTopological(graph, Few, order)
                           ELSE Len(order) < Cardinality(Few)
ASSUME \A selected \in SUBSET ToSet(Names) : IsPlan(selected, Resolve(selected))

---------------------------------------------------------------------------
VARIABLE group     \* the group worked on

Child(form) ==
    [form |-> form, proxy |-> FALSE, tool |-> FALSE, guide |-> "none", note |-> 0]

MCChildren == {Child("bash")}

Homes ==
    {[mcp |-> NoFile, user |-> Child("bash"), packaged |-> NoFile],
     [mcp |-> [codegraph |-> "none", servers |-> FALSE, note |-> 0], user |-> Child("bad"),
      packaged |-> NoFile],
     [mcp |-> NoFile, user |-> NoFile, packaged |-> [Child("plain") EXCEPT !.guide = "torn"]]}

PromptsRest ==
    /\ present = {} /\ begun = 0 /\ prompt = <<>> /\ state = [agents |-> {}, persona |-> ""] /\ cmd = NoCommand
    /\ todo = <<>> /\ texts = <<>> /\ lost = <<>> /\ legacy = {}

PluginRest ==
    /\ files = [f \in Files |-> Absent] /\ dirs = [d \in Dirs |-> Absent]
    /\ aside = {} /\ run = NoOperation /\ edits = 0 /\ runs = 0

PiRest ==
    /\ piFiles = [p \in Paths |-> NoFile] /\ source = NoFile /\ manifest = NoFile
    /\ pi = PiIdle /\ piEdits = 0 /\ piCommands = 0
    /\ original = piFiles /\ drifted = {} /\ disturbed = FALSE

AgentFilesInit ==
    \/ group = "prompts" /\ Init /\ PluginRest /\ PiRest
    \/ group = "plugin" /\ PromptsRest /\ PluginInit /\ PiRest
    \/ group = "pi" /\ PromptsRest /\ PluginRest /\ PiInit

PromptsStep == group = "prompts" /\ Next /\ UNCHANGED <<pluginVars, piVars>>
PluginStep == group = "plugin" /\ PluginNext /\ UNCHANGED <<vars, piVars>>
PiStep == group = "pi" /\ PiNext /\ UNCHANGED <<vars, pluginVars>>

AgentFilesNext == (PromptsStep \/ PluginStep \/ PiStep) /\ UNCHANGED group

AgentFilesSpec ==
    AgentFilesInit /\ [][AgentFilesNext]_<<group, vars, pluginVars, piVars>>
====
