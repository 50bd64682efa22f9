---------------------------- MODULE ManagedFiles ----------------------------
(***************************************************************************)
(* Installs, syncs and uninstalls as they edit the system prompt files of  *)
(* the agents, step by step, while the user writes into the same files,    *)
(* loses markers and kills commands.  A step is one component on one       *)
(* agent's file, read and replaced at once.  Agents differ in how their    *)
(* file is written (model.SystemPromptStrategy); two may share one file.   *)
(* Backups and failing steps are in ConfigCommands.                        *)
(***************************************************************************)
EXTENDS PromptFile, Planner

CONSTANTS
    AgentOrder,    \* all agents, in the order of the registry
    Path,          \* Path[a]: the prompt file of an agent
    Strategy,      \* "sections", "append", "opencode" or "replace"
    Slim,          \* agents whose persona assets lack the fingerprints
    Titled,        \* agents whose orchestrator has the title of old ones
    Personas,      \* what installs may choose
    Selections,    \* the sets of components an install may be asked for
    Removals,      \* the sequences of components an uninstall may be asked for
    SyncModes,     \* the settings syncs run with
    InitialFiles,  \* what may be in a prompt file before the first command
    Machines,      \* the sets of agents a machine may have
    MaxCommands,   \* bound: commands the user runs
    MaxEdits       \* bound: texts the user adds and markers the user loses

Agents == ToSet(AgentOrder)

ASSUME StrategyAssumption ==
    Strategy \in [Agents -> {"sections", "append", "opencode", "replace"}]

VARIABLES
    present,   \* the agents on the machine
    begun,     \* number of commands begun
    prompt,    \* prompt[p]: the file's tokens
    state,     \* state.json: the installed agents and the persona
    cmd,       \* the command in progress, or the one that just ended
    todo,      \* its steps to come
    texts,     \* where the user has added texts: texts[i] is the file of User(i)
    lost,      \* the files the user has lost a marker of
    legacy     \* the files that held text of earlier programs at the start

machine == <<present, legacy>>

vars == <<machine, begun, prompt, state, cmd, todo, texts, lost>>

NoCommand == [kind |-> "none", agents |-> {}, components |-> {}, persona |-> "",
              strict |-> FALSE]

(* The components that edit prompt files. *)
Prompted == {"persona", "sdd", "engram", "codegraph"}

(* One read and write of the agent's file for a part of a component. *)
Edit(c, a) == [part |-> c, agent |-> a]

(* What a component writes into an agent's file; OpenCode keeps the        *)
(* orchestrator and its rules in its settings.                             *)
Edits(c, a, strict) ==
    CASE c # "sdd" -> <<Edit(c, a)>>
      [] c = "sdd" /\ Strategy[a] = "opencode" -> <<>>
      [] OTHER -> <<Edit("sdd-orchestrator", a), Edit("trigger-rules", a)>>
                  \o (IF strict THEN <<Edit("strict-tdd-mode", a)>> ELSE <<>>)

(* componentApplyStep and componentSyncStep go over the agents per component. *)
AllEdits(components, agents, strict) ==
    FlattenSeq([i \in DOMAIN components |->
        FlattenSeq([j \in DOMAIN agents |-> Edits(components[i], agents[j], strict)])])

InOrder(agents) == SelectSeq(AgentOrder, LAMBDA a : a \in agents)

---------------------------------------------------------------------------
(* The injectors. *)

Text(a, persona) == IF a \in Slim THEN "slim" ELSE persona

PersonaInjected(a, f, persona) ==
    LET heal(g) == StripLegacyATLBlock(g)
        inject(g) == InjectMarkdownSection(heal(g), "persona", Text(a, persona))
    IN  CASE Strategy[a] \in {"sections", "append"} -> inject(StripLegacyPersonaBlock(f))
          [] Strategy[a] = "opencode" ->
                inject(IF Has(f, Open("persona")) THEN StripLegacyPersonaBlock(f)
                       ELSE IF f = <<Base("gentleman")>> THEN <<>> ELSE f)
          [] Strategy[a] = "replace" -> ReplacePersona(f, persona)

Orchestrator(a) == IF a \in Titled THEN "titled" ELSE "new"

OrchestratorInjected(a, f) ==
    LET healed ==
            CASE Strategy[a] = "sections" ->
                    LET g == StripLegacyATLBlock(f) IN
                    IF HasSDDOrchestrator(g) /\ ~Has(g, Open("sdd-orchestrator"))
                    THEN StripBareOrchestratorSection(g) ELSE g
              [] OTHER ->
                    IF HasLegacyBareOrchestrator(f)
                    THEN StripBareOrchestratorForFilePrompt(f) ELSE f
    IN  InjectMarkdownSection(healed, "sdd-orchestrator", Orchestrator(a))

CodeGraphInjected(f) ==
    InjectMarkdownSection(StripLegacyCodeGraphGuidance(f), "codegraph-guidance", "new")

EngramInjected(f) == InjectMarkdownSection(f, "engram-protocol", "new")

(* The strict mode's section is never removed here. *)
Injected(edit, f) ==
    CASE edit.part = "persona" -> PersonaInjected(edit.agent, f, cmd.persona)
      [] edit.part = "sdd-orchestrator" -> OrchestratorInjected(edit.agent, f)
      [] edit.part \in {"trigger-rules", "strict-tdd-mode"} ->
            InjectMarkdownSection(f, edit.part, "new")
      [] edit.part = "engram" -> EngramInjected(f)
      [] edit.part = "codegraph" -> CodeGraphInjected(f)

(* Faulty: the mode's section is left behind.                              *)
RemovedLeavingMode(edit, f) ==
    CASE edit.part = "persona" ->
            RemoveManagedPersonaPreamble(RemoveMarkdownSection(f, "persona"))
      [] edit.part = "sdd" -> RemoveMarkdownSection(f, "sdd-orchestrator")
      [] edit.part = "engram" -> RemoveMarkdownSection(f, "engram-protocol")

(* rewriteMarkdownFile with the cleaners of componentOperations. *)
Removed(edit, f) ==
    CASE edit.part = "persona" ->
            RemoveManagedPersonaPreamble(RemoveMarkdownSection(f, "persona"))
      [] edit.part = "sdd" ->
            RemoveMarkdownSection(RemoveMarkdownSection(f, "sdd-orchestrator"),
                                  "strict-tdd-mode")
      [] edit.part = "engram" -> RemoveMarkdownSection(f, "engram-protocol")

---------------------------------------------------------------------------
(* Commands. *)

Init ==
    /\ present \in Machines /\ begun = 0
    /\ prompt \in [{Path[a] : a \in present} -> InitialFiles]
    /\ state = [agents |-> {}, persona |-> ""]
    /\ cmd = NoCommand /\ todo = <<>>
    /\ texts = <<>> /\ lost = <<>>
    /\ legacy = {p \in DOMAIN prompt : prompt[p] # <<>>}

Begins(kind, agents, components, persona, strict, steps) ==
    /\ todo = <<>> /\ cmd.kind \notin {"install", "sync", "uninstall"}
    /\ begun < MaxCommands /\ begun' = begun + 1
    /\ cmd' = [kind |-> kind, agents |-> agents, components |-> components,
               persona |-> persona, strict |-> strict]
    /\ todo' = steps
    /\ UNCHANGED <<machine, prompt, state, texts, lost>>

(* Components are applied in the order of the plan. *)
Plan == [selected \in Selections |->
            SelectSeq(Resolve(selected), LAMBDA c : c \in Prompted)]

Install ==
    \E agents \in SUBSET present \ {{}}, selected \in Selections, persona \in Personas :
        Begins("install", agents, ToSet(Plan[selected]), persona, FALSE,
               AllEdits(Plan[selected], InOrder(agents), FALSE))

(* BuildSyncSelection, DiscoverAgents and applyResolvedPersona: the agents *)
(* and the persona of state.json, all agents found on disk and the neutral *)
(* persona when it names none.                                             *)
Sync ==
    \E mode \in SyncModes :
        LET agents == IF state.agents = {} THEN present ELSE state.agents
            components == <<"persona", "sdd", "engram">>
                          \o (IF mode.codegraph THEN <<"codegraph">> ELSE <<>>)
            persona == IF state.persona = "" THEN "neutral" ELSE state.persona
        IN  Begins("sync", agents, ToSet(components), persona, mode.strict,
                   AllEdits(components, InOrder(agents), mode.strict))

(* buildPlan: the rewrites of a file are applied one after the other. *)
Uninstall ==
    \E agents \in SUBSET present \ {{}}, components \in Removals :
        Begins("uninstall", agents, ToSet(components), "", FALSE,
               FlattenSeq([j \in DOMAIN InOrder(agents) |->
                  [i \in DOMAIN components |-> Edit(components[i], InOrder(agents)[j])]]))

Apply ==
    /\ todo # <<>>
    /\ LET p == Path[Head(todo).agent] IN
       prompt' = [prompt EXCEPT ![p] =
                     IF cmd.kind = "uninstall" THEN Removed(Head(todo), @)
                     ELSE Injected(Head(todo), @)]
    /\ todo' = Tail(todo)
    /\ UNCHANGED <<machine, begun, state, cmd, texts, lost>>

Ended == [install |-> "installed", sync |-> "synced", uninstall |-> "uninstalled"]

(* A full install replaces what state.json says; one for named agents adds *)
(* them and keeps the persona that was there.                              *)
Installed ==
    \/ state' = [agents |-> cmd.agents, persona |-> cmd.persona]
    \/ state' = [agents |-> state.agents \union cmd.agents,
                 persona |-> IF state.persona = "" THEN cmd.persona ELSE state.persona]

(* updateStateAfterUninstall: all of an agent's components are gone. *)
Uninstalled ==
    state' = IF {"persona", "sdd", "engram"} \subseteq cmd.components
             THEN [state EXCEPT !.agents = @ \ cmd.agents] ELSE state

Finish ==
    /\ todo = <<>> /\ cmd.kind \in DOMAIN Ended
    /\ \/ cmd.kind = "install" /\ Installed
       \/ cmd.kind = "sync" /\ UNCHANGED state
       \/ cmd.kind = "uninstall" /\ Uninstalled
    /\ cmd' = [cmd EXCEPT !.kind = Ended[@]]
    /\ UNCHANGED <<machine, begun, prompt, todo, texts, lost>>

Killed ==
    /\ cmd.kind \in DOMAIN Ended
    /\ cmd' = NoCommand /\ todo' = <<>>
    /\ UNCHANGED <<machine, begun, prompt, state, texts, lost>>

---------------------------------------------------------------------------
(* The user. *)

(* Positions between the tokens of f that no section encloses. *)
Outside(f) ==
    {i \in 1 .. Len(f) + 1 :
        ~\E o \in 1 .. i - 1 : \E c \in i .. Len(f) :
            \E s \in Sections : f[o] = Open(s) /\ f[c] = Close(s)
                                /\ Close(s) \notin {f[j] : j \in o .. c - 1}}

Write ==
    /\ Len(texts) + Len(lost) < MaxEdits
    /\ \E p \in DOMAIN prompt : \E i \in Outside(prompt[p]) :
          /\ prompt' = [prompt EXCEPT ![p] =
                           Before(@, i) \o <<User(Len(texts) + 1)>> \o From(@, i)]
          /\ texts' = Append(texts, p)
    /\ cmd' = IF todo = <<>> THEN NoCommand ELSE cmd
    /\ UNCHANGED <<machine, begun, state, todo, lost>>

LoseMarker ==
    /\ Len(texts) + Len(lost) < MaxEdits /\ cmd.kind \notin DOMAIN Ended
    /\ \E p \in DOMAIN prompt : \E i \in DOMAIN prompt[p] :
          /\ prompt[p][i].kind \in {"open", "close"}
          /\ prompt' = [prompt EXCEPT ![p] = Before(@, i) \o From(@, i + 1)]
          /\ lost' = Append(lost, p)
    /\ cmd' = NoCommand
    /\ UNCHANGED <<machine, begun, state, todo, texts>>

Next == Install \/ Sync \/ Uninstall \/ Apply \/ Finish \/ Killed \/ Write \/ LoseMarker

Spec == Init /\ [][Next]_vars
---------------------------------------------------------------------------
(* Properties. *)

(* The sections a component writes for an agent, with their texts. *)
Parts(a, component, persona, strict) ==
    CASE component = "persona" ->
            IF Strategy[a] = "replace" THEN {} ELSE {<<"persona", Text(a, persona)>>}
      [] component = "sdd" ->
            IF Strategy[a] = "opencode" THEN {}
            ELSE {<<"sdd-orchestrator", Orchestrator(a)>>, <<"trigger-rules", "new">>}
                 \union (IF strict THEN {<<"strict-tdd-mode", "new">>} ELSE {})
      [] component = "engram" -> {<<"engram-protocol", "new">>}
      [] component = "codegraph" -> {<<"codegraph-guidance", "new">>}

(* The section stands in f once and holds the text of one of its writers. *)
OnceCurrent(f, s, text) ==
    /\ \E i \in 1 .. Len(f) - 2 : SubSeq(f, i, i + 2) = <<Open(s), Body(s, text), Close(s)>>
    /\ Cardinality({i \in DOMAIN f : f[i] \in {Open(s), Close(s)}}) = 2

Sharing(a) == {b \in present : Path[b] = Path[a]}

Current(files, a) ==
    \A c \in cmd.components : \A part \in Parts(a, c, cmd.persona, cmd.strict) :
        \E b \in Sharing(a) : \E other \in Parts(b, c, cmd.persona, cmd.strict) :
            other[1] = part[1] /\ OnceCurrent(files[Path[a]], other[1], other[2])

Replaced == {Path[a] : a \in {b \in present : Strategy[b] = "replace"}}

(* When an install or a sync has ended, what it was asked for stands in    *)
(* the file of each agent, once and current, whatever earlier programs     *)
(* left there and wherever an earlier command was killed: no later         *)
(* component has overwritten an earlier one.                               *)
SelectedIsCurrent ==
    cmd.kind \in {"installed", "synced"} =>
        \A a \in cmd.agents : Path[a] \notin Range(lost) => Current(prompt, a)

(* "Content outside the markers (user-authored sections) is preserved"     *)
(* (cli/sync.go:276): no sequence of installs, syncs, changes of persona,  *)
(* uninstalls and killed commands loses a text the user has written into a *)
(* file without legacy text that lost no marker and that no agent's        *)
(* persona replaces.                                                       *)
UserTextKept ==
    \A i \in DOMAIN texts :
        /\ texts[i] \notin legacy \union Range(lost)
        /\ texts[i] \notin Replaced
        => Has(prompt[texts[i]], User(i))

Resynced(files) ==
    FoldLeft(LAMBDA fs, edit : [fs EXCEPT ![Path[edit.agent]] = Injected(edit, @)], files,
             AllEdits(SelectSeq(<<"persona", "sdd", "engram", "codegraph">>,
                                LAMBDA c : c \in cmd.components),
                      InOrder(cmd.agents), cmd.strict))

(* A sync leaves nothing for the next one to change, unless there was text *)
(* of earlier programs or of the user in a file whose top the persona      *)
(* replaces; in a file that lost a marker two more repair every section.   *)
SyncSettles ==
    cmd.kind = "synced" =>
        LET repaired == Resynced(Resynced(prompt)) IN
        /\ (lost = <<>> /\ legacy = {} /\ Replaced \intersect Range(texts) = {})
            => Resynced(prompt) = prompt
        /\ Resynced(repaired) = repaired
        /\ \A a \in cmd.agents : Current(repaired, a)

(* After an uninstall of everything from all agents of a file, what is     *)
(* left of the program in it are the sections no cleaner knows.            *)
UninstallCleans ==
    cmd.kind = "uninstalled" /\ {"persona", "sdd", "engram"} \subseteq cmd.components =>
        \A p \in DOMAIN prompt \ Range(lost) :
            {a \in present : Path[a] = p} \subseteq cmd.agents =>
                Range(prompt[p]) \intersect Opens
                    \subseteq {Open("trigger-rules"), Open("codegraph-guidance")}
=============================================================================
