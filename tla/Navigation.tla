------------------------------ MODULE Navigation ------------------------------
(***************************************************************************)
(* Where the keys lead: the installer's wizard with its conditional        *)
(* pickers, the shortcuts to model configuration, profiles, community      *)
(* tools and OpenCode plugins, and the messages that arrive in between.    *)
(* The handlers are functions of the interface's model, as in the code.    *)
(* model.QEInstallerFlow selects the flow: the program has it set, the     *)
(* tests of the picker chain have it cleared, and both are followed here.  *)
(***************************************************************************)
EXTENDS Integers, FiniteSets, SequencesExt

CONSTANTS
    Agents,     \* the agents offered
    Seams,      \* the values of model.QEInstallerFlow
    Stores,     \* pairs of env.cache and env.providers, which need the cache
    MaxInFlight \* bound: operations started and not reported

VARIABLES
    m,          \* the interface's model
    env,        \* what it finds: the seam, the model cache, model providers
    inFlight,   \* the operations that have not reported yet
    asked       \* history: what the sync that is offered was asked for

vars == <<m, env, inFlight, asked>>

PickerOf ==
    [claude |-> "ClaudePicker", kiro |-> "KiroPicker", codex |-> "CodexPicker"]
AgentPickers == Range(PickerOf)
Pickers == AgentPickers \cup {"ModelPicker"}
Offered == {PickerOf[a] : a \in Agents \cap DOMAIN PickerOf} \cup {"ModelPicker"}
ProfileSteps == {"ProfileName", "ProfileModels", "ProfileConfirm"}

Component == {"sdd", "skills"}

(* flow is InstallFlowActive, preset is one of those with SDD and skills,  *)
(* with neither, or custom; resolved says that the plan was resolved from  *)
(* this selection; inner are the pickers left in a sub-mode; plugins and   *)
(* tools are the standalone flags, running OperationRunning. A profile's   *)
(* steps are screens of their own, and so are Installing once the pipeline *)
(* is done and Sync once HasSyncRun is set.                                *)
NewModel(agents, qe) ==
    [screen |-> "Welcome", flow |-> FALSE, agents |-> agents, preset |-> "sdd",
     components |-> IF agents = {"pi"} THEN {} ELSE Component, mode |-> IF qe THEN "single" ELSE "none", resolved |-> FALSE,
     inner |-> {}, configMode |-> FALSE, overrides |-> "none",
     plugins |-> FALSE, tools |-> FALSE, running |-> FALSE]

Go(n, screen) == [n EXCEPT !.screen = screen]
ResetSync(n) == [n EXCEPT !.running = FALSE]
ResetOperation(n) == [ResetSync(n) EXCEPT !.overrides = "none"]

Select(n, agents, components) ==
    [n EXCEPT !.agents = agents, !.components = components,
              !.resolved = @ /\ n.agents = agents /\ n.components = components]
Resolve(n) == [n EXCEPT !.resolved = TRUE]
Toggle(set, x) == IF x \in set THEN set \ {x} ELSE set \cup {x}

Presets == IF env.qe THEN {"sdd"} ELSE {"sdd", "memory", "custom"}
ComponentsFor(preset) == IF preset = "sdd" THEN Component ELSE {}

-----------------------------------------------------------------------------
(* Which screens a selection calls for.                                    *)
PiOnly(n) == n.agents = {"pi"}
Custom(n) == n.preset = "custom"
ShowMode(n) == "opencode" \in n.agents /\ "sdd" \in n.components
ShowStrictTDD(n) == ~env.qe /\ "sdd" \in n.components
ShowSkillPicker(n) == Custom(n) /\ "skills" \in n.components
ShowTools(n) == ~env.qe /\ n.flow /\ ~n.tools
ShowPlugins(n) ==
    ~env.qe /\ "opencode" \in n.agents /\ ~(Custom(n) /\ n.screen = "Preset")
ShowAgentPicker(n, s) ==
    "sdd" \in n.components /\ \E a \in n.agents \cap DOMAIN PickerOf : PickerOf[a] = s

(* The picker chain; the shipped flow drops the pickers of one agent and   *)
(* that of the mode.                                                       *)
InChain(n, s) ==
    CASE s \in AgentPickers -> ~env.qe /\ ShowAgentPicker(n, s)
      [] s = "SDDMode" -> ~env.qe /\ ShowMode(n)
      [] s = "ModelPicker" -> ShowMode(n) /\ n.mode = "multi" /\ env.cache
      [] s = "StrictTDD" -> ShowStrictTDD(n)
      [] OTHER -> TRUE

PickerOrder ==
    <<"ClaudePicker", "KiroPicker", "CodexPicker", "SDDMode", "ModelPicker", "StrictTDD">>

Chain(n) ==
    SelectSeq(IF Custom(n) THEN <<"Preset", "DependencyTree">> \o PickerOrder
              ELSE <<"Preset">> \o PickerOrder \o <<"DependencyTree">>,
              LAMBDA s : InChain(n, s))

(* The screens before and after this one in the chain, none if there is    *)
(* no such.                                                                *)
Around(n, step) ==
    {Chain(n)[i + step] :
        i \in {j \in DOMAIN Chain(n) : Chain(n)[j] = n.screen /\ j + step \in DOMAIN Chain(n)}}
NextPicker(n) == Around(n, 1)
PreviousPicker(n) == Around(n, 0 - 1)

(* applyPickerEntry sets a picker up anew; setScreen does not.             *)
EnterPicker(n, s) == Go([n EXCEPT !.inner = @ \ {s}], s)

(* What follows the pickers: two optional screens, then the component tree *)
(* or, when that came first, the skills and the review.                    *)
AfterTools(n) ==
    IF ShowPlugins(n) THEN Go(n, "OpenCodePlugins")
    ELSE IF ~Custom(n) THEN Go(Resolve(n), "DependencyTree")
    ELSE IF ShowSkillPicker(n) THEN Go(n, "SkillPicker") ELSE Go(n, "Review")
AfterPickers(n) == IF ShowTools(n) THEN Go(n, "CommunityTools") ELSE AfterTools(n)
AfterPlugins(n) ==
    IF ~Custom(n) THEN Go(Resolve(n), "DependencyTree")
    ELSE IF ShowSkillPicker(n) THEN Go(n, "SkillPicker") ELSE Go(n, "Review")

(* advanceToNextPickerScreen, if there is a next one.                      *)
Advance(n) ==
    CASE NextPicker(n) = {} -> n
      [] NextPicker(n) = {"DependencyTree"} /\ ShowTools(n) -> Go(n, "CommunityTools")
      [] NextPicker(n) = {"DependencyTree"} /\ ~ShowTools(n) /\ ShowPlugins(n) ->
             Go(n, "OpenCodePlugins")
      [] OTHER ->
             LET s == CHOOSE s \in NextPicker(n) : TRUE
             IN  EnterPicker(IF s = "DependencyTree" THEN Resolve(n) ELSE n, s)

Retreat(n, otherwise) ==
    IF PreviousPicker(n) = {} THEN Go(n, otherwise)
    ELSE EnterPicker(n, CHOOSE s \in PreviousPicker(n) : TRUE)

-----------------------------------------------------------------------------
(* Going back.                                                             *)
LeavePlugins(n) == Go([n EXCEPT !.plugins = FALSE], "Welcome")
LeaveTools(n) == Go([n EXCEPT !.tools = FALSE], "Welcome")
LeaveConfig(n) == Go([n EXCEPT !.configMode = FALSE], "ModelConfig")

(* The first screen of a list that the selection calls for.                *)
Called(n, s) ==
    CASE s = "StrictTDD" -> ShowStrictTDD(n)
      [] s = "SDDMode" -> ShowMode(n)
      [] OTHER -> ShowAgentPicker(n, s)
FirstCalled(n, list, otherwise) == Head(Append(SelectSeq(list, LAMBDA s : Called(n, s)), otherwise))

BackFromTools(n) ==
    IF n.tools THEN LeaveTools(n)
    ELSE Go(n, FirstCalled(n, <<"StrictTDD", "SDDMode", "CodexPicker", "KiroPicker", "ClaudePicker">>,
                           IF Custom(n) THEN "DependencyTree" ELSE "Preset"))

BackFromPlugins(n) ==
    CASE n.plugins -> LeavePlugins(n)
      [] ~n.plugins /\ ShowTools(n) -> Go(n, "CommunityTools")
      [] OTHER -> Go(n, FirstCalled(n, <<"StrictTDD", "SDDMode">>, "Preset"))

(* Faulty: the optional screens are passed over.                           *)
BackFromTreeDirect(n) == IF PiOnly(n) THEN Go(n, "Agents") ELSE Retreat(n, "Preset")

BackFromTree(n) ==
    CASE PiOnly(n) -> Go(n, "Agents")
      [] ~PiOnly(n) /\ ShowPlugins(n) -> Go(n, "OpenCodePlugins")
      [] ~PiOnly(n) /\ ~ShowPlugins(n) /\ ShowTools(n) -> Go(n, "CommunityTools")
      [] OTHER -> Retreat(n, "Preset")

(* The way back of a custom selection: its screens as they were left.      *)
BackAmong(n, list) ==
    LET s == FirstCalled(n, list, "DependencyTree")
    IN  Go(n, IF s = "SDDMode" /\ n.mode = "multi" /\ env.cache THEN "ModelPicker" ELSE s)
BackFromSkills(n) ==
    BackAmong(n, IF Custom(n) THEN <<"StrictTDD", "SDDMode", "KiroPicker", "ClaudePicker">>
                 ELSE <<>>)
BackRowFromSkills(n) ==
    BackAmong(n, IF Custom(n) THEN <<"StrictTDD", "SDDMode", "ClaudePicker">> ELSE <<>>)
BackFromReview(n) ==
    IF ShowSkillPicker(n) THEN Go(n, "SkillPicker") ELSE BackRowFromSkills(n)

(* PreviousScreen.                                                         *)
Backward(screen) ==
    CASE screen \in {"Detection", "Removal", "RemovalResult", "ModelConfig",
                     "Profiles"} -> "Welcome"
      [] screen = "Agents" -> "Detection"
      [] screen = "Persona" -> "Agents"
      [] screen = "Preset" -> "Persona"
      [] screen \in AgentPickers \cup {"SDDMode", "DependencyTree"} -> "Preset"
      [] screen \in {"StrictTDD", "ModelPicker"} -> "SDDMode"
      [] screen \in {"SkillPicker", "Review"} -> "DependencyTree"
      [] screen = "Installed" -> "Review"
      [] screen = "Complete" -> "Installed"
      [] screen = "RemovalConfirm" -> "Removal"
      [] screen \in ProfileSteps \cup {"ProfileDelete"} -> "Profiles"
      [] OTHER -> screen

GoBack(n) ==
    CASE n.screen = "PluginResult" -> LeavePlugins(n)
      [] n.screen = "ToolResult" -> LeaveTools(n)
      [] n.screen \in Pickers /\ n.configMode -> LeaveConfig(n)
      [] n.screen = "SkillPicker" -> BackFromSkills(n)
      [] n.screen = "DependencyTree" /\ ~Custom(n) -> BackFromTree(n)
      [] n.screen = "OpenCodePlugins" -> BackFromPlugins(n)
      [] n.screen = "CommunityTools" -> BackFromTools(n)
      [] n.screen \in AgentPickers \cup {"SDDMode", "StrictTDD"} /\ ~n.configMode ->
             Retreat(n, Backward(n.screen))
      [] n.screen = "Review" -> BackFromReview(n)
      [] n.screen \in {"Sync", "Synced"} -> Go([n EXCEPT !.overrides = "none"], "Welcome")
      [] OTHER -> Go(n, Backward(n.screen))

(* The picker in a sub-mode takes Esc for itself; an operation that runs   *)
(* and some screens refuse it.                                             *)
SubPicker(n) == IF n.screen = "ProfileModels" THEN "ModelPicker" ELSE n.screen
Esc(n) ==
    CASE SubPicker(n) \in n.inner -> [n EXCEPT !.inner = @ \ {SubPicker(n)}]
      [] SubPicker(n) \notin n.inner /\ n.screen = "ProfileName" -> Go(n, "Profiles")
      [] SubPicker(n) \notin n.inner /\ n.screen # "ProfileName"
         /\ (n.running \/ n.screen \in {"Installing", "ToolInstalling"}) -> n
      [] OTHER -> GoBack(n)

-----------------------------------------------------------------------------
(* Enter: what each row of a screen leads to, and the operation it starts. *)
(* Rows that lead back are told apart for the properties.                  *)
Row(kind, n, op) == [kind |-> kind, to |-> n, op |-> op]
On(n) == Row("on", n, "none")
Back(n) == Row("back", n, "none")
Stay(n) == Row("stay", n, "none")
Start(n, op) == Row("on", n, op)

(* The shipped menu is the upstream one with some of its entries.          *)
KeptRows(n) ==
    {On(Go([n EXCEPT !.flow = TRUE], "Detection")), On(Go(ResetOperation(n), "Sync"))}
WelcomeRows(n) ==
    KeptRows(n) \cup
    (IF env.qe THEN {}
     ELSE {On(Go(n, "ModelConfig")), On(Go(n, "Profiles")),
           On(Go([n EXCEPT !.plugins = TRUE], "OpenCodePlugins")),
           On(Go(n, "Removal")), On(Go(n, "RemovalResult")),
           On(Go([n EXCEPT !.tools = TRUE], "CommunityTools"))})

(* The steps before the pickers.                                           *)
AgentsRows(n) ==
    {Stay(Select(n, Toggle(n.agents, a), n.components)) : a \in Agents} \cup
    {Back(Go(n, "Detection"))} \cup
    (CASE n.agents = {} -> {}
       [] PiOnly(n) -> {On(Go(Resolve(Select(n, n.agents, {})), "DependencyTree"))}
       [] OTHER -> {On(Go(n, "Persona"))})

(* Faulty: the shipped flow goes to the plan without resolving it.         *)
PersonaRowsUnresolved(n) ==
    LET preset(p) == Select([n EXCEPT !.preset = p], n.agents, ComponentsFor(p))
    IN  {Back(Go(n, "Agents")),
         CASE env.qe -> On(Go(preset("sdd"), "DependencyTree"))
           [] ~env.qe /\ ~Custom(n) -> On(Go(preset(n.preset), "Preset"))
           [] OTHER -> On(Go(n, "Preset"))}

PersonaRows(n) ==
    LET preset(p) == Select([n EXCEPT !.preset = p], n.agents, ComponentsFor(p))
    IN  {Back(Go(n, "Agents")),
         CASE env.qe -> On(Go(Resolve(preset("sdd")), "DependencyTree"))
           [] ~env.qe /\ ~Custom(n) -> On(Go(preset(n.preset), "Preset"))
           [] OTHER -> On(Go(n, "Preset"))}

AfterPreset(n) ==
    CASE NextPicker(n) \notin {{}, {"DependencyTree"}} ->
             EnterPicker(n, CHOOSE s \in NextPicker(n) : TRUE)
      [] NextPicker(n) \in {{}, {"DependencyTree"}} /\ ShowTools(n) -> Go(n, "CommunityTools")
      [] NextPicker(n) \in {{}, {"DependencyTree"}} /\ ~ShowTools(n) /\ ShowPlugins(n) ->
             Go(n, "OpenCodePlugins")
      [] OTHER -> Go(Resolve(n), "DependencyTree")
PresetRows(n) ==
    {On(AfterPreset(Select([n EXCEPT !.preset = p], n.agents, ComponentsFor(p)))) : p \in Presets}
        \cup {Back(Go(n, "Persona"))}

(* Assignments are confirmed: on with the wizard, or to the sync.          *)
Assigned(n) ==
    IF n.configMode
    THEN Go([ResetSync(n) EXCEPT !.configMode = FALSE, !.overrides = n.screen], "Sync")
    ELSE Advance(n)
BackFromPicker(n) == IF n.configMode THEN LeaveConfig(n) ELSE Retreat(n, n.screen)

(* A picker's sub-mode has no row that leads back; only that of Codex ends *)
(* with the confirmation.                                                  *)
Left(n) == [n EXCEPT !.inner = @ \ {n.screen}]
CodexInnerRows(n) == {Stay(n), On(Assigned(Left(n)))}
InnerRows(n) == {Stay(n), Stay(Left(n)), On(Assigned(n))}
AgentPickerRows(n) ==
    CASE n.screen \in n.inner /\ n.screen = "CodexPicker" -> CodexInnerRows(n)
      [] n.screen \in n.inner /\ n.screen # "CodexPicker" -> InnerRows(n)
      [] OTHER -> {On(Assigned(n)), Stay([n EXCEPT !.inner = @ \cup {n.screen}]),
                   Back(BackFromPicker(n))}

ModeRows(n) ==
    {On(Advance([n EXCEPT !.mode = "single"])),
     On(EnterPicker([n EXCEPT !.mode = "multi"], "ModelPicker")),
     Back(Retreat(n, n.screen))}

(* Without providers the picker only offers to go on with the defaults.    *)
AfterDefaults(n) ==
    CASE ShowStrictTDD(n) -> Go(n, "StrictTDD")
      [] ~ShowStrictTDD(n) /\ Custom(n) -> AfterPlugins(n)
      [] OTHER -> AfterPickers(n)
ModelInnerRows(n) == {Stay(n), Stay(Left(n))}
ModelPickerRows(n) ==
    CASE n.screen \in n.inner -> ModelInnerRows(n)
      [] n.screen \notin n.inner /\ ~env.providers ->
             {Back(LeaveConfig(n))} \cup (IF n.configMode THEN {} ELSE {On(AfterDefaults(n))})
      [] OTHER ->
             {Stay([n EXCEPT !.inner = @ \cup {n.screen}]), On(Assigned(n)),
              Back(BackFromPicker(n))}

StrictRows(n) == {On(AfterPickers(n)), Back(Retreat(n, n.screen))}

ToolRows(n) ==
    {Back(BackFromTools(n))} \cup
    (IF ~n.tools THEN {On(AfterTools(n))}
     ELSE {On(Go([n EXCEPT !.running = FALSE], "ToolResult")),
           Start(Go([n EXCEPT !.running = TRUE], "ToolInstalling"), "tools")})

PluginRows(n) ==
    {Back(BackFromPlugins(n))} \cup
    (IF ~n.plugins THEN {On(AfterPlugins(n))}
     ELSE {On(Go([n EXCEPT !.running = FALSE], "PluginResult")),
           Start(Go([n EXCEPT !.running = TRUE], "PluginResult"), "plugins")})

TreeRows(n) ==
    IF Custom(n)
    THEN {Stay(Select(n, n.agents, Toggle(n.components, c))) : c \in Component} \cup
         {On(LET r == Resolve(n)
             IN  IF NextPicker(r) = {} THEN AfterPickers(r)
                 ELSE EnterPicker(r, CHOOSE s \in NextPicker(r) : TRUE)),
          Back(Go(n, "Preset"))}
    ELSE {On(Go(n, "Review")), Back(BackFromTree(n))}

ReviewRows(n) ==
    {Start(Go(n, "Installing"), "install"),
     Back(BackFromReview(n))}

WizardRows(n) ==
    CASE n.screen = "Detection" -> {On(Go(n, "Agents")), Back(Go(n, "Welcome"))}
      [] n.screen = "Agents" -> AgentsRows(n)
      [] n.screen = "Persona" -> PersonaRows(n)
      [] n.screen = "Preset" -> PresetRows(n)
      [] n.screen \in AgentPickers -> AgentPickerRows(n)
      [] n.screen = "SDDMode" -> ModeRows(n)
      [] n.screen = "ModelPicker" -> ModelPickerRows(n)
      [] n.screen = "StrictTDD" -> StrictRows(n)
      [] n.screen = "CommunityTools" -> ToolRows(n)
      [] n.screen = "OpenCodePlugins" -> PluginRows(n)
      [] n.screen = "DependencyTree" -> TreeRows(n)
      [] n.screen = "SkillPicker" -> {On(Go(n, "Review")), Back(BackRowFromSkills(n))}
      [] n.screen = "Review" -> ReviewRows(n)
      [] n.screen = "Installed" -> {On(Go(n, "Complete"))}
      [] OTHER -> {}

(* Model configuration and profiles end in a sync, the latter without      *)
(* marking it as running.                                                  *)
ModelConfigRows(n) ==
    {On(EnterPicker([n EXCEPT !.configMode = TRUE], s)) : s \in Offered} \cup
    {Back(Go(n, "Welcome"))}

ProfilesRows(n) ==
    {On(Go(n, "ProfileName")), On(Go(n, "ProfileDelete")), Back(Go(n, "Welcome"))}

(* An edited profile goes back to the list, a new one to its name.         *)
ProfileRows(n) ==
    CASE n.screen = "ProfileName" ->
             {On(Go([n EXCEPT !.inner = @ \ {"ModelPicker"}], "ProfileModels"))}
      [] n.screen = "ProfileModels" /\ "ModelPicker" \in n.inner ->
             {Stay([n EXCEPT !.inner = @ \ {"ModelPicker"}])}
      [] n.screen = "ProfileModels" /\ "ModelPicker" \notin n.inner ->
             {On(Go(n, "ProfileConfirm")), Back(Go(n, "Profiles")), Back(Go(n, "ProfileName"))}
             \cup (IF env.providers THEN {Stay([n EXCEPT !.inner = @ \cup {"ModelPicker"}])}
                   ELSE {})
      [] n.screen = "ProfileConfirm" ->
             {Start(Go([ResetSync(n) EXCEPT !.overrides = n.screen], "Sync"), "sync"),
              Back(Go(n, "Profiles"))}

ProfileDeleteRows(n) ==
    {Start(Go([ResetSync(n) EXCEPT !.overrides = "none"], "Sync"), "sync"),
     On(Go(n, "Profiles")), Back(Go(n, "Profiles"))}

SyncRows(n) == IF n.running THEN {} ELSE {Start([n EXCEPT !.running = TRUE], "sync")}

ShortcutRows(n) ==
    CASE n.screen = "Welcome" -> WelcomeRows(n)
      [] n.screen = "ModelConfig" -> ModelConfigRows(n)
      [] n.screen = "Profiles" -> ProfilesRows(n)
      [] n.screen \in ProfileSteps -> ProfileRows(n)
      [] n.screen = "ProfileDelete" -> ProfileDeleteRows(n)
      [] n.screen = "Sync" -> SyncRows(n)
      [] n.screen = "Synced" -> {On(Go(ResetOperation(n), "Welcome"))}
      [] n.screen = "PluginResult" -> {On(LeavePlugins(n))}
      [] n.screen = "ToolResult" -> {On(LeaveTools(n))}
      [] n.screen = "Removal" -> {On(Go(n, "RemovalConfirm")), Back(Go(n, "Welcome"))}
      [] n.screen = "RemovalConfirm" ->
             IF n.running THEN {} ELSE {Start([n EXCEPT !.running = TRUE], "removal")}
      [] n.screen = "RemovalResult" -> {On(Go(n, "Welcome"))}
      [] OTHER -> {}

Rows(n) == WizardRows(n) \cup ShortcutRows(n)

-----------------------------------------------------------------------------
NavigationInit ==
    /\ env \in [qe : Seams, cache : BOOLEAN, providers : BOOLEAN]
    /\ <<env.cache, env.providers>> \in Stores
    /\ \E agents \in SUBSET Agents \ {{}} : m = NewModel(agents, env.qe)
    /\ inFlight = {} /\ asked = "none"

(* The sync that is offered is the one the screen before it asked for.     *)
Asked(from, n) ==
    CASE n.screen = "Sync" /\ from.screen = "Sync" -> asked
      [] n.screen = "Sync" /\ from.screen \in Pickers \cup {"ProfileConfirm"} -> from.screen
      [] OTHER -> "none"

(* Bound: MaxInFlight operations at a time, and one of each kind.          *)
PressEnter ==
    \E row \in Rows(m) :
        /\ row.op # "none" => row.op \notin inFlight /\ Cardinality(inFlight) < MaxInFlight
        /\ m' = row.to
        /\ inFlight' = inFlight \cup ({row.op} \ {"none"})
        /\ asked' = Asked(m, row.to)
        /\ UNCHANGED env

PressEsc ==
    /\ m' = Esc(m)
    /\ asked' = Asked(m, m')
    /\ UNCHANGED <<env, inFlight>>

(* What a message does to the interface, wherever the user has gone.       *)
Told(op) ==
    LET n == [m EXCEPT !.running = FALSE]
    IN  CASE op = "sync" ->
                 {Go([n EXCEPT !.overrides = "none"], IF m.screen = "Sync" THEN "Synced" ELSE m.screen)}
          [] op = "plugins" -> {Go(n, "PluginResult")}
          [] op = "tools" -> {Go(n, "ToolResult")}
          [] op = "removal" -> {Go(n, "RemovalResult")}
          [] op = "install" -> {IF m.screen = "Installing" THEN Go(m, "Installed") ELSE m}

Receive ==
    \E op \in inFlight :
        /\ m' \in Told(op)
        /\ inFlight' = inFlight \ {op}
        /\ asked' = Asked(m, m')
        /\ UNCHANGED env

NavigationNext == PressEnter \/ PressEsc \/ Receive

NavigationSpec == NavigationInit /\ [][NavigationNext]_vars

-----------------------------------------------------------------------------
(* The wizard's screens, when a shortcut does not borrow them.             *)
Wizard ==
    {"Detection", "Agents", "Persona", "Preset", "SDDMode", "StrictTDD", "CommunityTools",
     "OpenCodePlugins", "DependencyTree", "SkillPicker", "Review"} \cup Pickers
InWizard(n) == n.screen \in Wizard /\ ~n.configMode /\ ~n.plugins /\ ~n.tools

(* Where the code does not go back the way it came: a custom selection's   *)
(* way back passes over the optional screens, and so does its way from the *)
(* preset over the component selector; the model picker without a cache or *)
(* without providers; the shipped flow's jump over the preset; Pi alone,   *)
(* chosen when the preset was custom.                                      *)
Asymmetric(n, to) ==
    \/ PiOnly(to) /\ Custom(to)
    \/ PiOnly(to) /\ n.screen # "Agents" /\ to.screen = "DependencyTree"
    \/ Custom(to) /\ n.screen \in {"Preset", "CommunityTools", "OpenCodePlugins"}
       /\ to.screen \in {"CommunityTools", "SkillPicker", "Review"}
    \/ n.screen = "ModelPicker" /\ ~(env.cache /\ env.providers)
    \/ env.qe /\ n.screen = "Persona" /\ to.screen = "DependencyTree"

(* Going back undoes going forward, whichever of the two ways back is      *)
(* taken, Esc or the row that says so (model.go, "INV-2: Esc and           *)
(* Enter-on-Back must produce identical results").                         *)
BackIsReverse ==
    InWizard(m) /\ ~m.running =>
        \A row \in WizardRows(m) : InWizard(row.to) /\ ~Asymmetric(m, row.to) =>
            /\ row.kind = "on" /\ row.to.screen # m.screen => Esc(row.to).screen = m.screen
            /\ row.kind = "back" => row.to.screen = Esc(m).screen

(* The plan shown for review, and installed, was resolved from the         *)
(* selection as it is now (buildDependencyPlan), whatever was changed on   *)
(* the way; a custom selection may get there while it is still empty.      *)
PlanIsCurrent == m.screen = "Review" /\ ~(Custom(m) /\ m.components = {}) => m.resolved

(* The sync that is offered changes the models that the screen before it   *)
(* asked for, and no others (PendingSyncOverrides), wherever messages of   *)
(* other operations have led in between.                                   *)
SyncIsAsked == m.screen = "Sync" /\ ~m.running => m.overrides = asked
=============================================================================
