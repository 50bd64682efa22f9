---------------------------- MODULE MCMaintenance -----------------------------
(***************************************************************************)
(* The commands that change configuration, those that change the programs, *)
(* the screens they are started from, and the files the components are     *)
(* installed into: they share nothing but the snapshot before an upgrade,  *)
(* which the first have.  A behaviour is of one kind, and the others are   *)
(* at rest.                                                                *)
(***************************************************************************)
EXTENDS MCConfigCommands, MCUpgrades

VARIABLES
    group,
    screens, env, inFlight, asked,
    contents, before, installed, job

screenState == <<screens, env, inFlight, asked>>
fileState == <<contents, before, installed, job>>

N == INSTANCE Navigation WITH
         m <- screens, Agents <- {"opencode", "claude", "pi"}, Seams <- BOOLEAN,
         Stores <- {<<TRUE, TRUE>>, <<FALSE, FALSE>>}, MaxInFlight <- 1

AllComponents ==
    {"persona", "engram", "context7", "permission", "sdd", "skills", "theme", "claude-theme",
     "logo", "gga"}

A == INSTANCE Adapters

\* Each agent alone, two that share a prompt, and two that share nothing.
C == INSTANCE ComponentFiles WITH
         files <- contents, kept <- before,
         Machines <- {<<agent>> : agent \in A!SupportedAgents}
                         \cup {<<"gemini", "antigravity">>, <<"cursor", "trae">>},
         Personas <- {"gentleman", "neutral"},
         Mixes <- {AllComponents},
         Removals <- {AllComponents, {"persona", "skills"}, {"sdd", "theme"},
                      {"context7"}}

ConfigRest ==
    /\ exec = NoExecution /\ files = NoFiles /\ dirs = <<>> /\ cmd = Idle
    /\ next = 1 /\ listed = {}

UpgradesRest ==
    /\ file = Missing /\ machine = Linux /\ binary = machine.tools /\ staged = Nothing
    /\ released = machine.tools /\ assets = TRUE /\ npm = 0
    /\ procs = [p \in Processes |-> NoProcess] /\ commands = 0

ScreensRest ==
    /\ screens = N!NewModel({}, TRUE) /\ env = [qe |-> TRUE, cache |-> FALSE, providers |-> FALSE]
    /\ inFlight = {} /\ asked = "none"

FilesRest == contents = <<>> /\ before = <<>> /\ installed = {} /\ job = "none"

MaintenanceInit ==
    \/ group = "config" /\ CommandInit /\ UpgradesRest /\ ScreensRest /\ FilesRest
    \/ group = "upgrades" /\ ConfigRest /\ UpgradeInit /\ ScreensRest /\ FilesRest
    \/ group = "screens" /\ ConfigRest /\ UpgradesRest /\ N!NavigationInit /\ FilesRest
    \/ group = "files" /\ ConfigRest /\ UpgradesRest /\ ScreensRest /\ C!Init

ConfigStep == group = "config" /\ CommandNext /\ UNCHANGED <<upgradeVars, screenState, fileState>>
UpgradeStep == group = "upgrades" /\ UpgradeNext /\ UNCHANGED <<vars, screenState, fileState>>
ScreenStep == group = "screens" /\ N!NavigationNext /\ UNCHANGED <<vars, upgradeVars, fileState>>
FilesStep ==
    group = "files" /\ C!Next /\ UNCHANGED <<vars, upgradeVars, screenState>>

MaintenanceNext ==
    (ConfigStep \/ UpgradeStep \/ ScreenStep \/ FilesStep) /\ UNCHANGED group

MaintenanceSpec ==
    MaintenanceInit /\ [][MaintenanceNext]_<<group, vars, upgradeVars, screenState, fileState>>

(* Going back undoes going forward (tui/model.go).                         *)
BackIsReverse == N!BackIsReverse

(* What a screen offers to run is what it was asked for: the plan under    *)
(* review is that of the selection, and a sync carries the changes of the  *)
(* screen before it (tui/model.go).                                        *)
OfferIsCurrent == N!PlanIsCurrent /\ N!SyncIsAsked

(* What an install or an uninstall takes from the user's files is in its   *)
(* backup (cli/run.go componentPaths, uninstall/service.go).               *)
ChangesAreBackedUp == group = "files" => C!ChangesAreBackedUp

(* An uninstall takes nothing of the user's and nothing that another       *)
(* component or agent still needs, at whatever operation it ends           *)
(* (uninstall/service.go).                                                 *)
OthersKept == group = "files" => C!OthersKept

(* An uninstall that has finished, killed and started again or not, leaves *)
(* only what no operation looks for (uninstall/service.go).                *)
UninstallRemoves == group = "files" => C!UninstallRemoves
=============================================================================
