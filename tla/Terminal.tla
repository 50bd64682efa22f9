------------------------------- MODULE Terminal -------------------------------
(***************************************************************************)
(* The terminal interface: one screen at a time, keys that move between    *)
(* screens or start an operation, and the messages operations end with.    *)
(* A handler runs to its end before the next key or message is looked at;  *)
(* the operations run beside it.  The screens are those the shipped        *)
(* program shows: model.QEInstallerFlow is set in it for good.  The        *)
(* screens on which an install or an uninstall is put together, and those  *)
(* that annotate or delete a backup, differ in what is picked and not in   *)
(* what runs: they are one screen each.                                    *)
(***************************************************************************)
EXTENDS Operations

VARIABLES
    m,          \* the interface's model
    yanked      \* history: a restore ended while another screen was shown

(* Selection: Detection, Agents, Persona, Preset, DependencyTree, Review.  *)
(* Uninstall: UninstallMode, Uninstall, its Components and its Profiles.   *)
(* Backups: Backups, DeleteConfirm, DeleteResult, RenameBackup.            *)
Screen ==
    {"Welcome", "UpdatePrompt", "Upgrade", "Sync", "UpgradeSync",
     "Selection", "Installing", "Complete",
     "Uninstall", "UninstallConfirm", "UninstallResult",
     "Backups", "RestoreConfirm", "RestoreResult"}

(* running is OperationRunning and piping pipelineRunning; report is what  *)
(* UpgradeReport says was upgraded, synced HasSyncRun, checked             *)
(* UpdateCheckDone, updates HasUpdates and done Progress.Done.             *)
InitialModel ==
    [screen |-> "Welcome", running |-> FALSE, piping |-> FALSE,
     report |-> "none", synced |-> FALSE, checked |-> FALSE, updates |-> FALSE,
     done |-> FALSE, quit |-> FALSE]

OperationReset(n) ==
    [n EXCEPT !.report = "none", !.synced = FALSE, !.running = FALSE]
UninstallReset(n) == [n EXCEPT !.running = FALSE]

On(n, screen) == [n EXCEPT !.screen = screen]
Show(screen) == m' = On(m, screen)

(* Once it quits, what the interface knew no longer matters.               *)
Gone == [InitialModel EXCEPT !.quit = TRUE]
Quit == m' = Gone

KeepRest == UNCHANGED <<cmds, file, replaced, yanked>>

(* A key that starts an operation.  The slot of the check that follows an  *)
(* upgrade is kept free for it.                                            *)
Upgrades == {"upgrade", "upgradeSync"}
Room(op) ==
    /\ Free(op, cmds)
    /\ op \in Upgrades => Free("check", cmds) /\ \A s \in Busy : cmds[s].op \notin Upgrades
Start(g, n) ==
    /\ Room(g.op)
    /\ cmds' = Spawn(cmds, g)
    /\ m' = n
    /\ UNCHANGED <<file, replaced, yanked>>

-----------------------------------------------------------------------------
(* Keys.                                                                   *)

(* The menus: where Enter may lead without doing anything else.            *)
Choices(screen) ==
    CASE screen = "Welcome" -> {"Selection", "Uninstall", "Backups"}
      [] screen \in {"UpdatePrompt", "Selection"} -> {"Welcome"}
      [] screen = "Uninstall" -> {"UninstallConfirm", "Welcome"}
      [] screen = "Backups" -> {"Welcome", "RestoreConfirm"}
      [] screen \in {"RestoreConfirm", "RestoreResult"} -> {"Backups"}
      [] OTHER -> {}

Select ==
    /\ ~m.quit
    /\ \E screen \in Choices(m.screen) : Show(screen)
    /\ KeepRest

OpenOperation ==
    /\ ~m.quit /\ m.screen = "Welcome"
    /\ \E screen \in {"Upgrade", "Sync", "UpgradeSync"} : m' = On(OperationReset(m), screen)
    /\ KeepRest

ConfirmUninstall ==
    /\ ~m.quit /\ m.screen = "UninstallConfirm" /\ ~m.running
    /\ \/ Show("Uninstall") /\ KeepRest
       \/ \E clean \in BOOLEAN :
              Start([Started("uninstall") EXCEPT !.clean = clean], [m EXCEPT !.running = TRUE])

LeaveUninstallResult ==
    /\ ~m.quit /\ m.screen = "UninstallResult"
    /\ m' = On(UninstallReset(m), "Welcome")
    /\ KeepRest

ConfirmUpgrade ==
    /\ ~m.quit /\ m.screen = "Upgrade" /\ ~m.running
    /\ \/ m.report = "product" /\ Quit /\ KeepRest
       \/ m.report = "tools" /\ m' = On(OperationReset(m), "Welcome") /\ KeepRest
       \/ m.report = "none" /\ m.checked /\ ~m.updates /\ Show("Welcome") /\ KeepRest
       \/ /\ m.report = "none" /\ m.checked /\ m.updates
          /\ Start([Started("upgrade") EXCEPT !.updates = TRUE], [m EXCEPT !.running = TRUE])

ConfirmPrompt ==
    /\ ~m.quit /\ m.screen = "UpdatePrompt" /\ ~m.running
    /\ Start([Started("upgrade") EXCEPT !.updates = m.updates],
             [m EXCEPT !.running = TRUE, !.screen = "Upgrade"])

(* Faulty: the operation is not marked as running.                         *)
ConfirmSyncUnmarked ==
    /\ ~m.quit /\ m.screen = "Sync" /\ ~m.running
    /\ \/ m.synced /\ m' = On(OperationReset(m), "Welcome") /\ KeepRest
       \/ ~m.synced /\ Start(Started("sync"), m)

ConfirmSync ==
    /\ ~m.quit /\ m.screen = "Sync" /\ ~m.running
    /\ \/ m.synced /\ m' = On(OperationReset(m), "Welcome") /\ KeepRest
       \/ ~m.synced /\ Start(Started("sync"), [m EXCEPT !.running = TRUE])

ConfirmUpgradeSync ==
    /\ ~m.quit /\ m.screen = "UpgradeSync" /\ ~m.running
    /\ \/ m.report = "product" /\ Quit /\ KeepRest
       \/ /\ m.report # "product" /\ (m.synced \/ m.report # "none")
          /\ m' = On(OperationReset(m), "Welcome") /\ KeepRest
       \/ /\ m.report = "none" /\ ~m.synced
          /\ Start([Started("upgradeSync") EXCEPT !.updates = m.checked /\ m.updates],
                   [m EXCEPT !.running = TRUE])

StartInstalling ==
    /\ ~m.quit /\ m.screen = "Selection"
    /\ Start(Started("install"),
             [m EXCEPT !.screen = "Installing", !.piping = TRUE, !.done = FALSE])

LeaveInstalling ==
    /\ ~m.quit
    /\ \/ m.screen = "Installing" /\ m.done /\ Show("Complete")
       \/ m.screen = "Complete" /\ Quit
    /\ KeepRest

(* Nothing on the screen says that the restore is under way, and nothing   *)
(* keeps the keys from leaving it.                                         *)
ConfirmRestore ==
    /\ ~m.quit /\ m.screen = "RestoreConfirm"
    /\ Start(Started("restore"), m)

(* Esc.  The update prompt handles its own keys, and Esc is none of them.  *)
Previous(screen) ==
    CASE screen \in {"Selection", "Uninstall", "Backups", "Upgrade", "Sync",
                     "UpgradeSync", "UninstallResult"} -> "Welcome"
      [] screen = "Installing" -> "Selection"
      [] screen = "Complete" -> "Installing"
      [] screen = "UninstallConfirm" -> "Uninstall"
      [] screen \in {"RestoreConfirm", "RestoreResult"} -> "Backups"

Escape ==
    /\ ~m.quit /\ m.screen # "UpdatePrompt"
    /\ ~(m.screen = "Installing" /\ m.piping)
    /\ \/ m.report = "product" /\ Quit
       \/ /\ m.report # "product" /\ ~m.running /\ m.screen # "Welcome"
          /\ Show(Previous(m.screen))
    /\ KeepRest

(* q and ctrl+c quit whatever is running.                                  *)
QuitKey == ~m.quit /\ Quit /\ KeepRest

-----------------------------------------------------------------------------
(* Messages.  The one that follows an upgrade starts a new check.          *)
Ended(s, op) == ~m.quit /\ cmds[s].op = op /\ cmds[s].pc = "done"
Removed(s) == [cmds EXCEPT ![s] = NoCommand]
Recheck(cs) == Spawn(cs, Started("check"))

ReceiveCheck(s) ==
    /\ Ended(s, "check")
    /\ LET n == [m EXCEPT !.checked = TRUE, !.updates = cmds[s].updates]
       IN  m' = IF cmds[s].updates /\ m.screen = "Welcome" THEN On(n, "UpdatePrompt") ELSE n
    /\ cmds' = Removed(s)
    /\ UNCHANGED <<file, replaced, yanked>>

(* What the upgrade's report and the check's results become.               *)
Reported(n, g) ==
    LET r == [n EXCEPT !.report = IF g.product THEN "product" ELSE "tools"]
    IN  IF g.exit THEN Gone
        ELSE [r EXCEPT !.checked = FALSE, !.updates = FALSE]

ReceiveUpgrade(s) ==
    /\ Ended(s, "upgrade")
    /\ m' = Reported([m EXCEPT !.running = FALSE], cmds[s])
    /\ cmds' = IF cmds[s].exit THEN Removed(s) ELSE Recheck(Removed(s))
    /\ UNCHANGED <<file, replaced, yanked>>

(* The second half of upgrade and sync begins once the message of the      *)
(* first was received.                                                     *)
ReceivePhase(s) ==
    /\ ~m.quit /\ At(s, "phase")
    /\ m' = Reported(m, cmds[s])
    /\ LET next == [cmds EXCEPT ![s].pc = IF cmds[s].product THEN "mark" ELSE "sync"]
       IN  cmds' = IF cmds[s].exit THEN next ELSE Recheck(next)
    /\ UNCHANGED <<file, replaced, yanked>>

ReceiveSync(s) ==
    /\ Ended(s, "sync") \/ Ended(s, "upgradeSync")
    /\ m' = [m EXCEPT !.running = FALSE, !.synced = TRUE]
    /\ cmds' = Removed(s)
    /\ UNCHANGED <<file, replaced, yanked>>

ReceiveUninstall(s) ==
    /\ Ended(s, "uninstall")
    /\ m' = On([m EXCEPT !.running = FALSE], "UninstallResult")
    /\ cmds' = Removed(s)
    /\ UNCHANGED <<file, replaced, yanked>>

(* Progress is rebuilt from the results of the steps; those of a rollback  *)
(* count neither as succeeded nor as failed.                               *)
ReceivePipeline(s) ==
    /\ Ended(s, "install")
    /\ m' = [m EXCEPT !.piping = FALSE, !.done = ~cmds[s].undone]
    /\ cmds' = Removed(s)
    /\ UNCHANGED <<file, replaced, yanked>>

ReceiveRestore(s) ==
    /\ Ended(s, "restore")
    /\ m' = On(m, "RestoreResult")
    /\ yanked' = (yanked \/ m.screen # "RestoreConfirm")
    /\ cmds' = Removed(s)
    /\ UNCHANGED <<file, replaced>>

Key ==
    \/ Select \/ OpenOperation
    \/ ConfirmUninstall \/ LeaveUninstallResult \/ ConfirmUpgrade \/ ConfirmPrompt
    \/ ConfirmSync \/ ConfirmUpgradeSync \/ StartInstalling \/ LeaveInstalling
    \/ ConfirmRestore \/ Escape \/ QuitKey

Receive(s) ==
    \/ ReceiveCheck(s) \/ ReceiveUpgrade(s) \/ ReceivePhase(s) \/ ReceiveSync(s)
    \/ ReceiveUninstall(s) \/ ReceivePipeline(s) \/ ReceiveRestore(s)
=============================================================================
