---------------------------- MODULE ConfigCommands ----------------------------
(***************************************************************************)
(* The commands that change the managed configuration files: install (from *)
(* the command line and from the TUI), sync, upgrade and uninstall.  Each  *)
(* takes a backup first; install and sync run in the pipeline and roll     *)
(* back, the other two do not.  Also the operations of the TUI's Backups   *)
(* screen, which works on a list of manifests it read earlier, and restore *)
(* from the command line.                                                  *)
(*                                                                         *)
(* Commands run one after the other, and fail or are killed only as Faults *)
(* says; the user edits files and backups between them.  What the applied  *)
(* components write is arbitrary within the files the command backs up.    *)
(***************************************************************************)
EXTENDS Pipeline, Backups

CONSTANTS
    Kinds,           \* the commands in use
    InstallPlan,     \* installRuntime.stagePlan
    SyncPlan,        \* syncRuntime.stagePlan
    TargetSets,      \* sets of files a command may manage
    GuidancePaths,   \* communitytool.CodeGraphManagedPaths
    Faults,          \* what may go wrong
    TuiOperations,   \* operations of the Backups screen in use
    MaxBackups       \* bound on the number of commands

ASSUME KindsAssumption ==
    Kinds \subseteq {"install", "tuiInstall", "sync", "upgrade", "uninstall"}

ASSUME PlanAssumption ==
    /\ {InstallPlan, SyncPlan} \subseteq Plans
    /\ InstallPlan.prepare = <<"dependencies", "snapshot">>
    /\ SyncPlan.prepare = <<"snapshot">>
    /\ \A plan \in {InstallPlan, SyncPlan} : \A i \in DOMAIN plan.apply :
          plan.apply[i] = "restore" <=> i = 1
    /\ Reversible = {"restore", "guidance"}
    /\ Policies = {"StopOnError", "ContinueOnError"}

ASSUME PathAssumption ==
    TargetSets \subseteq SUBSET Path /\ GuidancePaths \subseteq Path

ASSUME FaultsAssumption ==
    Faults \subseteq {"crash", "snapshot", "annotate", "prune", "restore"}

ASSUME TuiAssumption == TuiOperations \subseteq {"pin", "rename", "delete"}

VARIABLES
    cmd,      \* the command in progress
    next,     \* identifier of the next backup: the time
    listed    \* Model.Backups of the TUI

vars == <<exec, files, dirs, cmd, next, listed>>

(* What of the files in paths may be found after somebody wrote them.      *)
Writes(paths) ==
    {fs \in Files : \A p \in Path \ paths :
        /\ p \in DOMAIN fs <=> p \in DOMAIN files
        /\ p \in DOMAIN fs => fs[p] = files[p]}

Pipelined == {"install", "tuiInstall", "sync"}

NoExecution ==
    [Execution([prepare |-> << >>, apply |-> << >>], "StopOnError")
        EXCEPT !.stage = "done"]

(* manifest is runtimeState.manifest, {} when it has its zero value; saved *)
(* is what the guidance step read before it wrote.  before and touched     *)
(* serve the properties: the targets when the command began, and whether   *)
(* it has written any.                                                     *)
Command(kind, pc, targets, id) ==
    [kind |-> kind, pc |-> pc, targets |-> targets, id |-> id,
     manifest |-> {}, doomed |-> {}, saved |-> NoFiles,
     before |-> Managed(files, targets), touched |-> FALSE]

Idle ==
    [kind |-> "none", pc |-> "idle", targets |-> {}, id |-> 0,
     manifest |-> {}, doomed |-> {}, saved |-> NoFiles,
     before |-> NoFiles, touched |-> FALSE]

Goto(pc) == cmd' = [cmd EXCEPT !.pc = pc]

Stop == cmd' = Idle /\ exec' = NoExecution

AtPrepare(step) ==
    /\ cmd.pc = "run" /\ exec.stage = "prepare"
    /\ ~RunIsOver(exec.plan.prepare, exec.prepared)
    /\ exec.plan.prepare[Len(exec.prepared) + 1] = step

AtApply(step) ==
    /\ cmd.pc = "run" /\ exec.stage = "apply"
    /\ ~RunIsOver(exec.plan.apply, exec.applied)
    /\ exec.plan.apply[Len(exec.applied) + 1] = step

---------------------------------------------------------------------------
Begin(kind, targets) ==
    /\ cmd.pc = "idle" /\ next <= MaxBackups
    /\ next' = next + 1
    /\ IF kind \in Pipelined
       THEN /\ cmd' = Command(kind, "run", targets, next)
            /\ exec' = Execution(IF kind = "sync" THEN SyncPlan ELSE InstallPlan,
                                 IF kind = "tuiInstall" THEN "ContinueOnError"
                                                        ELSE "StopOnError")
       ELSE cmd' = Command(kind, "archive", targets, next) /\ exec' = exec
    /\ UNCHANGED <<files, dirs, listed>>

CheckDependencies(status) ==
    /\ AtPrepare("dependencies")
    /\ Prepare(status)
    /\ UNCHANGED <<files, dirs, cmd, next, listed>>

(* prepareBackupStep.Run: a duplicate ends the step, without a manifest.   *)
Deduplicate ==
    /\ AtPrepare("snapshot")
    /\ IF IsDuplicate(ComputeChecksum(cmd.targets))
       THEN Prepare("succeeded") /\ UNCHANGED cmd
       ELSE Goto("archive") /\ UNCHANGED exec
    /\ UNCHANGED <<files, dirs, next, listed>>

(* Snapshotter.Create: the loop over the paths and the archive ...         *)
CreateArchive ==
    /\ cmd.pc = "archive"
    /\ dirs' = ArchiveWritten(cmd.id, cmd.targets \cap DOMAIN files)
    /\ Goto("manifest")
    /\ UNCHANGED <<exec, files, next, listed>>

Archived == UNION {DOMAIN a : a \in Dir(cmd.id).archive}

(* ... then the checksum, for which the files are read again, and the      *)
(* manifest.                                                               *)
WriteManifest ==
    LET checksum == IF Archived = {} THEN emptyFilesChecksum
                    ELSE ComputeChecksum(Archived)
        manifest == Manifest(cmd.id, cmd.targets, Archived, checksum)
    IN  /\ cmd.pc = "manifest"
        /\ dirs' = ManifestWritten(manifest)
        /\ cmd' = [cmd EXCEPT !.pc = "annotate", !.manifest = {manifest}]
        /\ UNCHANGED <<exec, files, next, listed>>

(* Create fails: the step of install or sync, or all of uninstall, fails;  *)
(* upgrade goes on.                                                        *)
SnapshotFails ==
    /\ "snapshot" \in Faults
    /\ cmd.pc \in {"archive", "manifest"}
    /\ dirs' = ManifestEmptied(cmd.id)
    /\ CASE cmd.kind \in Pipelined  -> Prepare("failed") /\ Goto("run")
         [] cmd.kind = "uninstall"  -> Stop
         [] cmd.kind = "upgrade"    -> Goto("prune") /\ UNCHANGED exec
    /\ UNCHANGED <<files, next, listed>>

AfterSnapshot == IF cmd.kind = "uninstall" THEN "change" ELSE "prune"

(* The manifest is written again, with its source and description.         *)
Annotate ==
    /\ cmd.pc = "annotate"
    /\ \E manifest \in cmd.manifest : dirs' = ManifestWritten(manifest)
    /\ Goto(AfterSnapshot)
    /\ UNCHANGED <<exec, files, next, listed>>

AnnotateFails ==
    /\ "annotate" \in Faults
    /\ cmd.pc = "annotate"
    /\ dirs' = ManifestEmptied(cmd.id)
    /\ IF cmd.kind = "uninstall" THEN Stop
       ELSE Goto(AfterSnapshot) /\ UNCHANGED exec
    /\ UNCHANGED <<files, next, listed>>

---------------------------------------------------------------------------
(* Prune lists the backups once and deletes what it chose one by one.      *)
Prune ==
    /\ cmd.pc = "prune"
    /\ cmd' = [cmd EXCEPT !.pc = "pruning",
                          !.doomed = ToDelete(ListManifests(dirs))]
    /\ UNCHANGED <<exec, files, dirs, next, listed>>

DeleteBackup(m) ==
    /\ cmd.pc = "pruning" /\ m \in cmd.doomed
    /\ dirs' = WithoutDir(m.id)
    /\ cmd' = [cmd EXCEPT !.doomed = @ \ {m}]
    /\ UNCHANGED <<exec, files, next, listed>>

(* RemoveAll fails when it has removed a part; the loop goes on.           *)
DeleteFails(m) ==
    /\ "prune" \in Faults
    /\ cmd.pc = "pruning" /\ m \in cmd.doomed
    /\ \E left \in {Dir(m.id), [Dir(m.id) EXCEPT !.archive = {}],
                    [Dir(m.id) EXCEPT !.manifest = {}]} :
          dirs' = WithDir(m.id, left)
    /\ cmd' = [cmd EXCEPT !.doomed = @ \ {m}]
    /\ UNCHANGED <<exec, files, next, listed>>

EndPrune ==
    /\ cmd.pc = "pruning" /\ cmd.doomed = {}
    /\ IF cmd.kind \in Pipelined THEN Prepare("succeeded") /\ Goto("run")
       ELSE Goto("change") /\ UNCHANGED exec
    /\ UNCHANGED <<files, dirs, next, listed>>

---------------------------------------------------------------------------
(* rollbackRestoreStep.Run does nothing.                                   *)
ApplyRestore ==
    /\ AtApply("restore")
    /\ Apply("succeeded")
    /\ UNCHANGED <<files, dirs, cmd, next, listed>>

(* Any other step writes managed files, also when it fails.                *)
ApplyComponent(status) ==
    /\ \E step \in Step \ Reversible : AtApply(step)
    /\ Apply(status)
    /\ files' \in Writes(cmd.targets)
    /\ cmd' = [cmd EXCEPT !.touched = TRUE]
    /\ UNCHANGED <<dirs, next, listed>>

(* codeGraphGuidanceSyncStep.Run keeps what it found, and puts it back     *)
(* itself when it fails.                                                   *)
ApplyGuidance(status) ==
    /\ AtApply("guidance")
    /\ Apply(status)
    /\ files' \in IF status = "succeeded" \/ "restore" \in Faults
                 THEN Writes(GuidancePaths) ELSE {files}
    /\ cmd' = [cmd EXCEPT !.touched = TRUE,
                          !.saved = Managed(files, GuidancePaths)]
    /\ UNCHANGED <<dirs, next, listed>>

(* restoreSyncFiles goes on when a file cannot be restored.                *)
UndoGuidance(i, status) ==
    /\ cmd.pc = "run" /\ exec.stage = "rollback"
    /\ exec.plan.apply[i] = "guidance"
    /\ Undo(i, status)
    /\ \E done \in SUBSET GuidancePaths :
          /\ done = GuidancePaths <=> status = "succeeded"
          /\ files' = [p \in (DOMAIN files \ done) \union (done \cap DOMAIN cmd.saved)
                         |-> IF p \in done THEN cmd.saved[p] ELSE files[p]]
    /\ status = "failed" => "restore" \in Faults
    /\ UNCHANGED <<dirs, cmd, next, listed>>

(* RestoreService.Restore: nothing when the archive cannot be read, else   *)
(* all entries or those before the one that failed.                        *)
Restore(m, status) ==
    \E done \in SUBSET m.entries :
        /\ done = m.entries <=> status = "succeeded"
        /\ IF Restorable(m) THEN status = "failed" => "restore" \in Faults
           ELSE status = "failed" /\ done = {}
        /\ files' = Restored(m, done)

(* rollbackRestoreStep.Rollback                                            *)
UndoRestore(i, status) ==
    /\ cmd.pc = "run" /\ exec.stage = "rollback"
    /\ exec.plan.apply[i] = "restore"
    /\ Undo(i, status)
    /\ IF cmd.manifest = {} THEN status = "succeeded" /\ files' = files
       ELSE \E m \in cmd.manifest : Restore(m, status)
    /\ UNCHANGED <<dirs, cmd, next, listed>>

(* The steps of the pipeline that touch nothing else.                      *)
Advance ==
    /\ cmd.pc = "run"
    /\ EndPrepare \/ EndApply \/ EndRollback
    /\ UNCHANGED <<files, dirs, cmd, next, listed>>

(* Upgrade runs package managers, and uninstall rewrites and removes one   *)
(* file after the other; both may stop anywhere.                           *)
Change(p) ==
    /\ cmd.pc = "change" /\ p \in cmd.targets
    /\ files' \in Writes({p})
    /\ cmd' = [cmd EXCEPT !.touched = TRUE]
    /\ UNCHANGED <<exec, dirs, next, listed>>

Finish ==
    /\ \/ cmd.pc = "change"
       \/ cmd.pc = "run" /\ exec.stage = "done"
    /\ Stop
    /\ UNCHANGED <<files, dirs, next, listed>>

(* The process is killed, perhaps while it writes the manifest.            *)
Crash ==
    /\ "crash" \in Faults /\ cmd.pc # "idle"
    /\ \/ dirs' = dirs
       \/ cmd.pc = "annotate" /\ dirs' = ManifestEmptied(cmd.id)
    /\ Stop
    /\ UNCHANGED <<files, next, listed>>

---------------------------------------------------------------------------
(* What a user does between two commands: edits, and the Backups screen     *)
(* and restore.                                                            *)
UserMayAct == cmd.pc = "idle"

Edit(p) ==
    /\ UserMayAct
    /\ files' \in Writes({p})
    /\ UNCHANGED <<exec, dirs, cmd, next, listed>>

(* gentle-ai restore, which reads the manifests anew.                      *)
RestoreById(m, status) ==
    /\ cmd.pc = "idle" /\ m \in ListManifests(dirs)
    /\ Restore(m, status)
    /\ UNCHANGED <<exec, dirs, cmd, next, listed>>

OpenTui ==
    /\ TuiOperations # {} /\ UserMayAct
    /\ listed' = ListManifests(dirs)
    /\ UNCHANGED <<exec, files, dirs, cmd, next>>

(* Every operation is followed by a new listing, but works on the old one. *)
Relisted == listed' = ListManifests(dirs')

(* The screen's list is read when the program starts and not after an      *)
(* install or a sync, so it may be out of date.                            *)
ScreenAllows(operation) ==
    operation \in TuiOperations /\ UserMayAct

TogglePin(m) ==
    /\ ScreenAllows("pin")
    /\ dirs' = ManifestWritten([m EXCEPT !.pinned = ~@])
    /\ Relisted
    /\ UNCHANGED <<exec, files, cmd, next>>

RenameBackup(m) ==
    /\ ScreenAllows("rename")
    /\ dirs' = ManifestWritten(m)
    /\ Relisted
    /\ UNCHANGED <<exec, files, cmd, next>>

RemoveBackup(m) ==
    /\ ScreenAllows("delete")
    /\ dirs' = WithoutDir(m.id)
    /\ Relisted
    /\ UNCHANGED <<exec, files, cmd, next>>

RestoreListed(m, status) ==
    /\ cmd.pc = "idle" /\ m \in listed
    /\ Restore(m, status)
    /\ UNCHANGED <<exec, dirs, cmd, next>>
    /\ Relisted

---------------------------------------------------------------------------
CommandInit ==
    /\ exec = NoExecution
    /\ files \in Files
    /\ dirs = [d \in {} |-> NoDir]
    /\ cmd = Idle
    /\ next = 1
    /\ listed = {}

Snapshot ==
    \/ Deduplicate \/ CreateArchive \/ WriteManifest \/ SnapshotFails
    \/ Annotate \/ AnnotateFails
    \/ Prune \/ EndPrune
    \/ \E m \in cmd.doomed : DeleteBackup(m) \/ DeleteFails(m)

Run ==
    \/ \E status \in Status :
          \/ CheckDependencies(status)
          \/ ApplyComponent(status) \/ ApplyGuidance(status)
    \/ ApplyRestore
    \/ \E i \in 1 .. exec.undo, status \in Status :
          UndoGuidance(i, status) \/ UndoRestore(i, status)
    \/ Advance
    \/ \E p \in Path : Change(p)
    \/ Finish

User ==
    \/ \E kind \in Kinds, targets \in TargetSets : Begin(kind, targets)
    \/ \E p \in Path : Edit(p)
    \/ \E m \in ListManifests(dirs), status \in Status : RestoreById(m, status)
    \/ OpenTui
    \/ \E m \in listed : TogglePin(m) \/ RenameBackup(m) \/ RemoveBackup(m)
    \/ \E m \in listed, status \in Status : RestoreListed(m, status)

CommandNext == Snapshot \/ Run \/ Crash \/ User

CommandSpec == CommandInit /\ [][CommandNext]_vars

---------------------------------------------------------------------------

(* Some backup, listed or the command's own, brings back the targets that  *)
(* existed when the command in progress began.                             *)
RecoveryPath ==
    \E m \in ListManifests(dirs) \union cmd.manifest :
        /\ Restorable(m) /\ DOMAIN cmd.before \subseteq m.existed
        /\ \A archive \in Dir(m.id).archive :
              Managed(archive, DOMAIN cmd.before) = cmd.before

(* "Backups before mutation: managed installs, syncs, and uninstalls must  *)
(* preserve a rollback path" (docs/codebase/mental-model.md:46): when one  *)
(* of them has written managed files, a backup holds them as they were.    *)
RollbackPathKept ==
    cmd.touched /\ cmd.kind # "upgrade" => RecoveryPath

(* The only way to lose the rollback path, whatever failed, was killed,    *)
(* pruned, deleted or skipped as a duplicate before, is to be taken for a  *)
(* duplicate of a most recent backup that has lost its archive.            *)
RollbackPathGuarded ==
    \/ RollbackPathKept
    \/ \E latest \in ListManifests(dirs) :
          /\ \A m \in ListManifests(dirs) : m.id <= latest.id
          /\ cmd.manifest = {} /\ ~Restorable(latest)

(* After a failed install or sync whose own backup was restored, the       *)
(* targets are what they were when the command began, whatever the other   *)
(* steps' rollbacks wrote and whether they failed.                         *)
RollbackRestoresTargets ==
    /\ cmd.pc = "run" /\ exec.stage = "done" /\ cmd.manifest # {}
    /\ \E i \in DOMAIN exec.undone :
          /\ exec.plan.apply[exec.undone[i].at] = "restore"
          /\ exec.undone[i].status = "succeeded"
    => Managed(files, cmd.targets) = cmd.before

(* The integration test of a failing install (cli/run_integration_test.go, *)
(* 325-379) expects its files as before: so for every install whose        *)
(* rollback reports success.                                               *)
FailedInstallIsUndone ==
    /\ cmd.pc = "run" /\ exec.stage = "done" /\ Failed(exec.applied)
    /\ \A i \in DOMAIN exec.undone : exec.undone[i].status = "succeeded"
    => Managed(files, cmd.targets) = cmd.before

(* A listed backup that pruning removes was not pinned, and as many newer  *)
(* unpinned ones as are to be kept remain listed, whatever was pinned,     *)
(* deleted or left half deleted before (backup/retention.go:119-170).      *)
PruneIsSafe ==
    [][cmd.pc = "pruning" =>
         \A m \in ListManifests(dirs) \ ListManifests(dirs') :
             /\ ~m.pinned
             /\ Cardinality(Newer(m, Unpinned(ListManifests(dirs')))) >= Retention]_vars
================================================================================
