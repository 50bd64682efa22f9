------------------------ MODULE ConfigCommandsProofs ------------------------
(***************************************************************************)
(* The backups of ConfigCommands protect the files they are taken of, for  *)
(* any files, plans, faults and operations of the Backups screen, and      *)
(* however many commands there are.                                        *)
(*                                                                         *)
(* No promise is inductive by itself.  A backup that is on a screen's list *)
(* or is about to be deleted may have lost its archive, and its manifest   *)
(* may be written back: so for every manifest that anybody knows, an       *)
(* archive that is there is what its checksum says (Described).  What the  *)
(* command's own snapshot holds follows from the phase it is in (Owned,    *)
(* Unwritten), and that a command does not write before it has a snapshot  *)
(* or a duplicate from the pipeline's invariant (Protected).               *)
(***************************************************************************)
EXTENDS ConfigCommands, FiniteSetTheorems, WellFoundedInduction, TLAPS

---------------------------------------------------------------------------
(* The pipeline.  Its rollback is complete and ordered for all plans, of   *)
(* any length, both failure policies and every choice of failing steps.    *)

(* What holds of the rollback while it is under way: the cursor separates  *)
(* the steps that were rolled back from those still to come.               *)
RollbackProgress ==
    exec.stage = "rollback" =>
        /\ RolledBack
        /\ exec.undo <= Len(exec.applied)
        /\ Undone = {i \in DOMAIN exec.applied : MustUndo(i) /\ i > exec.undo}

NothingUndoneBefore ==
    exec.stage \in {"prepare", "apply"} => exec.undone = << >>

NothingAppliedBefore ==
    /\ exec.stage = "prepare" => exec.applied = << >>
    /\ exec.stage = "apply" =>
          /\ Len(exec.prepared) = Len(exec.plan.prepare)
          /\ ~Failed(exec.prepared)

PipelineInv ==
    /\ PipelineTypeOK
    /\ NothingAppliedBefore
    /\ NothingUndoneBefore
    /\ RollbackProgress
    /\ RollbackComplete
    /\ RollbackOrdered
    /\ ApplyGuarded

---------------------------------------------------------------------------
LEMMA InitInvariant == Init => PipelineInv
<1> SUFFICES ASSUME NEW plan \in Plans, NEW policy \in Policies,
                    exec = Execution(plan, policy)
             PROVE  PipelineInv
  BY DEF Init
<1>1. /\ exec.stage = "prepare" /\ exec.undo = 0
      /\ exec.prepared = << >> /\ exec.applied = << >> /\ exec.undone = << >>
      /\ exec.plan = plan /\ exec.policy = policy
  BY DEF Execution
<1>2. plan.prepare \in Seq(Step) /\ plan.apply \in Seq(Step)
  BY PlansAssumption
<1>3. PipelineTypeOK
  <2>1. exec \in [plan : Plans, policy : Policies, stage : Stages,
                  prepared : Seq(Status), applied : Seq(Status),
                  undo : Nat, undone : Seq([at : Nat, status : Status])]
    BY DEF Execution, Stages
  <2> QED BY <1>1, <1>2, <2>1 DEF PipelineTypeOK
<1>4. NothingAppliedBefore /\ NothingUndoneBefore
  BY <1>1 DEF NothingAppliedBefore, NothingUndoneBefore
<1>5. RollbackProgress /\ RollbackComplete
  BY <1>1 DEF RollbackProgress, RollbackComplete
<1>6. RollbackOrdered /\ ApplyGuarded
  BY <1>1 DEF RollbackOrdered, ApplyGuarded
<1> QED BY <1>3, <1>4, <1>5, <1>6 DEF PipelineInv

(* A step that leaves what the rollback works on alone leaves what it has  *)
(* to do alone.                                                            *)
LEMMA SameWork ==
    ASSUME exec'.applied = exec.applied, exec'.plan = exec.plan
    PROVE  /\ \A i : MustUndo(i)' <=> MustUndo(i)
           /\ RolledBack' <=> RolledBack
  BY DEF MustUndo, RolledBack, Failed

LEMMA PrepareStep ==
    ASSUME PipelineInv, NEW status \in Status, Prepare(status)
    PROVE  PipelineInv'
<1> USE DEF PipelineInv
<1>1. /\ exec' = [exec EXCEPT !.prepared = Append(@, status)]
      /\ exec.stage = "prepare"
      /\ Len(exec.prepared) # Len(exec.plan.prepare)
  BY DEF Prepare, RunIsOver
<1>2. /\ exec'.prepared = Append(exec.prepared, status)
      /\ exec'.stage = "prepare" /\ exec'.plan = exec.plan
      /\ exec'.policy = exec.policy
      /\ exec'.applied = << >> /\ exec'.undone = << >>
  BY <1>1 DEF PipelineTypeOK, NothingAppliedBefore, NothingUndoneBefore
<1>3. exec.prepared \in Seq(Status) /\ exec.plan \in Plans
  BY DEF PipelineTypeOK
<1>4. exec.plan.prepare \in Seq(Step) /\ exec.plan.apply \in Seq(Step)
  BY <1>3, PlansAssumption
<1>5. PipelineTypeOK'
  <2>1. exec' \in [plan : Plans, policy : Policies, stage : Stages,
                   prepared : Seq(Status), applied : Seq(Status),
                   undo : Nat, undone : Seq([at : Nat, status : Status])]
    <3>1. Append(exec.prepared, status) \in Seq(Status)
      BY <1>3
    <3> QED BY <1>1, <3>1 DEF PipelineTypeOK
  <2>2. Len(exec'.prepared) <= Len(exec'.plan.prepare)
    BY <1>1, <1>2, <1>3, <1>4 DEF PipelineTypeOK
  <2> QED BY <1>2, <1>4, <2>1, <2>2 DEF PipelineTypeOK
<1>6. NothingAppliedBefore' /\ NothingUndoneBefore'
  BY <1>2 DEF NothingAppliedBefore, NothingUndoneBefore
<1>7. RollbackProgress' /\ RollbackComplete'
  BY <1>2 DEF RollbackProgress, RollbackComplete
<1>8. RollbackOrdered' /\ ApplyGuarded'
  BY <1>2 DEF RollbackOrdered, ApplyGuarded
<1> QED BY <1>5, <1>6, <1>7, <1>8

LEMMA EndPrepareStep ==
    ASSUME PipelineInv, EndPrepare
    PROVE  PipelineInv'
<1> USE DEF PipelineInv
<1>1. /\ exec.stage = "prepare"
      /\ exec.applied = << >> /\ exec.undone = << >>
      /\ \/ Len(exec.prepared) = Len(exec.plan.prepare)
         \/ Failed(exec.prepared)
  BY DEF EndPrepare, RunIsOver, NothingAppliedBefore, NothingUndoneBefore
<1>2. /\ exec'.prepared = exec.prepared /\ exec'.plan = exec.plan
      /\ exec'.policy = exec.policy /\ exec'.undo = exec.undo
      /\ exec'.applied = << >> /\ exec'.undone = << >>
      /\ exec'.stage = IF Failed(exec.prepared) THEN "done" ELSE "apply"
  BY <1>1 DEF EndPrepare, PipelineTypeOK
<1>3. PipelineTypeOK'
  <2>1. exec' \in [plan : Plans, policy : Policies, stage : Stages,
                   prepared : Seq(Status), applied : Seq(Status),
                   undo : Nat, undone : Seq([at : Nat, status : Status])]
    BY DEF EndPrepare, PipelineTypeOK, Stages
  <2> QED BY <1>1, <1>2, <2>1 DEF PipelineTypeOK
<1>4. NothingAppliedBefore' /\ NothingUndoneBefore'
  BY <1>1, <1>2 DEF NothingAppliedBefore, NothingUndoneBefore, Failed
<1>5. ~RolledBack'
  BY <1>2 DEF RolledBack, Failed
<1>6. RollbackProgress' /\ RollbackComplete'
  BY <1>2, <1>5 DEF RollbackProgress, RollbackComplete, Undone
<1>7. RollbackOrdered' /\ ApplyGuarded'
  BY <1>2 DEF RollbackOrdered, ApplyGuarded
<1> QED BY <1>3, <1>4, <1>6, <1>7

LEMMA ApplyStep ==
    ASSUME PipelineInv, NEW status \in Status, Apply(status)
    PROVE  PipelineInv'
<1> USE DEF PipelineInv
<1>1. /\ exec' = [exec EXCEPT !.applied = Append(@, status)]
      /\ exec.stage = "apply"
      /\ Len(exec.applied) # Len(exec.plan.apply)
      /\ ~(exec.policy = "StopOnError" /\ Failed(exec.applied))
  BY DEF Apply, RunIsOver
<1>2. /\ exec'.applied = Append(exec.applied, status)
      /\ exec'.stage = "apply" /\ exec'.plan = exec.plan
      /\ exec'.policy = exec.policy /\ exec'.prepared = exec.prepared
      /\ exec'.undone = << >>
  BY <1>1 DEF PipelineTypeOK, NothingUndoneBefore
<1>3. exec.applied \in Seq(Status) /\ exec.plan \in Plans
  BY DEF PipelineTypeOK
<1>4. exec.plan.prepare \in Seq(Step) /\ exec.plan.apply \in Seq(Step)
  BY <1>3, PlansAssumption
<1>5. PipelineTypeOK'
  <2>1. exec' \in [plan : Plans, policy : Policies, stage : Stages,
                   prepared : Seq(Status), applied : Seq(Status),
                   undo : Nat, undone : Seq([at : Nat, status : Status])]
    <3>1. Append(exec.applied, status) \in Seq(Status)
      BY <1>3
    <3> QED BY <1>1, <3>1 DEF PipelineTypeOK
  <2>2. Len(exec'.applied) <= Len(exec'.plan.apply)
    BY <1>1, <1>2, <1>3, <1>4 DEF PipelineTypeOK
  <2> QED BY <1>2, <1>4, <2>1, <2>2 DEF PipelineTypeOK
<1>6. NothingAppliedBefore' /\ NothingUndoneBefore'
  BY <1>1, <1>2 DEF NothingAppliedBefore, NothingUndoneBefore, Failed
<1>7. RollbackProgress' /\ RollbackComplete' /\ RollbackOrdered'
  BY <1>2 DEF RollbackProgress, RollbackComplete, RollbackOrdered
<1>8. ApplyGuarded'
  <2>1. /\ Len(exec'.prepared) = Len(exec'.plan.prepare)
        /\ ~Failed(exec'.prepared)
    BY <1>1, <1>2 DEF NothingAppliedBefore, Failed
  <2>2. ASSUME exec'.policy = "StopOnError",
               NEW i \in DOMAIN exec'.applied, exec'.applied[i] = "failed"
        PROVE  i = Len(exec'.applied)
    BY <1>1, <1>2, <1>3, <2>2 DEF Failed
  <2> QED BY <2>1, <2>2 DEF ApplyGuarded, Failed
<1> QED BY <1>5, <1>6, <1>7, <1>8

LEMMA EndApplyStep ==
    ASSUME PipelineInv, EndApply
    PROVE  PipelineInv'
<1> USE DEF PipelineInv
<1>1. exec.stage = "apply" /\ exec.undone = << >>
  BY DEF EndApply, NothingUndoneBefore
<1>2. /\ exec'.prepared = exec.prepared /\ exec'.applied = exec.applied
      /\ exec'.plan = exec.plan /\ exec'.policy = exec.policy
      /\ exec'.undone = << >> /\ exec'.undo = Len(exec.applied)
      /\ exec'.stage = IF RolledBack THEN "rollback" ELSE "done"
  BY <1>1 DEF EndApply, PipelineTypeOK, RolledBack
<1>3. exec.applied \in Seq(Status) /\ Len(exec.applied) \in Nat
  BY DEF PipelineTypeOK
<1>4. PipelineTypeOK'
  <2>1. exec' \in [plan : Plans, policy : Policies, stage : Stages,
                   prepared : Seq(Status), applied : Seq(Status),
                   undo : Nat, undone : Seq([at : Nat, status : Status])]
    BY <1>3 DEF EndApply, PipelineTypeOK, Stages
  <2> QED BY <1>2, <2>1 DEF PipelineTypeOK
<1>5. NothingAppliedBefore' /\ NothingUndoneBefore'
  BY <1>2 DEF NothingAppliedBefore, NothingUndoneBefore
<1>6. RolledBack' <=> RolledBack
  BY <1>2, SameWork
<1>7. Undone' = {}
  BY <1>2 DEF Undone
<1>8. RollbackProgress'
  <2>1. {i \in DOMAIN exec'.applied : MustUndo(i)' /\ i > exec'.undo} = {}
    BY <1>2, <1>3
  <2> QED BY <1>2, <1>3, <1>6, <1>7, <2>1 DEF RollbackProgress
<1>9. RollbackComplete'
  BY <1>2, <1>6, <1>7 DEF RollbackComplete
<1>10. RollbackOrdered' /\ ApplyGuarded'
  BY <1>2 DEF RollbackOrdered, ApplyGuarded, Failed
<1> QED BY <1>4, <1>5, <1>8, <1>9, <1>10

LEMMA UndoStep ==
    ASSUME PipelineInv, NEW i \in 1 .. exec.undo, NEW status \in Status,
           Undo(i, status)
    PROVE  PipelineInv'
<1> USE DEF PipelineInv
<1> DEFINE item == [at |-> i, status |-> status]
<1>1. /\ exec' = [exec EXCEPT !.undo = i - 1, !.undone = Append(@, item)]
      /\ exec.stage = "rollback" /\ MustUndo(i)
      /\ \A j \in i + 1 .. exec.undo : ~MustUndo(j)
  BY DEF Undo
<1>2. /\ exec.undo \in Nat /\ i \in Nat /\ i - 1 \in Nat
      /\ exec.undone \in Seq([at : Nat, status : Status])
      /\ exec.applied \in Seq(Status)
  BY DEF PipelineTypeOK
<1>3. /\ exec'.undone = Append(exec.undone, item) /\ exec'.undo = i - 1
      /\ exec'.stage = "rollback" /\ exec'.plan = exec.plan
      /\ exec'.policy = exec.policy /\ exec'.prepared = exec.prepared
      /\ exec'.applied = exec.applied
  BY <1>1 DEF PipelineTypeOK
<1>4. PipelineTypeOK'
  <2>1. exec' \in [plan : Plans, policy : Policies, stage : Stages,
                   prepared : Seq(Status), applied : Seq(Status),
                   undo : Nat, undone : Seq([at : Nat, status : Status])]
    <3>1. Append(exec.undone, item) \in Seq([at : Nat, status : Status])
      BY <1>2
    <3> QED BY <1>1, <1>2, <3>1 DEF PipelineTypeOK
  <2> QED BY <1>3, <2>1 DEF PipelineTypeOK
<1>5. NothingAppliedBefore' /\ NothingUndoneBefore' /\ RollbackComplete'
  BY <1>3 DEF NothingAppliedBefore, NothingUndoneBefore, RollbackComplete
<1>6. /\ RolledBack /\ exec.undo <= Len(exec.applied)
      /\ Undone = {j \in DOMAIN exec.applied : MustUndo(j) /\ j > exec.undo}
  BY <1>1 DEF RollbackProgress
<1>7. Undone' = Undone \union {i}
  <2>1. /\ DOMAIN exec'.undone = DOMAIN exec.undone \union {Len(exec.undone) + 1}
        /\ \A k \in DOMAIN exec.undone : exec'.undone[k] = exec.undone[k]
        /\ exec'.undone[Len(exec.undone) + 1] = item
    BY <1>2, <1>3
  <2>2. Len(exec.undone) + 1 \in DOMAIN exec'.undone /\ item.at = i
    BY <2>1
  <2> QED BY <2>1, <2>2, Zenon DEF Undone
<1>8. RollbackProgress'
  <2>1. \A j : MustUndo(j)' <=> MustUndo(j)
    BY <1>3, SameWork
  <2>2. i \in DOMAIN exec.applied
    BY <1>1 DEF MustUndo
  <2>3. Undone' = {j \in DOMAIN exec'.applied : MustUndo(j)' /\ j > exec'.undo}
    <3>1. ASSUME NEW j \in DOMAIN exec.applied, MustUndo(j)
          PROVE  j > i - 1 <=> j > exec.undo \/ j = i
      <4>1. j \in Nat
        BY <1>2
      <4>2. ~(j \in i + 1 .. exec.undo)
        BY <1>1, <3>1
      <4> QED BY <1>2, <4>1, <4>2
    <3> QED BY <1>1, <1>3, <1>6, <1>7, <2>1, <2>2, <3>1
  <2>4. RolledBack'
    BY <1>3, <1>6, SameWork
  <2> QED BY <1>2, <1>3, <1>6, <2>3, <2>4 DEF RollbackProgress
<1>9. RollbackOrdered'
  <2>1. ASSUME NEW k \in DOMAIN exec.undone
        PROVE  exec.undone[k].at > i
    <3>1. exec.undone[k].at \in Undone
      BY DEF Undone
    <3>2. exec.undone[k].at > exec.undo /\ exec.undone[k].at \in Nat
      BY <1>2, <1>6, <3>1
    <3> QED BY <1>2, <3>2
  <2> SUFFICES ASSUME NEW j \in DOMAIN exec'.undone,
                      NEW k \in DOMAIN exec'.undone, j < k
               PROVE  exec'.undone[j].at > exec'.undone[k].at
    BY DEF RollbackOrdered
  <2>2. CASE k \in DOMAIN exec.undone
    <3>1. /\ j \in DOMAIN exec.undone
          /\ exec'.undone[j] = exec.undone[j]
          /\ exec'.undone[k] = exec.undone[k]
      BY <1>2, <1>3, <2>2
    <3> QED BY <2>2, <3>1 DEF RollbackOrdered
  <2>3. CASE k \notin DOMAIN exec.undone
    <3>1. /\ j \in DOMAIN exec.undone
          /\ exec'.undone[j] = exec.undone[j]
          /\ exec'.undone[k] = item
      BY <1>2, <1>3, <2>3
    <3> QED BY <2>1, <3>1
  <2> QED BY <2>2, <2>3
<1>10. ApplyGuarded'
  BY <1>3 DEF ApplyGuarded, Failed
<1> QED BY <1>4, <1>5, <1>8, <1>9, <1>10

LEMMA EndRollbackStep ==
    ASSUME PipelineInv, EndRollback
    PROVE  PipelineInv'
<1> USE DEF PipelineInv
<1>1. /\ exec.stage = "rollback"
      /\ \A j \in 1 .. exec.undo : ~MustUndo(j)
  BY DEF EndRollback
<1>2. /\ exec.undo \in Nat /\ exec.applied \in Seq(Status)
  BY DEF PipelineTypeOK
<1>3. /\ exec'.undone = exec.undone /\ exec'.undo = exec.undo
      /\ exec'.stage = "done" /\ exec'.plan = exec.plan
      /\ exec'.policy = exec.policy /\ exec'.prepared = exec.prepared
      /\ exec'.applied = exec.applied
  BY DEF EndRollback, PipelineTypeOK
<1>4. PipelineTypeOK'
  <2>1. exec' \in [plan : Plans, policy : Policies, stage : Stages,
                   prepared : Seq(Status), applied : Seq(Status),
                   undo : Nat, undone : Seq([at : Nat, status : Status])]
    BY DEF EndRollback, PipelineTypeOK, Stages
  <2> QED BY <1>3, <2>1 DEF PipelineTypeOK
<1>5. NothingAppliedBefore' /\ NothingUndoneBefore' /\ RollbackProgress'
  BY <1>3 DEF NothingAppliedBefore, NothingUndoneBefore, RollbackProgress
<1>6. RollbackComplete'
  <2>1. /\ RolledBack
        /\ Undone = {j \in DOMAIN exec.applied : MustUndo(j) /\ j > exec.undo}
    BY <1>1 DEF RollbackProgress
  <2>2. Undone = {j \in DOMAIN exec.applied : MustUndo(j)}
    <3>1. ASSUME NEW j \in DOMAIN exec.applied, MustUndo(j)
          PROVE  j > exec.undo
      BY <1>1, <1>2, <3>1
    <3> QED BY <2>1, <3>1
  <2>3. Undone' = Undone
    BY <1>3 DEF Undone
  <2>4. RolledBack' /\ \A j : MustUndo(j)' <=> MustUndo(j)
    BY <1>3, <2>1, SameWork
  <2> QED BY <1>3, <2>2, <2>3, <2>4 DEF RollbackComplete
<1>7. RollbackOrdered' /\ ApplyGuarded'
  BY <1>3 DEF RollbackOrdered, ApplyGuarded, Failed
<1> QED BY <1>4, <1>5, <1>6, <1>7

LEMMA StutterStep ==
    ASSUME PipelineInv, UNCHANGED exec
    PROVE  PipelineInv'
<1>1. PipelineTypeOK' /\ NothingAppliedBefore' /\ NothingUndoneBefore'
  BY DEF PipelineInv, PipelineTypeOK, NothingAppliedBefore, NothingUndoneBefore,
         Failed
<1>2. /\ \A i : MustUndo(i)' <=> MustUndo(i)
      /\ RolledBack' <=> RolledBack
      /\ Undone' = Undone
  BY SameWork DEF Undone
<1>3. RollbackProgress' /\ RollbackComplete'
  BY <1>2 DEF PipelineInv, RollbackProgress, RollbackComplete
<1>4. RollbackOrdered' /\ ApplyGuarded'
  BY DEF PipelineInv, RollbackOrdered, ApplyGuarded, Failed
<1> QED BY <1>1, <1>3, <1>4 DEF PipelineInv

LEMMA NextInvariant == PipelineInv /\ [Next]_exec => PipelineInv'
<1> SUFFICES ASSUME PipelineInv, [Next]_exec
             PROVE  PipelineInv'
  OBVIOUS
<1>1. ASSUME NEW status \in Status, Prepare(status)
      PROVE  PipelineInv'
  BY <1>1, PrepareStep
<1>2. CASE EndPrepare
  BY <1>2, EndPrepareStep
<1>3. ASSUME NEW status \in Status, Apply(status)
      PROVE  PipelineInv'
  BY <1>3, ApplyStep
<1>4. CASE EndApply
  BY <1>4, EndApplyStep
<1>5. ASSUME NEW i \in 1 .. exec.undo, NEW status \in Status, Undo(i, status)
      PROVE  PipelineInv'
  BY <1>5, UndoStep
<1>6. CASE EndRollback
  BY <1>6, EndRollbackStep
<1>7. CASE UNCHANGED exec
  BY <1>7, StutterStep
<1> QED BY <1>1, <1>2, <1>3, <1>4, <1>5, <1>6, <1>7 DEF Next

---------------------------------------------------------------------------
(* The execution keeps its shape: no more results than steps.              *)
THEOREM PipelineTypeCorrect == Spec => []PipelineTypeOK
<1>1. PipelineInv => PipelineTypeOK
  BY DEF PipelineInv
<1> QED BY InitInvariant, NextInvariant, <1>1, PTL DEF Spec

(* A failed apply stage ends with every successful reversible step asked   *)
(* to roll back, whatever other rollbacks returned (ExecuteRollback).      *)
THEOREM RollbackIsComplete == Spec => []RollbackComplete
<1>1. PipelineInv => RollbackComplete
  BY DEF PipelineInv
<1> QED BY InitInvariant, NextInvariant, <1>1, PTL DEF Spec

(* Steps roll back once each, last one first.                              *)
THEOREM RollbackIsOrdered == Spec => []RollbackOrdered
<1>1. PipelineInv => RollbackOrdered
  BY DEF PipelineInv
<1> QED BY InitInvariant, NextInvariant, <1>1, PTL DEF Spec

(* No step is applied after a failed prepare stage, and under StopOnError  *)
(* none after a failed one (Orchestrator.Execute, Runner.Run).             *)
THEOREM ApplyIsGuarded == Spec => []ApplyGuarded
<1>1. PipelineInv => ApplyGuarded
  BY DEF PipelineInv
<1> QED BY InitInvariant, NextInvariant, <1>1, PTL DEF Spec

---------------------------------------------------------------------------
(* The commands: the inductive invariant. *)

Manifests ==
    [id : Nat, entries : SUBSET Path, existed : SUBSET Path,
     checksum : SUBSET Files, pinned : BOOLEAN]

Directories == [manifest : SUBSET Manifests, archive : SUBSET Files]

Snapshotting == {"archive", "manifest", "annotate", "prune", "pruning"}

Phases == {"idle", "run", "change"} \union Snapshotting

Commands ==
    [kind : Kinds \union {"none"}, pc : Phases, targets : SUBSET Path, id : Nat,
     manifest : SUBSET Manifests, doomed : SUBSET Manifests, saved : Files,
     before : Files, touched : BOOLEAN]

CommandTypeOK ==
    /\ files \in Files
    /\ next \in Nat
    /\ DOMAIN dirs \subseteq Nat /\ dirs \in [DOMAIN dirs -> Directories]
    /\ listed \subseteq Manifests
    /\ cmd \in Commands /\ DOMAIN cmd.before \subseteq cmd.targets

(* The pipeline runs for the commands that use it.                         *)
ExecutionOK ==
    IF cmd.kind \in Pipelined
    THEN PipelineInv /\ exec.plan \in {InstallPlan, SyncPlan}
    ELSE exec = NoExecution

(* Which kind of command is in which phase, and where the snapshot of one  *)
(* with a pipeline takes place.                                            *)
PhaseOK ==
    /\ cmd.pc = "idle" => cmd = Idle
    /\ cmd.pc # "idle" => cmd.kind \in Kinds /\ next = cmd.id + 1
    /\ cmd.pc = "run" => cmd.kind \in Pipelined
    /\ cmd.pc = "change" => cmd.kind \notin Pipelined
    /\ cmd.pc \in Snapshotting /\ cmd.kind \in Pipelined =>
          /\ exec.stage = "prepare"
          /\ Len(exec.prepared) + 1 = Len(exec.plan.prepare)

(* A directory holds one manifest, its own, and one archive.               *)
DirectoriesOK ==
    \A d \in DOMAIN dirs :
        /\ d < next
        /\ \A m, n \in dirs[d].manifest : m.id = d /\ m = n
        /\ \A a1, a2 \in dirs[d].archive : a1 = a2

(* Manifests that somebody works with.                                     *)
Known == ListManifests(dirs) \union listed \union cmd.doomed \union cmd.manifest

(* A checksum is of the files that existed, and the archive, as long as it *)
(* is there, is what the checksum says.                                    *)
Described ==
    \A m \in Known :
        /\ \E fs \in m.checksum : m.checksum = {fs} /\ DOMAIN fs = m.existed
        /\ \A archive \in Dir(m.id).archive : m.checksum = {archive}

(* Only the command in progress knows a manifest as new as it is.          *)
Newest ==
    /\ \A m \in Known : m.id < next
    /\ cmd.pc # "idle" =>
          /\ \A m \in ListManifests(dirs) : m.id = cmd.id => m \in cmd.manifest
          /\ \A m \in listed \union cmd.doomed : m.id < cmd.id
          /\ \A m \in cmd.manifest : m.id = cmd.id

(* Until a command has its snapshot it writes nothing.                     *)
Preparing ==
    cmd.pc \in Snapshotting \/ (cmd.pc = "run" /\ exec.stage = "prepare")

Unwritten ==
    Preparing => ~cmd.touched /\ Managed(files, cmd.targets) = cmd.before

(* The backup of what the targets were when the command began.             *)
ArchiveOfBefore == IF DOMAIN cmd.before = {} THEN {} ELSE {cmd.before}

Owned ==
    /\ cmd.pc = "archive" => cmd.manifest = {}
    /\ cmd.pc = "manifest" =>
          cmd.manifest = {} /\ Dir(cmd.id).archive = ArchiveOfBefore
    /\ \A m \in cmd.manifest :
          /\ cmd.manifest = {m}
          /\ m.entries = cmd.targets /\ m.existed = DOMAIN cmd.before
          /\ Dir(cmd.id).archive = ArchiveOfBefore

(* The command was taken for a duplicate of the newest backup.             *)
Skipped ==
    \E latest \in ListManifests(dirs) :
        /\ \A m \in ListManifests(dirs) : m.id <= latest.id
        /\ latest.checksum = {cmd.before}

SnapshotTaken == cmd.manifest # {} \/ Skipped

Protected ==
    /\ cmd.touched /\ cmd.kind # "upgrade" => SnapshotTaken
    /\ cmd.pc \in {"annotate", "prune", "pruning", "change"} /\ cmd.kind # "upgrade" =>
          cmd.manifest # {}
    /\ /\ cmd.pc = "run"
       /\ Len(exec.prepared) = Len(exec.plan.prepare) /\ ~Failed(exec.prepared)
       => SnapshotTaken
    /\ /\ cmd.pc = "run" /\ exec.stage = "prepare"
       /\ Len(exec.prepared) # Len(exec.plan.prepare)
       => cmd.manifest = {}

(* The restore step is the last one to be rolled back.                     *)
RestoredAtLast ==
    /\ cmd.pc = "run" /\ cmd.manifest # {}
    /\ \E i \in DOMAIN exec.undone :
          /\ exec.plan.apply[exec.undone[i].at] = "restore"
          /\ exec.undone[i].status = "succeeded"
    => exec.undo = 0 /\ Managed(files, cmd.targets) = cmd.before

(* What is to be deleted has enough newer backups that are to stay.        *)
Kept == Unpinned(ListManifests(dirs)) \ cmd.doomed

Pruning ==
    cmd.pc = "pruning" =>
        /\ cmd.doomed \subseteq ListManifests(dirs)
        /\ \A m \in cmd.doomed : ~m.pinned /\ Cardinality(Newer(m, Kept)) >= Retention

CommandIInv ==
    /\ CommandTypeOK /\ ExecutionOK /\ PhaseOK
    /\ DirectoriesOK /\ Described /\ Newest
    /\ Unwritten /\ Owned /\ Protected /\ RestoredAtLast /\ Pruning

---------------------------------------------------------------------------
(* Files. *)

(* A state of the files is a function from some paths to contents.         *)
LEMMA FilesAre ==
    \A fs : fs \in Files <=> DOMAIN fs \subseteq Path /\ fs \in [DOMAIN fs -> Content]
<1>1. ASSUME NEW fs, fs \in Files
      PROVE  DOMAIN fs \subseteq Path /\ fs \in [DOMAIN fs -> Content]
  BY <1>1 DEF Files
<1>2. ASSUME NEW fs, DOMAIN fs \subseteq Path, fs \in [DOMAIN fs -> Content]
      PROVE  fs \in Files
  BY <1>2 DEF Files
<1> QED BY <1>1, <1>2

(* The part of the files that a command manages.                           *)
LEMMA ManagedIs ==
    \A fs, paths :
        /\ Managed(fs, paths) = [p \in paths \cap DOMAIN fs |-> fs[p]]
        /\ DOMAIN Managed(fs, paths) = paths \cap DOMAIN fs
        /\ \A p \in paths \cap DOMAIN fs : Managed(fs, paths)[p] = fs[p]
  BY DEF Managed, Restrict

(* It is a state of the files again.                                       *)
LEMMA ManagedTyped ==
    \A fs \in Files : \A paths : Managed(fs, paths) \in Files
<1> SUFFICES ASSUME NEW fs \in Files, NEW paths
             PROVE  Managed(fs, paths) \in Files
  OBVIOUS
<1>1. DOMAIN fs \subseteq Path /\ fs \in [DOMAIN fs -> Content]
  BY FilesAre
<1> DEFINE g == [p \in paths \cap DOMAIN fs |-> fs[p]]
<1>2. DOMAIN g \subseteq Path /\ g \in [DOMAIN g -> Content]
  BY <1>1
<1>3. g \in Files
  BY <1>2, FilesAre
<1> QED BY <1>3, ManagedIs

(* All of a state is what its own paths manage.                            *)
LEMMA ManagedWhole ==
    \A fs \in Files : Managed(fs, DOMAIN fs) = fs
  BY FilesAre, ManagedIs

LEMMA NoFilesTyped == NoFiles \in Files
<1>1. DOMAIN NoFiles = {} /\ NoFiles \in [{} -> Content]
  BY DEF NoFiles
<1> QED BY <1>1, FilesAre

(* What a writer leaves alone.                                             *)
LEMMA WritesAre ==
    ASSUME NEW paths, NEW fs \in Writes(paths)
    PROVE  fs \in Files
  BY DEF Writes

---------------------------------------------------------------------------
(* Directories. *)

(* The part of the invariant that is about the disk and what is known.     *)
DiskOK ==
    /\ DOMAIN dirs \subseteq Nat /\ dirs \in [DOMAIN dirs -> Directories]
    /\ DirectoriesOK

LEMMA NoDirTyped == NoDir \in Directories /\ NoDir.manifest = {} /\ NoDir.archive = {}
  BY DEF NoDir, Directories

LEMMA DirTyped ==
    ASSUME DOMAIN dirs \subseteq Nat, dirs \in [DOMAIN dirs -> Directories], NEW id
    PROVE  Dir(id) \in Directories
  BY NoDirTyped DEF Dir

(* A manifest is listed when it is in its directory.                       *)
LEMMA ListedIn ==
    ASSUME NEW disk, \A d \in DOMAIN disk : \A m \in disk[d].manifest : m.id = d, NEW m
    PROVE  m \in ListManifests(disk) <=> m.id \in DOMAIN disk /\ m \in disk[m.id].manifest
<1>1. m \in ListManifests(disk) <=> \E d \in DOMAIN disk : m \in disk[d].manifest
  BY DEF ListManifests
<1> QED BY <1>1

LEMMA ListedWhere ==
    ASSUME DiskOK, NEW m
    PROVE  m \in ListManifests(dirs) <=> m \in Dir(m.id).manifest
<1>1. m \in ListManifests(dirs) <=> m.id \in DOMAIN dirs /\ m \in dirs[m.id].manifest
  BY ListedIn DEF DiskOK, DirectoriesOK
<1>2. m.id \notin DOMAIN dirs => Dir(m.id).manifest = {}
  BY NoDirTyped DEF Dir
<1> QED BY <1>1, <1>2 DEF Dir

(* What a directory is put in place of another does.                       *)
LEMMA WithDirIs ==
    ASSUME NEW id, NEW dir, dirs' = WithDir(id, dir)
    PROVE  /\ DOMAIN dirs' = DOMAIN dirs \union {id}
           /\ \A x : Dir(x)' = IF x = id THEN dir ELSE Dir(x)
           /\ \A x \in DOMAIN dirs' : dirs'[x] = IF x = id THEN dir ELSE dirs[x]
  BY DEF WithDir, Dir

LEMMA WithoutDirIs ==
    ASSUME NEW id, dirs' = WithoutDir(id)
    PROVE  /\ DOMAIN dirs' = DOMAIN dirs \ {id}
           /\ \A x : Dir(x)' = IF x = id THEN NoDir ELSE Dir(x)
           /\ \A x \in DOMAIN dirs' : dirs'[x] = dirs[x]
  BY DEF WithoutDir, Restrict, Dir

(* The disk stays well-formed.                                             *)
LEMMA WithDirKeeps ==
    ASSUME DiskOK, next \in Nat, next' \in Nat, next <= next',
           NEW id \in Nat, id < next', NEW dir \in Directories,
           \A m, n \in dir.manifest : m.id = id /\ m = n,
           \A a1, a2 \in dir.archive : a1 = a2,
           dirs' = WithDir(id, dir)
    PROVE  DiskOK'
<1>1. /\ DOMAIN dirs' = DOMAIN dirs \union {id}
      /\ \A x \in DOMAIN dirs' : dirs'[x] = IF x = id THEN dir ELSE dirs[x]
  BY WithDirIs
<1>2. DOMAIN dirs' \subseteq Nat /\ \A x \in DOMAIN dirs' : dirs'[x] \in Directories
  BY <1>1 DEF DiskOK
<1>3. dirs' = [x \in DOMAIN dirs' |-> dirs'[x]]
  BY DEF WithDir
<1>4. dirs' \in [DOMAIN dirs' -> Directories]
  BY <1>2, <1>3
<1>5. ASSUME NEW d \in DOMAIN dirs'
      PROVE  /\ d < next'
             /\ \A m, n \in dirs'[d].manifest : m.id = d /\ m = n
             /\ \A a1, a2 \in dirs'[d].archive : a1 = a2
  BY <1>1, <1>2 DEF DiskOK, DirectoriesOK
<1> QED BY <1>2, <1>4, <1>5 DEF DiskOK, DirectoriesOK

LEMMA WithoutDirKeeps ==
    ASSUME DiskOK, next' = next, NEW id, dirs' = WithoutDir(id)
    PROVE  DiskOK'
<1>1. /\ DOMAIN dirs' = DOMAIN dirs \ {id}
      /\ \A x \in DOMAIN dirs' : dirs'[x] = dirs[x]
  BY WithoutDirIs
<1>2. dirs' = [x \in DOMAIN dirs' |-> dirs'[x]]
  BY DEF WithoutDir, Restrict
<1> QED BY <1>1, <1>2 DEF DiskOK, DirectoriesOK

(* What is listed after it.                                                *)
LEMMA WithDirLists ==
    ASSUME DiskOK, DiskOK', NEW id, NEW dir, dirs' = WithDir(id, dir), NEW m
    PROVE  m \in ListManifests(dirs') <=>
               IF m.id = id THEN m \in dir.manifest ELSE m \in ListManifests(dirs)
<1>1. m \in ListManifests(dirs') <=> m.id \in DOMAIN dirs' /\ m \in dirs'[m.id].manifest
  BY ListedIn DEF DiskOK, DirectoriesOK
<1>2. m \in ListManifests(dirs) <=> m.id \in DOMAIN dirs /\ m \in dirs[m.id].manifest
  BY ListedIn DEF DiskOK, DirectoriesOK
<1>3. /\ DOMAIN dirs' = DOMAIN dirs \union {id}
      /\ \A x \in DOMAIN dirs' : dirs'[x] = IF x = id THEN dir ELSE dirs[x]
  BY WithDirIs
<1>4. CASE m.id = id
  BY <1>1, <1>3, <1>4
<1>5. CASE m.id # id
  BY <1>1, <1>2, <1>3, <1>5
<1> QED BY <1>4, <1>5

LEMMA WithoutDirLists ==
    ASSUME DiskOK, DiskOK', NEW id, dirs' = WithoutDir(id), NEW m
    PROVE  m \in ListManifests(dirs') <=> m.id # id /\ m \in ListManifests(dirs)
<1>1. m \in ListManifests(dirs') <=> m.id \in DOMAIN dirs' /\ m \in dirs'[m.id].manifest
  BY ListedIn DEF DiskOK, DirectoriesOK
<1>2. m \in ListManifests(dirs) <=> m.id \in DOMAIN dirs /\ m \in dirs[m.id].manifest
  BY ListedIn DEF DiskOK, DirectoriesOK
<1> QED BY <1>1, <1>2, WithoutDirIs

LEMMA SameDiskKeeps ==
    ASSUME DiskOK, next \in Nat, next' \in Nat, next <= next', dirs' = dirs
    PROVE  DiskOK'
<1>1. \A d \in DOMAIN dirs : d < next'
  BY DEF DiskOK, DirectoriesOK
<1> QED BY <1>1 DEF DiskOK, DirectoriesOK

---------------------------------------------------------------------------
(* The command. *)

SameCommand ==
    /\ cmd'.kind = cmd.kind /\ cmd'.targets = cmd.targets /\ cmd'.id = cmd.id
    /\ cmd'.manifest = cmd.manifest /\ cmd'.before = cmd.before

(* The assignments to cmd, field by field.                                 *)
LEMMA GotoIs ==
    ASSUME cmd \in Commands, NEW pc \in Phases, Goto(pc)
    PROVE  /\ cmd' \in Commands /\ SameCommand /\ cmd'.pc = pc
           /\ cmd'.doomed = cmd.doomed /\ cmd'.touched = cmd.touched
  BY DEF Goto, Commands, SameCommand

LEMMA TouchIs ==
    ASSUME cmd \in Commands, cmd' = [cmd EXCEPT !.touched = TRUE]
    PROVE  /\ cmd' \in Commands /\ SameCommand /\ cmd'.pc = cmd.pc
           /\ cmd'.doomed = cmd.doomed /\ cmd'.saved = cmd.saved
  BY DEF Commands, SameCommand

LEMMA GuideIs ==
    ASSUME cmd \in Commands, NEW fs \in Files,
           cmd' = [cmd EXCEPT !.touched = TRUE, !.saved = fs]
    PROVE  /\ cmd' \in Commands /\ SameCommand /\ cmd'.pc = cmd.pc
           /\ cmd'.doomed = cmd.doomed
  BY DEF Commands, SameCommand

LEMMA ManifestIs ==
    ASSUME cmd \in Commands, NEW manifest \in Manifests,
           cmd' = [cmd EXCEPT !.pc = "annotate", !.manifest = {manifest}]
    PROVE  /\ cmd' \in Commands /\ cmd'.pc = "annotate" /\ cmd'.manifest = {manifest}
           /\ cmd'.kind = cmd.kind /\ cmd'.targets = cmd.targets /\ cmd'.id = cmd.id
           /\ cmd'.before = cmd.before
           /\ cmd'.doomed = cmd.doomed /\ cmd'.touched = cmd.touched
  BY DEF Commands, Phases, Snapshotting

LEMMA DoomIs ==
    ASSUME cmd \in Commands, NEW doomed \in SUBSET Manifests,
           \/ cmd' = [cmd EXCEPT !.pc = "pruning", !.doomed = doomed]
           \/ cmd' = [cmd EXCEPT !.doomed = doomed] /\ cmd.pc = "pruning"
    PROVE  /\ cmd' \in Commands /\ SameCommand /\ cmd'.pc = "pruning"
           /\ cmd'.doomed = doomed /\ cmd'.touched = cmd.touched
  BY DEF Commands, SameCommand, Phases, Snapshotting

LEMMA IdleIs ==
    /\ Idle \in Commands /\ Idle.pc = "idle" /\ Idle.kind = "none"
    /\ Idle.manifest = {} /\ Idle.doomed = {} /\ Idle.touched = FALSE
  BY NoFilesTyped DEF Idle, Commands, Phases

LEMMA CommandIs ==
    ASSUME files \in Files, NEW kind \in Kinds, NEW pc \in Phases,
           NEW targets \in SUBSET Path, NEW id \in Nat
    PROVE  LET c == Command(kind, pc, targets, id) IN
           /\ c \in Commands
           /\ c.kind = kind /\ c.pc = pc /\ c.targets = targets /\ c.id = id
           /\ c.manifest = {} /\ c.doomed = {} /\ c.touched = FALSE
           /\ c.before = Managed(files, targets)
           /\ DOMAIN c.before \subseteq targets
<1>1. Managed(files, targets) \in Files /\ NoFiles \in Files
  BY ManagedTyped, NoFilesTyped
<1>2. DOMAIN Managed(files, targets) \subseteq targets
  BY ManagedIs
<1> QED BY <1>1, <1>2 DEF Command, Commands

---------------------------------------------------------------------------
(* What most steps keep. *)

(* Nobody learns of a manifest, but for a pin, and no archive is replaced. *)
LEMMA DescribedKeeps ==
    ASSUME Described,
           \A m \in Known' : \E n \in Known :
               n.id = m.id /\ n.checksum = m.checksum /\ n.existed = m.existed,
           \A m \in Known' : Dir(m.id)'.archive \subseteq Dir(m.id).archive
    PROVE  Described'
<1> SUFFICES ASSUME NEW m \in Known'
             PROVE  /\ \E fs \in m.checksum : m.checksum = {fs} /\ DOMAIN fs = m.existed
                    /\ \A archive \in Dir(m.id)'.archive : m.checksum = {archive}
  BY DEF Described
<1>1. PICK n \in Known : n.id = m.id /\ n.checksum = m.checksum /\ n.existed = m.existed
  OBVIOUS
<1>2. /\ \E fs \in n.checksum : n.checksum = {fs} /\ DOMAIN fs = n.existed
      /\ \A archive \in Dir(n.id).archive : n.checksum = {archive}
  BY DEF Described
<1> QED BY <1>1, <1>2

(* The parts of the invariant that are about a command in progress.        *)
ConductOK ==
    ExecutionOK /\ PhaseOK /\ Unwritten /\ Owned /\ Protected /\ RestoredAtLast /\ Pruning

LEMMA IInvParts ==
    CommandIInv <=> CommandTypeOK /\ DiskOK /\ Described /\ Newest /\ ConductOK
  BY DEF CommandIInv, CommandTypeOK, DiskOK, ConductOK

(* Between commands they say nothing.                                      *)
LEMMA AtRest ==
    ASSUME cmd' = Idle, exec' = NoExecution
    PROVE  ConductOK'
<1>1. /\ cmd'.pc = "idle" /\ cmd'.kind = "none" /\ cmd'.manifest = {}
      /\ cmd'.touched = FALSE
  BY IdleIs
<1>2. cmd'.pc \notin Snapshotting /\ cmd'.kind \notin Pipelined
  BY <1>1 DEF Snapshotting, Pipelined
<1>3. ExecutionOK' /\ PhaseOK'
  BY <1>1, <1>2 DEF ExecutionOK, PhaseOK
<1>4. Unwritten' /\ Owned'
  BY <1>1, <1>2 DEF Unwritten, Preparing, Owned
<1>5. Protected' /\ RestoredAtLast' /\ Pruning'
  BY <1>1 DEF Protected, RestoredAtLast, Pruning
<1> QED BY <1>3, <1>4, <1>5 DEF ConductOK

(* A command that goes on with the disk as it was.                         *)
LEMMA GoesOn ==
    ASSUME CommandIInv, SameCommand, cmd' \in Commands, files' \in Files,
           cmd'.doomed = cmd.doomed, cmd.pc \in {"run", "change"}, cmd'.pc = cmd.pc,
           dirs' = dirs, next' = next, listed' = listed
    PROVE  /\ CommandTypeOK' /\ DiskOK' /\ Described' /\ Newest'
           /\ PhaseOK' /\ Owned' /\ Pruning'
           /\ Skipped' = Skipped /\ SnapshotTaken' = SnapshotTaken
<1>1. CommandTypeOK' /\ DiskOK'
  BY IInvParts DEF CommandTypeOK, DiskOK, DirectoriesOK, SameCommand
<1>2. Known' = Known
  BY DEF Known, SameCommand
<1>3. \A id : Dir(id)' = Dir(id)
  BY DEF Dir
<1>4. Described'
  BY <1>2, <1>3, IInvParts DEF Described
<1>5. Newest'
  BY <1>2, IInvParts DEF Newest, SameCommand
<1>6. PhaseOK' /\ Pruning'
  BY IInvParts DEF PhaseOK, Pruning, ConductOK, SameCommand, Snapshotting
<1>7. Owned'
  <2>1. ArchiveOfBefore' = ArchiveOfBefore
    BY DEF ArchiveOfBefore, SameCommand
  <2>2. Dir(cmd.id)' = Dir(cmd.id)
    BY DEF Dir, SameCommand
  <2> QED BY <2>1, <2>2, IInvParts DEF Owned, ConductOK, SameCommand
<1>8. Skipped' = Skipped /\ SnapshotTaken' = SnapshotTaken
  BY DEF Skipped, SnapshotTaken, SameCommand
<1> QED BY <1>1, <1>4, <1>5, <1>6, <1>7, <1>8

---------------------------------------------------------------------------
(* The steps of the pipeline. *)

LEMMA RunningIs ==
    ASSUME CommandIInv, cmd.pc = "run"
    PROVE  /\ PipelineInv /\ exec.plan \in {InstallPlan, SyncPlan}
           /\ cmd.kind \in Pipelined /\ cmd.kind \in Kinds
           /\ exec.plan \in Plans /\ exec.plan.apply \in Seq(Step)
           /\ exec.prepared \in Seq(Status) /\ exec.undone \in Seq([at : Nat, status : Status])
<1>1. PipelineInv /\ exec.plan \in {InstallPlan, SyncPlan}
  BY DEF CommandIInv, PhaseOK, ExecutionOK
<1>2. exec.plan \in Plans /\ exec.plan.apply \in Seq(Step)
  BY <1>1, PlanAssumption, PlansAssumption
<1> QED BY <1>1, <1>2 DEF CommandIInv, PhaseOK, PipelineInv, PipelineTypeOK

LEMMA ApplyIs ==
    ASSUME PipelineInv, NEW status \in Status, Apply(status)
    PROVE  /\ exec'.plan = exec.plan /\ exec'.prepared = exec.prepared
           /\ exec'.stage = "apply" /\ exec'.undone = << >>
           /\ Len(exec.prepared) = Len(exec.plan.prepare) /\ ~Failed(exec.prepared)
  BY DEF Apply, PipelineInv, PipelineTypeOK, NothingUndoneBefore, NothingAppliedBefore

LEMMA UndoIs ==
    ASSUME PipelineInv, NEW i \in 1 .. exec.undo, NEW status \in Status, Undo(i, status)
    PROVE  /\ exec'.plan = exec.plan /\ exec'.prepared = exec.prepared
           /\ exec'.stage = "rollback" /\ exec'.undo = i - 1
           /\ exec'.undone = Append(exec.undone, [at |-> i, status |-> status])
           /\ i \in DOMAIN exec.plan.apply /\ exec.undo # 0
<1>1. exec.undo \in Nat /\ exec.applied \in Seq(Status) /\ Len(exec.applied) <= Len(exec.plan.apply)
      /\ exec.plan.apply \in Seq(Step)
  BY PlansAssumption DEF PipelineInv, PipelineTypeOK
<1>2. i \in DOMAIN exec.applied
  BY DEF Undo, MustUndo
<1> QED BY <1>1, <1>2 DEF Undo, PipelineInv, PipelineTypeOK

LEMMA EndIs ==
    ASSUME PipelineInv, EndPrepare \/ EndApply \/ EndRollback
    PROVE  /\ exec'.plan = exec.plan /\ exec'.prepared = exec.prepared
           /\ exec'.stage # "prepare" /\ exec'.undone = exec.undone
           /\ exec'.undone # << >> => exec'.undo = exec.undo
  BY DEF EndPrepare, EndApply, EndRollback, PipelineInv, PipelineTypeOK, NothingUndoneBefore

(* A step behind the prepare stage.                                        *)
LEMMA LaterStep ==
    ASSUME CommandIInv, cmd.pc = "run", PipelineInv',
           exec'.plan = exec.plan, exec'.prepared = exec.prepared, exec'.stage # "prepare",
           files' \in Files, cmd' \in Commands, SameCommand,
           cmd'.pc = cmd.pc, cmd'.doomed = cmd.doomed,
           dirs' = dirs, next' = next, listed' = listed,
           cmd'.touched => cmd.touched \/ SnapshotTaken,
           RestoredAtLast'
    PROVE  CommandIInv'
<1>1. /\ CommandTypeOK' /\ DiskOK' /\ Described' /\ Newest'
      /\ PhaseOK' /\ Owned' /\ Pruning'
      /\ Skipped' = Skipped /\ SnapshotTaken' = SnapshotTaken
  BY GoesOn
<1>2. ExecutionOK'
  BY RunningIs DEF ExecutionOK, SameCommand
<1>3. Unwritten'
  BY DEF Unwritten, Preparing, Snapshotting
<1>4. Failed(exec.prepared)' <=> Failed(exec.prepared)
  BY DEF Failed
<1>5. Protected'
  BY <1>1, <1>4 DEF Protected, SameCommand, CommandIInv
<1> QED BY <1>1, <1>2, <1>3, <1>5, IInvParts DEF ConductOK, CommandIInv, DiskOK

(* Nothing is rolled back before the rollback.                             *)
LEMMA NothingRestored ==
    ASSUME exec'.undone = << >>
    PROVE  RestoredAtLast'
  BY DEF RestoredAtLast

LEMMA ApplyRestoreKeeps ==
    ASSUME CommandIInv, ApplyRestore
    PROVE  CommandIInv'
<1>1. cmd.pc = "run" /\ Apply("succeeded") /\ "succeeded" \in Status
  BY DEF ApplyRestore, AtApply, Status
<1>2. /\ exec'.plan = exec.plan /\ exec'.prepared = exec.prepared
      /\ exec'.stage = "apply" /\ exec'.undone = << >>
  BY <1>1, RunningIs, ApplyIs
<1>3. PipelineInv'
  BY <1>1, RunningIs, ApplyStep
<1>4. SameCommand /\ files' \in Files /\ cmd' \in Commands
  BY DEF ApplyRestore, SameCommand, CommandIInv, CommandTypeOK
<1> QED BY <1>1, <1>2, <1>3, <1>4, NothingRestored, LaterStep DEF ApplyRestore

LEMMA ApplyComponentKeeps ==
    ASSUME CommandIInv, NEW status \in Status, ApplyComponent(status)
    PROVE  CommandIInv'
<1>1. cmd.pc = "run" /\ Apply(status)
  BY DEF ApplyComponent, AtApply
<1>2. /\ exec'.plan = exec.plan /\ exec'.prepared = exec.prepared
      /\ exec'.stage = "apply" /\ exec'.undone = << >>
      /\ SnapshotTaken
  BY <1>1, RunningIs, ApplyIs DEF CommandIInv, Protected
<1>3. PipelineInv'
  BY <1>1, RunningIs, ApplyStep
<1>4. SameCommand /\ cmd' \in Commands /\ cmd'.pc = cmd.pc /\ cmd'.doomed = cmd.doomed
  BY TouchIs DEF ApplyComponent, CommandIInv, CommandTypeOK
<1>5. files' \in Files
  BY WritesAre DEF ApplyComponent
<1> QED BY <1>1, <1>2, <1>3, <1>4, <1>5, NothingRestored, LaterStep DEF ApplyComponent

LEMMA ApplyGuidanceKeeps ==
    ASSUME CommandIInv, NEW status \in Status, ApplyGuidance(status)
    PROVE  CommandIInv'
<1>1. cmd.pc = "run" /\ Apply(status)
  BY DEF ApplyGuidance, AtApply
<1>2. /\ exec'.plan = exec.plan /\ exec'.prepared = exec.prepared
      /\ exec'.stage = "apply" /\ exec'.undone = << >>
      /\ SnapshotTaken
  BY <1>1, RunningIs, ApplyIs DEF CommandIInv, Protected
<1>3. PipelineInv'
  BY <1>1, RunningIs, ApplyStep
<1>4. files \in Files /\ cmd \in Commands
  BY DEF CommandIInv, CommandTypeOK
<1>5. Managed(files, GuidancePaths) \in Files
  BY <1>4, ManagedTyped
<1>6. SameCommand /\ cmd' \in Commands /\ cmd'.pc = cmd.pc /\ cmd'.doomed = cmd.doomed
  BY <1>4, <1>5, GuideIs DEF ApplyGuidance
<1>7. files' \in Files
  BY <1>4, WritesAre DEF ApplyGuidance
<1> QED BY <1>1, <1>2, <1>3, <1>6, <1>7, NothingRestored, LaterStep DEF ApplyGuidance

LEMMA AdvanceKeeps ==
    ASSUME CommandIInv, Advance
    PROVE  CommandIInv'
<1>1. cmd.pc = "run" /\ (EndPrepare \/ EndApply \/ EndRollback)
  BY DEF Advance
<1>2. PipelineInv /\ PipelineInv'
  BY <1>1, RunningIs, EndPrepareStep, EndApplyStep, EndRollbackStep
<1>3. /\ exec'.plan = exec.plan /\ exec'.prepared = exec.prepared
      /\ exec'.stage # "prepare" /\ exec'.undone = exec.undone
      /\ exec'.undone # << >> => exec'.undo = exec.undo
  BY <1>1, <1>2, EndIs
<1>4. SameCommand /\ files' \in Files /\ cmd' \in Commands
  BY DEF Advance, SameCommand, CommandIInv, CommandTypeOK
<1>5. RestoredAtLast'
  BY <1>3 DEF RestoredAtLast, CommandIInv, Advance
<1> QED BY <1>1, <1>2, <1>3, <1>4, <1>5, LaterStep DEF Advance

---------------------------------------------------------------------------
(* Restoring. *)

(* Restoring some entries of a backup leaves a state of the files.         *)
LEMMA RestoredTyped ==
    ASSUME files \in Files, DiskOK, NEW m \in Manifests, NEW done \in SUBSET m.entries,
           Restorable(m) \/ done = {}
    PROVE  Restored(m, done) \in Files
<1> DEFINE archive == CHOOSE a \in Dir(m.id).archive : TRUE
           fs == [p \in (DOMAIN files \ done) \union (done \cap m.existed) |->
                     IF p \in done THEN archive[p] ELSE files[p]]
<1>1. files \in [DOMAIN files -> Content] /\ DOMAIN files \subseteq Path
  BY FilesAre
<1>2. m.existed \subseteq Path /\ m.entries \subseteq Path
  BY DEF Manifests
<1>3. ASSUME NEW p \in done \cap m.existed
      PROVE  archive[p] \in Content
  <2>1. PICK a \in Dir(m.id).archive : m.existed \subseteq DOMAIN a
    BY <1>3 DEF Restorable, Compressed
  <2>2. \A a1, a2 \in Dir(m.id).archive : a1 = a2
    BY NoDirTyped DEF DiskOK, DirectoriesOK, Dir
  <2>3. archive = a
    BY <2>1, <2>2
  <2>4. a \in Files
    BY <2>1, DirTyped DEF DiskOK, Directories
  <2>5. a \in [DOMAIN a -> Content] /\ p \in DOMAIN a
    BY <2>1, <2>4, <1>3, FilesAre
  <2> QED BY <2>3, <2>5
<1>4. ASSUME NEW p \in DOMAIN fs
      PROVE  p \in Path /\ fs[p] \in Content
  <2> HIDE DEF archive
  <2> QED BY <1>1, <1>2, <1>3
<1>5. fs = [p \in DOMAIN fs |-> fs[p]]
  <2> HIDE DEF archive
  <2> QED OBVIOUS
<1>6. Restored(m, done) = fs
  BY DEF Restored
<1> HIDE DEF fs
<1>7. DOMAIN fs \subseteq Path /\ fs \in [DOMAIN fs -> Content]
  BY <1>4, <1>5
<1> QED BY <1>6, <1>7, FilesAre

LEMMA RestoreTyped ==
    ASSUME files \in Files, DiskOK, NEW m \in Manifests, NEW status, Restore(m, status)
    PROVE  files' \in Files
<1>1. PICK done \in SUBSET m.entries :
          (Restorable(m) \/ done = {}) /\ files' = Restored(m, done)
  BY DEF Restore
<1> QED BY <1>1, RestoredTyped

(* Restoring all of the command's own backup brings its targets back.      *)
LEMMA RestoredAll ==
    ASSUME CommandIInv, NEW m \in cmd.manifest, Restorable(m)
    PROVE  Managed(Restored(m, m.entries), cmd.targets) = cmd.before
<1>1. /\ m.entries = cmd.targets /\ m.existed = DOMAIN cmd.before
      /\ Dir(m.id).archive = ArchiveOfBefore
  <2>1. cmd.pc # "idle"
    BY IdleIs DEF CommandIInv, PhaseOK
  <2>2. m.id = cmd.id
    BY <2>1 DEF CommandIInv, Newest
  <2> QED BY <2>2 DEF CommandIInv, Owned
<1>2. cmd.before \in Files /\ DOMAIN cmd.before \subseteq cmd.targets
  BY DEF CommandIInv, CommandTypeOK, Commands
<1> DEFINE archive == CHOOSE a \in Dir(m.id).archive : TRUE
           targets == cmd.targets
           before == cmd.before
           fs == [p \in (DOMAIN files \ targets) \union (targets \cap DOMAIN before) |->
                     IF p \in targets THEN archive[p] ELSE files[p]]
<1>3. Restored(m, m.entries) = fs
  BY <1>1 DEF Restored
<1>4. DOMAIN before # {} => archive = before
  BY <1>1 DEF ArchiveOfBefore
<1> HIDE DEF archive
<1>5. /\ targets \cap DOMAIN fs = DOMAIN before
      /\ \A p \in DOMAIN before : fs[p] = before[p]
  BY <1>2, <1>4
<1>6. before = [p \in DOMAIN before |-> before[p]]
  BY <1>2, FilesAre
<1> HIDE DEF fs, targets, before
<1>7. Managed(fs, targets) = [p \in targets \cap DOMAIN fs |-> fs[p]]
  BY ManagedIs
<1>8. Managed(fs, targets) = before
  BY <1>5, <1>6, <1>7
<1> QED BY <1>3, <1>8 DEF targets, before

(* What a rollback leaves out of account: once the restore step is rolled  *)
(* back none is left.                                                      *)
LEMMA RollbackGoesOn ==
    ASSUME CommandIInv, cmd.pc = "run", NEW i \in 1 .. exec.undo, NEW status \in Status,
           Undo(i, status), cmd' = cmd,
           exec.plan.apply[i] = "restore" /\ status = "succeeded" /\ cmd.manifest # {} =>
               Managed(files', cmd.targets) = cmd.before
    PROVE  RestoredAtLast'
<1>1. PipelineInv /\ exec.plan \in {InstallPlan, SyncPlan}
      /\ exec.undone \in Seq([at : Nat, status : Status])
  BY RunningIs
<1>2. /\ exec'.plan = exec.plan /\ exec'.undo = i - 1
      /\ exec'.undone = Append(exec.undone, [at |-> i, status |-> status])
      /\ i \in DOMAIN exec.plan.apply /\ exec.undo # 0
  BY <1>1, UndoIs
<1> SUFFICES ASSUME cmd.manifest # {}, NEW k \in DOMAIN exec'.undone,
                    exec'.plan.apply[exec'.undone[k].at] = "restore",
                    exec'.undone[k].status = "succeeded"
             PROVE  exec'.undo = 0 /\ Managed(files', cmd.targets) = cmd.before
  BY DEF RestoredAtLast
<1>3. k \notin DOMAIN exec.undone
  <2>1. ASSUME k \in DOMAIN exec.undone
        PROVE  exec'.undone[k] = exec.undone[k]
    BY <1>1, <1>2, <2>1
  <2> QED BY <1>2, <2>1 DEF CommandIInv, RestoredAtLast
<1>4. exec'.undone[k] = [at |-> i, status |-> status]
  BY <1>1, <1>2, <1>3
<1>5. exec.plan.apply[i] = "restore" /\ status = "succeeded"
  BY <1>2, <1>4
<1>6. i = 1
  BY <1>1, <1>2, <1>5, PlanAssumption
<1> QED BY <1>2, <1>5, <1>6

LEMMA UndoGuidanceKeeps ==
    ASSUME CommandIInv, NEW i \in 1 .. exec.undo, NEW status \in Status,
           UndoGuidance(i, status)
    PROVE  CommandIInv'
<1>1. cmd.pc = "run" /\ Undo(i, status) /\ exec.plan.apply[i] = "guidance"
  BY DEF UndoGuidance
<1>2. PipelineInv /\ PipelineInv'
  BY <1>1, RunningIs, UndoStep
<1>3. /\ exec'.plan = exec.plan /\ exec'.prepared = exec.prepared
      /\ exec'.stage = "rollback"
  BY <1>1, <1>2, UndoIs
<1>4. SameCommand /\ cmd' \in Commands /\ cmd' = cmd
  BY DEF UndoGuidance, SameCommand, CommandIInv, CommandTypeOK
<1>5. files' \in Files
  <2>1. PICK done \in SUBSET GuidancePaths :
            files' = [p \in (DOMAIN files \ done) \union (done \cap DOMAIN cmd.saved)
                         |-> IF p \in done THEN cmd.saved[p] ELSE files[p]]
    BY DEF UndoGuidance
  <2>2. files \in Files /\ cmd.saved \in Files
    BY DEF CommandIInv, CommandTypeOK, Commands
  <2>3. DOMAIN files' \subseteq Path /\ files' \in [DOMAIN files' -> Content]
    BY <2>1, <2>2, FilesAre
  <2> QED BY <2>3, FilesAre
<1>6. RestoredAtLast'
  BY <1>1, <1>4, RollbackGoesOn
<1> QED BY <1>1, <1>2, <1>3, <1>4, <1>5, <1>6, LaterStep DEF UndoGuidance

LEMMA UndoRestoreKeeps ==
    ASSUME CommandIInv, NEW i \in 1 .. exec.undo, NEW status \in Status,
           UndoRestore(i, status)
    PROVE  CommandIInv'
<1>1. cmd.pc = "run" /\ Undo(i, status) /\ exec.plan.apply[i] = "restore"
  BY DEF UndoRestore
<1>2. PipelineInv /\ PipelineInv'
  BY <1>1, RunningIs, UndoStep
<1>3. /\ exec'.plan = exec.plan /\ exec'.prepared = exec.prepared
      /\ exec'.stage = "rollback"
  BY <1>1, <1>2, UndoIs
<1>4. SameCommand /\ cmd' \in Commands /\ cmd' = cmd
  BY DEF UndoRestore, SameCommand, CommandIInv, CommandTypeOK
<1>5. files \in Files /\ DiskOK /\ cmd.manifest \subseteq Manifests
  BY IInvParts DEF CommandTypeOK, Commands
<1>6. files' \in Files
  BY <1>5, RestoreTyped DEF UndoRestore
<1>7. ASSUME status = "succeeded", cmd.manifest # {}
      PROVE  Managed(files', cmd.targets) = cmd.before
  <2>1. PICK m \in cmd.manifest : Restore(m, status)
    BY <1>7 DEF UndoRestore
  <2>2. Restorable(m) /\ files' = Restored(m, m.entries)
    BY <2>1, <1>7 DEF Restore
  <2> QED BY <2>2, RestoredAll
<1>8. RestoredAtLast'
  BY <1>1, <1>4, <1>7, RollbackGoesOn
<1> QED BY <1>1, <1>2, <1>3, <1>4, <1>6, <1>8, LaterStep DEF UndoRestore

---------------------------------------------------------------------------
(* The prepare stage, and the commands without a pipeline. *)

LEMMA PrepareIs ==
    ASSUME PipelineInv, NEW status \in Status, Prepare(status)
    PROVE  /\ exec'.plan = exec.plan /\ exec'.stage = "prepare" /\ exec.stage = "prepare"
           /\ exec'.undone = << >> /\ exec'.prepared = Append(exec.prepared, status)
           /\ Len(exec'.prepared) = Len(exec.prepared) + 1
           /\ status = "failed" => Failed(exec.prepared)'
<1>1. exec.prepared \in Seq(Status) /\ exec.stage = "prepare"
  BY DEF Prepare, PipelineInv, PipelineTypeOK
<1>2. /\ exec'.plan = exec.plan /\ exec'.stage = exec.stage
      /\ exec'.undone = exec.undone /\ exec'.prepared = Append(exec.prepared, status)
  BY DEF Prepare, PipelineInv, PipelineTypeOK
<1>3. exec.undone = << >>
  BY <1>1 DEF PipelineInv, NothingUndoneBefore
<1>4. Len(exec'.prepared) = Len(exec.prepared) + 1
      /\ exec'.prepared[Len(exec.prepared) + 1] = status
      /\ Len(exec.prepared) + 1 \in DOMAIN exec'.prepared
  BY <1>1, <1>2
<1> QED BY <1>1, <1>2, <1>3, <1>4 DEF Failed

(* Where the two plans take their snapshot.                                *)
LEMMA AtPrepareIs ==
    ASSUME CommandIInv, NEW step, AtPrepare(step)
    PROVE  /\ cmd.pc = "run" /\ exec.stage = "prepare" /\ Len(exec.prepared) \in Nat
           /\ Len(exec.prepared) # Len(exec.plan.prepare)
           /\ step = "snapshot" => Len(exec.prepared) + 1 = Len(exec.plan.prepare)
           /\ step = "dependencies" => Len(exec.prepared) + 1 # Len(exec.plan.prepare)
<1>1. cmd.pc = "run" /\ exec.stage = "prepare"
  BY DEF AtPrepare
<1>2. exec.plan \in {InstallPlan, SyncPlan} /\ exec.prepared \in Seq(Status) /\ PipelineInv
  BY <1>1, RunningIs
<1>3. Len(exec.prepared) \in Nat /\ Len(exec.prepared) <= Len(exec.plan.prepare)
  BY <1>2 DEF PipelineInv, PipelineTypeOK
<1>4. Len(exec.prepared) # Len(exec.plan.prepare)
      /\ exec.plan.prepare[Len(exec.prepared) + 1] = step
  BY DEF AtPrepare, RunIsOver
<1>5. \/ exec.plan.prepare = <<"dependencies", "snapshot">>
      \/ exec.plan.prepare = <<"snapshot">>
  BY <1>2, PlanAssumption
<1> DEFINE n == Len(exec.prepared)
           prepare == exec.plan.prepare
<1>6. n \in Nat /\ n <= Len(prepare) /\ n # Len(prepare) /\ prepare[n + 1] = step
  BY <1>3, <1>4
<1>7. \/ prepare = <<"dependencies", "snapshot">>
      \/ prepare = <<"snapshot">>
  BY <1>5
<1>8. /\ step = "snapshot" => n + 1 = Len(prepare)
      /\ step = "dependencies" => n + 1 # Len(prepare)
  <2> HIDE DEF n, prepare
  <2>1. CASE prepare = <<"snapshot">>
    <3>1. Len(prepare) = 1 /\ prepare[1] = "snapshot"
      BY <2>1
    <3> QED BY <1>6, <3>1
  <2>2. CASE prepare = <<"dependencies", "snapshot">>
    <3>1. Len(prepare) = 2 /\ prepare[1] = "dependencies" /\ prepare[2] = "snapshot"
      BY <2>2
    <3>2. n = 0 \/ n = 1
      BY <1>6, <3>1
    <3> QED BY <1>6, <3>1, <3>2
  <2> QED BY <1>7, <2>1, <2>2
<1> QED BY <1>1, <1>6, <1>8

LEMMA CheckDependenciesKeeps ==
    ASSUME CommandIInv, NEW status \in Status, CheckDependencies(status)
    PROVE  CommandIInv'
<1>1. /\ cmd.pc = "run" /\ exec.stage = "prepare"
      /\ Len(exec.prepared) # Len(exec.plan.prepare)
      /\ Len(exec.prepared) + 1 # Len(exec.plan.prepare)
      /\ Prepare(status)
  BY AtPrepareIs DEF CheckDependencies
<1>2. PipelineInv /\ PipelineInv' /\ exec.plan \in {InstallPlan, SyncPlan}
      /\ cmd.kind \in Pipelined
  BY <1>1, RunningIs, PrepareStep
<1>3. /\ exec'.plan = exec.plan /\ exec'.stage = "prepare"
      /\ exec'.undone = << >> /\ Len(exec'.prepared) = Len(exec.prepared) + 1
  BY <1>1, <1>2, PrepareIs
<1>4. SameCommand /\ files' \in Files /\ cmd' \in Commands /\ cmd' = cmd /\ files' = files
  BY DEF CheckDependencies, SameCommand, CommandIInv, CommandTypeOK
<1>5. /\ CommandTypeOK' /\ DiskOK' /\ Described' /\ Newest'
      /\ PhaseOK' /\ Owned' /\ Pruning'
      /\ SnapshotTaken' = SnapshotTaken
  BY <1>1, <1>4, GoesOn DEF CheckDependencies
<1>6. ExecutionOK' /\ RestoredAtLast'
  BY <1>2, <1>3, <1>4, NothingRestored DEF ExecutionOK
<1>7. Unwritten'
  BY <1>1, <1>4 DEF Unwritten, Preparing, CommandIInv
<1>8. Protected'
  BY <1>1, <1>3, <1>4, <1>5 DEF Protected, CommandIInv
<1> QED BY <1>5, <1>6, <1>7, <1>8, IInvParts DEF ConductOK, CommandIInv, DiskOK

(* A snapshot is skipped, or begins.                                       *)
LEMMA DeduplicateKeeps ==
    ASSUME CommandIInv, Deduplicate
    PROVE  CommandIInv'
<1>1. /\ cmd.pc = "run" /\ exec.stage = "prepare" /\ Len(exec.prepared) \in Nat
      /\ Len(exec.prepared) + 1 = Len(exec.plan.prepare)
  BY AtPrepareIs DEF Deduplicate
<1>2. PipelineInv /\ exec.plan \in {InstallPlan, SyncPlan} /\ cmd.kind \in Pipelined
      /\ cmd.kind \in Kinds /\ files \in Files /\ cmd \in Commands
  BY <1>1, RunningIs DEF CommandIInv, CommandTypeOK
<1>3. ~cmd.touched /\ Managed(files, cmd.targets) = cmd.before
  BY <1>1 DEF CommandIInv, Unwritten, Preparing
<1>4. CASE IsDuplicate(ComputeChecksum(cmd.targets))
  <2>1. Prepare("succeeded") /\ cmd' = cmd /\ "succeeded" \in Status
    BY <1>4 DEF Deduplicate, Status
  <2>2. PipelineInv'
    BY <1>2, <2>1, PrepareStep
  <2>3. /\ exec'.plan = exec.plan /\ exec'.stage = "prepare"
        /\ exec'.undone = << >> /\ Len(exec'.prepared) = Len(exec.prepared) + 1
    BY <1>2, <2>1, PrepareIs
  <2>4. SameCommand /\ files' = files
    BY <2>1 DEF Deduplicate, SameCommand
  <2>5. /\ CommandTypeOK' /\ DiskOK' /\ Described' /\ Newest'
        /\ PhaseOK' /\ Owned' /\ Pruning'
        /\ SnapshotTaken' = SnapshotTaken
    BY <1>1, <1>2, <2>1, <2>4, GoesOn DEF Deduplicate
  <2>6. ExecutionOK' /\ RestoredAtLast'
    BY <1>2, <2>1, <2>2, <2>3, NothingRestored DEF ExecutionOK
  <2>7. Unwritten'
    BY <1>3, <2>1, <2>4 DEF Unwritten
  <2>8. Skipped
    BY <1>3, <1>4 DEF IsDuplicate, ComputeChecksum, Skipped
  <2>9. Protected'
    BY <1>1, <1>3, <2>1, <2>3, <2>5, <2>8 DEF Protected, SnapshotTaken
  <2> QED BY <2>5, <2>6, <2>7, <2>9, IInvParts DEF ConductOK, CommandIInv, DiskOK
<1>5. CASE ~IsDuplicate(ComputeChecksum(cmd.targets))
  <2>1. Goto("archive") /\ UNCHANGED <<exec, files, dirs, next, listed>>
    BY <1>5 DEF Deduplicate
  <2>2. /\ cmd' \in Commands /\ SameCommand /\ cmd'.pc = "archive"
        /\ cmd'.doomed = cmd.doomed /\ cmd'.touched = cmd.touched
    BY <1>2, <2>1, GotoIs DEF Phases, Snapshotting
  <2>3. CommandTypeOK' /\ DiskOK'
    BY <2>1, <2>2, IInvParts DEF CommandTypeOK, DiskOK, DirectoriesOK, SameCommand
  <2>4. Known' = Known /\ \A id : Dir(id)' = Dir(id)
    BY <2>1, <2>2 DEF Known, SameCommand, Dir
  <2>5. Described'
    BY <2>4, IInvParts DEF Described
  <2>6. Newest'
    BY <1>1, <2>1, <2>2, <2>4, IInvParts DEF Newest, SameCommand
  <2>7. ExecutionOK'
    BY <1>2, <2>1, <2>2, StutterStep DEF ExecutionOK, SameCommand
  <2>8. PhaseOK'
    BY <1>1, <1>2, <2>1, <2>2 DEF PhaseOK, CommandIInv, SameCommand
  <2>9. Unwritten'
    BY <1>3, <2>1, <2>2 DEF Unwritten, SameCommand
  <2>10. cmd.manifest = {}
    BY <1>1 DEF CommandIInv, Protected
  <2>11. Owned' /\ Protected' /\ RestoredAtLast' /\ Pruning'
    BY <1>3, <2>2, <2>10 DEF Owned, Protected, RestoredAtLast, Pruning, SameCommand
  <2> QED BY <2>3, <2>5, <2>6, <2>7, <2>8, <2>9, <2>11 DEF CommandIInv, DiskOK
<1> QED BY <1>4, <1>5

LEMMA ChangeKeeps ==
    ASSUME CommandIInv, NEW p, Change(p)
    PROVE  CommandIInv'
<1>1. cmd.pc = "change" /\ cmd \in Commands /\ cmd.kind \notin Pipelined
  BY DEF Change, CommandIInv, CommandTypeOK, PhaseOK
<1>2. SameCommand /\ cmd' \in Commands /\ cmd'.pc = cmd.pc /\ cmd'.doomed = cmd.doomed
  BY <1>1, TouchIs DEF Change
<1>3. files' \in Files
  BY WritesAre DEF Change
<1>4. /\ CommandTypeOK' /\ DiskOK' /\ Described' /\ Newest'
      /\ PhaseOK' /\ Owned' /\ Pruning'
      /\ SnapshotTaken' = SnapshotTaken
  BY <1>1, <1>2, <1>3, GoesOn DEF Change
<1>5. ExecutionOK'
  BY <1>1, <1>2 DEF ExecutionOK, SameCommand, CommandIInv, Change
<1>6. Unwritten' /\ RestoredAtLast'
  BY <1>1, <1>2 DEF Unwritten, Preparing, RestoredAtLast, Snapshotting
<1>7. Protected'
  BY <1>1, <1>2, <1>4 DEF Protected, SnapshotTaken, SameCommand, CommandIInv
<1> QED BY <1>4, <1>5, <1>6, <1>7, IInvParts DEF ConductOK, CommandIInv, DiskOK

---------------------------------------------------------------------------
(* Pruning. *)

(* A set of numbers below a bound has a greatest member.                   *)
LEMMA GreatestExists ==
    ASSUME NEW bound \in Nat, NEW T, T \subseteq Nat, T # {}, \A t \in T : t <= bound
    PROVE  \E greatest \in T : \A t \in T : t <= greatest
<1> DEFINE Less == OpToRel(<, Nat)
           D == {d \in Nat : bound - d \in T}
<1>1. IsWellFoundedOn(Less, Nat)
  BY NatLessThanWellFounded
<1>2. \A m, n \in Nat : m < n => <<m, n>> \in Less
  BY DEF OpToRel
<1>3. PICK t \in T : TRUE
  OBVIOUS
<1>4. bound - t \in D
  BY <1>3
<1> HIDE DEF Less
<1>5. D \subseteq Nat /\ D # {}
  BY <1>4
<1>6. PICK least \in D : \A d \in D : ~ (<<d, least>> \in Less)
  <2> HIDE DEF D
  <2> QED BY <1>1, <1>5, WFMin, Zenon
<1>7. \A d \in D : ~ (d < least)
  BY <1>2, <1>5, <1>6
<1>8. bound - least \in T
  BY <1>6
<1>9. ASSUME NEW s \in T
      PROVE  s <= bound - least
  <2>1. bound - s \in D
    OBVIOUS
  <2>2. ~ (bound - s < least)
    BY <1>7, <2>1
  <2> QED BY <1>5, <2>2
<1> QED BY <1>8, <1>9

(* Finitely many backups are listed, as each has a directory of its own.   *)
LEMMA ListingFinite ==
    ASSUME NEW disk, NEW bound \in Nat,
           \A d \in DOMAIN disk :
               d \in Nat /\ d < bound /\ \A m, n \in disk[d].manifest : m.id = d /\ m = n
    PROVE  IsFiniteSet(ListManifests(disk))
<1> DEFINE L == ListManifests(disk)
           f == [m \in L |-> m.id]
<1>1. \A m \in L : m.id \in DOMAIN disk /\ m \in disk[m.id].manifest
  BY ListedIn
<1>2. IsFiniteSet(0 .. bound)
  BY FS_Interval
<1>3. \A m \in L : m.id \in 0 .. bound
  BY <1>1
<1>4. \A m, n \in L : m.id = n.id => m = n
  BY <1>1
<1> HIDE DEF L
<1>5. f \in [L -> 0 .. bound] /\ \A m, n \in L : f[m] = f[n] => m = n
  BY <1>3, <1>4
<1>6. f \in Injection(L, 0 .. bound)
  BY <1>5 DEF Injection, IsInjective
<1> QED BY <1>2, <1>6, FS_Injection DEF L

(* More backups that stay are more that are newer.                         *)
LEMMA NewerGrows ==
    ASSUME NEW A, NEW B, A \subseteq B, IsFiniteSet(B), NEW m
    PROVE  Cardinality(Newer(m, A)) <= Cardinality(Newer(m, B))
<1>1. IsFiniteSet(Newer(m, B))
  BY FS_Subset DEF Newer
<1>2. Newer(m, A) \in SUBSET Newer(m, B)
  BY DEF Newer
<1> QED BY <1>1, <1>2, FS_Subset

(* Every backup that Prune chooses is older than as many that it does not  *)
(* choose as are to be kept: those newer than the newest one it chooses.   *)
LEMMA PruneChooses ==
    ASSUME DiskOK, next \in Nat, NEW m \in ToDelete(ListManifests(dirs))
    PROVE  /\ ~m.pinned /\ m \in ListManifests(dirs)
           /\ Cardinality(Newer(m, Unpinned(ListManifests(dirs)) \ ToDelete(ListManifests(dirs))))
                  >= Retention
<1> DEFINE L == ListManifests(dirs)
           S == Unpinned(L)
           K == ToDelete(L)
           T == {k.id : k \in K}
<1>1. IsFiniteSet(L) /\ \A n \in L : n.id \in Nat /\ n.id < next
  <2>1. \A d \in DOMAIN dirs :
            d \in Nat /\ d < next /\ \A n1, n2 \in dirs[d].manifest : n1.id = d /\ n1 = n2
    BY DEF DiskOK, DirectoriesOK
  <2>2. \A n \in L : n.id \in DOMAIN dirs
    BY <2>1, ListedIn
  <2> QED BY <2>1, <2>2, ListingFinite
<1>2. K = {n \in S : Cardinality(Newer(n, S)) >= Retention} /\ m \in K
  BY DEF ToDelete
<1>3. S \subseteq L /\ \A n \in S : ~n.pinned
  BY DEF Unpinned
<1> HIDE DEF L, S, K
<1>4. T \subseteq Nat /\ T # {} /\ \A t \in T : t <= next
  BY <1>1, <1>2, <1>3
<1>5. PICK greatest \in T : \A t \in T : t <= greatest
  <2> HIDE DEF T
  <2> QED BY <1>4, GreatestExists
<1>6. PICK top \in K : top.id = greatest
  OBVIOUS
<1>7. \A k \in K : k.id <= top.id /\ k.id \in Nat
  BY <1>1, <1>2, <1>3, <1>5, <1>6
<1>8. Newer(top, S) \subseteq Newer(m, S \ K)
  <2> SUFFICES ASSUME NEW n \in S, n.id > top.id
               PROVE  n \notin K /\ n.id > m.id
    BY DEF Newer
  <2>1. n.id \in Nat /\ top.id \in Nat /\ m.id <= top.id /\ m.id \in Nat
    BY <1>1, <1>2, <1>3, <1>7
  <2>2. n \notin K
    BY <1>7, <2>1
  <2> QED BY <2>1, <2>2
<1>9. IsFiniteSet(Newer(m, S \ K)) /\ IsFiniteSet(Newer(top, S))
  <2>1. IsFiniteSet(S)
    BY <1>1, <1>3, FS_Subset
  <2>2. Newer(m, S \ K) \subseteq S /\ Newer(top, S) \subseteq S
    BY DEF Newer
  <2> QED BY <2>1, <2>2, FS_Subset
<1>10. Cardinality(Newer(top, S)) <= Cardinality(Newer(m, S \ K))
  BY <1>8, <1>9, FS_Subset
<1>11. Cardinality(Newer(top, S)) >= Retention
  BY <1>2
<1>12. Cardinality(Newer(m, S \ K)) >= Retention
  <2>1. Cardinality(Newer(top, S)) \in Nat /\ Cardinality(Newer(m, S \ K)) \in Nat
    BY <1>9, FS_CardinalityType
  <2> QED BY <1>10, <1>11, <2>1, RetentionAssumption
<1> QED BY <1>2, <1>3, <1>12 DEF L, S, K

---------------------------------------------------------------------------
(* The steps of a snapshot. *)

LEMMA DirUpdates ==
    ASSUME NEW dir \in Directories, NEW manifest \in SUBSET Manifests
    PROVE  LET d == [dir EXCEPT !.manifest = manifest] IN
           d \in Directories /\ d.manifest = manifest /\ d.archive = dir.archive
  BY DEF Directories

LEMMA ArchiveUpdates ==
    ASSUME NEW dir \in Directories, NEW archive \in SUBSET Files
    PROVE  LET d == [dir EXCEPT !.archive = archive] IN
           d \in Directories /\ d.archive = archive /\ d.manifest = dir.manifest
  BY DEF Directories

(* A directory holds at most one archive, and a manifest of its own.       *)
LEMMA DirHolds ==
    ASSUME DiskOK, NEW id
    PROVE  /\ Dir(id) \in Directories
           /\ \A m, n \in Dir(id).manifest : m.id = id /\ m = n
           /\ \A a1, a2 \in Dir(id).archive : a1 = a2
  BY DirTyped, NoDirTyped DEF DiskOK, DirectoriesOK, Dir

(* Losing the manifest loses the backup from the listing only.             *)
LEMMA EmptiedKeeps ==
    ASSUME DiskOK, next \in Nat, next' = next, NEW id \in Nat, id < next,
           dirs' = ManifestEmptied(id)
    PROVE  /\ DiskOK'
           /\ ListManifests(dirs') \subseteq ListManifests(dirs)
           /\ \A x : Dir(x)'.archive = Dir(x).archive
<1> DEFINE dir == [Dir(id) EXCEPT !.manifest = {}]
<1>1. dir \in Directories /\ dir.manifest = {} /\ dir.archive = Dir(id).archive
  BY DirHolds, DirUpdates
<1>2. \A a1, a2 \in dir.archive : a1 = a2
  BY <1>1, DirHolds
<1>3. dirs' = WithDir(id, dir)
  BY DEF ManifestEmptied
<1> HIDE DEF dir
<1>4. DiskOK'
  BY <1>1, <1>2, <1>3, WithDirKeeps
<1>5. \A m : m \in ListManifests(dirs') => m \in ListManifests(dirs)
  BY <1>1, <1>3, <1>4, WithDirLists
<1>6. \A x : Dir(x)' = IF x = id THEN dir ELSE Dir(x)
  BY <1>3, WithDirIs
<1> QED BY <1>1, <1>4, <1>5, <1>6

(* Writing a manifest with an identifier that is in use.                   *)
LEMMA WrittenKeeps ==
    ASSUME DiskOK, next \in Nat, next' = next, NEW m \in Manifests, m.id < next,
           dirs' = ManifestWritten(m)
    PROVE  /\ DiskOK'
           /\ \A n : n \in ListManifests(dirs') <=>
                         n = m \/ (n.id # m.id /\ n \in ListManifests(dirs))
           /\ \A x : Dir(x)'.archive = Dir(x).archive
<1> DEFINE id == m.id
           dir == [Dir(id) EXCEPT !.manifest = {m}]
<1>1. dir \in Directories /\ dir.manifest = {m} /\ dir.archive = Dir(id).archive
  BY DirHolds, DirUpdates
<1>2. /\ \A a1, a2 \in dir.archive : a1 = a2
      /\ \A n1, n2 \in dir.manifest : n1.id = id /\ n1 = n2
  BY <1>1, DirHolds
<1>3. dirs' = WithDir(id, dir) /\ id \in Nat
  BY DEF ManifestWritten, Manifests
<1> HIDE DEF dir
<1>4. DiskOK'
  BY <1>1, <1>2, <1>3, WithDirKeeps
<1>5. \A n : n \in ListManifests(dirs') <=>
                 IF n.id = id THEN n \in dir.manifest ELSE n \in ListManifests(dirs)
  BY <1>1, <1>3, <1>4, WithDirLists
<1>6. \A x : Dir(x)' = IF x = id THEN dir ELSE Dir(x)
  BY <1>3, WithDirIs
<1> QED BY <1>1, <1>4, <1>5, <1>6

(* A command that goes on with its snapshot.                               *)
LEMMA SnapshotGoesOn ==
    ASSUME CommandIInv, cmd.pc \in Snapshotting, cmd'.pc \in Snapshotting,
           cmd'.kind = cmd.kind, cmd'.id = cmd.id, cmd'.targets = cmd.targets,
           cmd'.before = cmd.before, cmd'.touched = cmd.touched,
           exec' = exec, files' = files, next' = next,
           cmd'.pc \notin {"archive", "manifest"} /\ cmd.kind # "upgrade" =>
               cmd'.manifest # {}
    PROVE  ExecutionOK' /\ PhaseOK' /\ Unwritten' /\ Protected' /\ RestoredAtLast'
<1>1. cmd.pc \notin {"idle", "run", "change"} /\ cmd'.pc \notin {"idle", "run", "change"}
  BY DEF Snapshotting
<1>2. ExecutionOK'
  BY StutterStep DEF ExecutionOK, CommandIInv
<1>3. PhaseOK'
  BY <1>1 DEF PhaseOK, CommandIInv
<1>4. ~cmd.touched /\ Managed(files, cmd.targets) = cmd.before
  BY DEF Unwritten, Preparing, CommandIInv
<1>5. Unwritten'
  BY <1>4 DEF Unwritten
<1>6. Protected' /\ RestoredAtLast'
  BY <1>1, <1>4 DEF Protected, RestoredAtLast
<1> QED BY <1>2, <1>3, <1>5, <1>6

(* A command that ends, is stopped or is killed.                           *)
LEMMA StopKeeps ==
    ASSUME CommandIInv, Stop, files' = files, next' = next, listed' = listed, DiskOK',
           ListManifests(dirs') \subseteq ListManifests(dirs),
           \A x : Dir(x)'.archive \subseteq Dir(x).archive
    PROVE  CommandIInv'
<1>1. cmd' = Idle /\ exec' = NoExecution
  BY DEF Stop
<1>2. ConductOK'
  BY <1>1, AtRest
<1>3. cmd' \in Commands /\ cmd'.pc = "idle" /\ cmd'.manifest = {} /\ cmd'.doomed = {}
      /\ DOMAIN cmd'.before \subseteq cmd'.targets
  BY <1>1, IdleIs DEF Idle, NoFiles
<1>4. CommandTypeOK'
  BY <1>3 DEF CommandIInv, CommandTypeOK, DiskOK
<1>5. Known' \subseteq Known
  BY <1>3 DEF Known
<1>6. Described'
  BY <1>5, DescribedKeeps DEF CommandIInv
<1>7. Newest'
  BY <1>3, <1>5 DEF Newest, CommandIInv
<1> QED BY <1>2, <1>4, <1>6, <1>7 DEF ConductOK, CommandIInv, DiskOK

LEMMA FinishKeeps ==
    ASSUME CommandIInv, Finish
    PROVE  CommandIInv'
<1>1. Stop /\ UNCHANGED <<files, dirs, next, listed>>
  BY DEF Finish
<1>2. DiskOK' /\ \A x : Dir(x)' = Dir(x)
  BY <1>1, IInvParts DEF DiskOK, DirectoriesOK, Dir
<1> QED BY <1>1, <1>2, StopKeeps

(* The facts about the command that the steps of its snapshot share.       *)
LEMMA SnapshotIs ==
    ASSUME CommandIInv, cmd.pc \in Snapshotting
    PROVE  /\ cmd \in Commands /\ cmd.id \in Nat /\ cmd.id < next /\ next \in Nat
           /\ cmd.pc # "idle" /\ cmd.kind \in Kinds /\ DiskOK /\ files \in Files
           /\ ~cmd.touched /\ Managed(files, cmd.targets) = cmd.before
           /\ cmd.before \in Files /\ DOMAIN cmd.before = cmd.targets \cap DOMAIN files
<1>1. cmd \in Commands /\ next \in Nat /\ files \in Files /\ DiskOK
  BY IInvParts DEF CommandTypeOK
<1>2. cmd.id \in Nat /\ cmd.before \in Files
  BY <1>1 DEF Commands
<1>3. cmd.pc # "idle"
  BY DEF Snapshotting
<1>4. cmd.id < next /\ cmd.kind \in Kinds
  BY <1>1, <1>2, <1>3 DEF CommandIInv, PhaseOK
<1>5. ~cmd.touched /\ Managed(files, cmd.targets) = cmd.before
  BY DEF Unwritten, Preparing, CommandIInv
<1> QED BY <1>1, <1>2, <1>3, <1>4, <1>5, ManagedIs

LEMMA CrashKeeps ==
    ASSUME CommandIInv, Crash
    PROVE  CommandIInv'
<1>1. Stop /\ UNCHANGED <<files, next, listed>>
  BY DEF Crash
<1>2. CASE dirs' = dirs
  <2>1. DiskOK' /\ \A x : Dir(x)' = Dir(x)
    BY <1>1, <1>2, IInvParts DEF DiskOK, DirectoriesOK, Dir
  <2> QED BY <1>1, <1>2, <2>1, StopKeeps
<1>3. CASE cmd.pc = "annotate" /\ dirs' = ManifestEmptied(cmd.id)
  <2>1. DiskOK /\ next \in Nat /\ cmd.id \in Nat /\ cmd.id < next
    BY <1>3, SnapshotIs DEF Snapshotting
  <2>2. /\ DiskOK' /\ ListManifests(dirs') \subseteq ListManifests(dirs)
        /\ \A x : Dir(x)'.archive = Dir(x).archive
    BY <1>1, <1>3, <2>1, EmptiedKeeps
  <2> QED BY <1>1, <2>2, StopKeeps
<1> QED BY <1>2, <1>3 DEF Crash

(* The archive is written: of what the targets were when the command       *)
(* began, in a directory nobody knows yet.                                 *)
LEMMA CreateArchiveKeeps ==
    ASSUME CommandIInv, CreateArchive
    PROVE  CommandIInv'
<1> DEFINE existed == cmd.targets \cap DOMAIN files
           archive == IF existed = {} THEN {} ELSE {Managed(files, existed)}
           dir == [NoDir EXCEPT !.archive = archive]
<1>1. /\ cmd.pc = "archive" /\ cmd.pc \in Snapshotting /\ "manifest" \in Snapshotting
      /\ "manifest" \in Phases
      /\ Goto("manifest") /\ dirs' = WithDir(cmd.id, dir)
      /\ UNCHANGED <<exec, files, next, listed>>
  BY DEF CreateArchive, ArchiveWritten, Snapshotting, Phases
<1>2. /\ cmd \in Commands /\ cmd.id \in Nat /\ cmd.id < next /\ next \in Nat
      /\ DiskOK /\ files \in Files /\ Managed(files, cmd.targets) = cmd.before
      /\ DOMAIN cmd.before = existed
  BY <1>1, SnapshotIs
<1>3. /\ cmd' \in Commands /\ SameCommand /\ cmd'.pc = "manifest"
      /\ cmd'.doomed = cmd.doomed /\ cmd'.touched = cmd.touched
  BY <1>1, <1>2, GotoIs
<1>4. archive = ArchiveOfBefore /\ archive \in SUBSET Files
  <2>1. Managed(files, existed) = Managed(files, cmd.targets)
    <3>1. existed \cap DOMAIN files = cmd.targets \cap DOMAIN files
      OBVIOUS
    <3> QED BY <3>1 DEF Managed
  <2> QED BY <1>2, <2>1, ManagedTyped DEF ArchiveOfBefore
<1>5. dir \in Directories /\ dir.manifest = {} /\ dir.archive = archive
  <2> HIDE DEF archive
  <2> QED BY <1>4, NoDirTyped, ArchiveUpdates
<1>6. \A a1, a2 \in dir.archive : a1 = a2
  BY <1>5
<1> HIDE DEF dir, archive, existed
<1>7. DiskOK'
  BY <1>1, <1>2, <1>5, <1>6, WithDirKeeps
<1>8. \A m : m \in ListManifests(dirs') => m.id # cmd.id /\ m \in ListManifests(dirs)
  BY <1>1, <1>2, <1>5, <1>7, WithDirLists
<1>9. \A x : Dir(x)' = IF x = cmd.id THEN dir ELSE Dir(x)
  BY <1>1, WithDirIs
<1>10. cmd.manifest = {} /\ \A m \in listed \union cmd.doomed : m.id # cmd.id
  BY <1>1, <1>2 DEF CommandIInv, Owned, Newest
<1>11. /\ Known' \subseteq Known /\ cmd'.manifest = {}
       /\ \A m \in Known' : Dir(m.id)' = Dir(m.id)
  BY <1>1, <1>3, <1>8, <1>9, <1>10 DEF Known, SameCommand
<1>12. CommandTypeOK'
  BY <1>1, <1>3, <1>7 DEF CommandIInv, CommandTypeOK, DiskOK, SameCommand
<1>13. Described'
  BY <1>11, DescribedKeeps DEF CommandIInv
<1>14. Newest'
  BY <1>1, <1>3, <1>8, <1>11 DEF Newest, CommandIInv, SameCommand
<1>15. ExecutionOK' /\ PhaseOK' /\ Unwritten' /\ Protected' /\ RestoredAtLast'
  BY <1>1, <1>3, SnapshotGoesOn DEF SameCommand
<1>16. Owned' /\ Pruning'
  BY <1>3, <1>4, <1>5, <1>9, <1>11 DEF Owned, Pruning, ArchiveOfBefore, SameCommand
<1> QED BY <1>7, <1>12, <1>13, <1>14, <1>15, <1>16 DEF CommandIInv, DiskOK

(* The manifest is of the archive that was written before, the files not   *)
(* having changed meanwhile.                                               *)
LEMMA WriteManifestKeeps ==
    ASSUME CommandIInv, WriteManifest
    PROVE  CommandIInv'
<1> DEFINE checksum == IF Archived = {} THEN emptyFilesChecksum
                       ELSE ComputeChecksum(Archived)
           manifest == Manifest(cmd.id, cmd.targets, Archived, checksum)
<1>1. /\ cmd.pc = "manifest" /\ cmd.pc \in Snapshotting /\ "annotate" \in Snapshotting
      /\ dirs' = ManifestWritten(manifest)
      /\ cmd' = [cmd EXCEPT !.pc = "annotate", !.manifest = {manifest}]
      /\ UNCHANGED <<exec, files, next, listed>>
  BY DEF WriteManifest, Snapshotting
<1>2. /\ cmd \in Commands /\ cmd.id \in Nat /\ cmd.id < next /\ next \in Nat
      /\ DiskOK /\ files \in Files /\ Managed(files, cmd.targets) = cmd.before
      /\ cmd.before \in Files /\ DOMAIN cmd.before = cmd.targets \cap DOMAIN files
  BY <1>1, SnapshotIs
<1>3. Dir(cmd.id).archive = ArchiveOfBefore /\ cmd.manifest = {}
  BY <1>1 DEF CommandIInv, Owned
<1>4. Archived = DOMAIN cmd.before
  BY <1>3 DEF Archived, ArchiveOfBefore
<1>5. checksum = {cmd.before}
  <2>1. CASE DOMAIN cmd.before = {}
    <3>1. cmd.before = NoFiles
      BY <1>2, <2>1, FilesAre DEF NoFiles
    <3> QED BY <1>4, <2>1, <3>1 DEF emptyFilesChecksum
  <2>2. CASE DOMAIN cmd.before # {}
    <3>1. Managed(files, DOMAIN cmd.before) = Managed(files, cmd.targets)
      <4>1. DOMAIN cmd.before \cap DOMAIN files = cmd.targets \cap DOMAIN files
        BY <1>2
      <4> QED BY <4>1 DEF Managed
    <3>2. DOMAIN cmd.before \cap DOMAIN files # {}
      BY <1>2, <2>2
    <3> QED BY <1>2, <1>4, <2>2, <3>1, <3>2 DEF ComputeChecksum
  <2> QED BY <2>1, <2>2
<1>6. /\ manifest \in Manifests /\ manifest.id = cmd.id
      /\ manifest.entries = cmd.targets /\ manifest.existed = DOMAIN cmd.before
      /\ manifest.checksum = {cmd.before}
  <2>1. cmd.targets \subseteq Path /\ DOMAIN cmd.before \subseteq Path
    BY <1>2, FilesAre DEF Commands
  <2> HIDE DEF checksum
  <2> QED BY <1>2, <1>4, <1>5, <2>1 DEF Manifest, Manifests
<1> HIDE DEF manifest, checksum
<1>7. /\ cmd' \in Commands /\ cmd'.pc = "annotate" /\ cmd'.manifest = {manifest}
      /\ cmd'.kind = cmd.kind /\ cmd'.targets = cmd.targets /\ cmd'.id = cmd.id
      /\ cmd'.before = cmd.before
      /\ cmd'.doomed = cmd.doomed /\ cmd'.touched = cmd.touched
  BY <1>1, <1>2, <1>6, ManifestIs
<1>8. /\ DiskOK'
      /\ \A n : n \in ListManifests(dirs') <=>
                    n = manifest \/ (n.id # cmd.id /\ n \in ListManifests(dirs))
      /\ \A x : Dir(x)'.archive = Dir(x).archive
  BY <1>1, <1>2, <1>6, WrittenKeeps
<1>9. CommandTypeOK'
  BY <1>1, <1>7, <1>8 DEF CommandIInv, CommandTypeOK, DiskOK
<1>10. Known' \subseteq Known \union {manifest}
  BY <1>1, <1>7, <1>8 DEF Known
<1>11. ASSUME NEW m \in Known'
       PROVE  /\ \E fs \in m.checksum : m.checksum = {fs} /\ DOMAIN fs = m.existed
              /\ \A archive \in Dir(m.id)'.archive : m.checksum = {archive}
  <2>1. CASE m \in Known
    BY <1>8, <2>1 DEF CommandIInv, Described
  <2>2. CASE m = manifest
    BY <1>3, <1>6, <1>8, <2>2 DEF ArchiveOfBefore
  <2> QED BY <1>10, <2>1, <2>2
<1>12. Described'
  BY <1>11 DEF Described
<1>13. Newest'
  BY <1>1, <1>2, <1>6, <1>7, <1>8, <1>10 DEF Newest, CommandIInv
<1>14. ExecutionOK' /\ PhaseOK' /\ Unwritten' /\ Protected' /\ RestoredAtLast'
  BY <1>1, <1>7, SnapshotGoesOn
<1>15. Owned' /\ Pruning'
  BY <1>3, <1>6, <1>7, <1>8 DEF Owned, Pruning, ArchiveOfBefore
<1> QED BY <1>8, <1>9, <1>12, <1>13, <1>14, <1>15 DEF CommandIInv, DiskOK

(* A step of a command's snapshot or pruning that makes no new manifest.   *)
LEMMA SnapshotKnows ==
    ASSUME CommandIInv, cmd.pc \in Snapshotting, cmd' \in Commands, SameCommand,
           cmd'.pc # "idle", files' = files, next' = next, listed' = listed, DiskOK',
           ListManifests(dirs') \subseteq ListManifests(dirs) \union cmd.manifest,
           cmd'.doomed \subseteq ListManifests(dirs) \union cmd.doomed,
           \A m \in cmd'.doomed : m.id < cmd.id,
           \A x : Dir(x)'.archive \subseteq Dir(x).archive
    PROVE  CommandTypeOK' /\ Described' /\ Newest'
<1>1. Known' \subseteq Known
  BY DEF Known, SameCommand
<1>2. cmd.pc # "idle"
  BY DEF Snapshotting
<1>3. CommandTypeOK'
  BY DEF CommandIInv, CommandTypeOK, DiskOK, SameCommand
<1>4. Described'
  BY <1>1, DescribedKeeps DEF CommandIInv
<1>5. Newest'
  BY <1>1, <1>2 DEF Newest, CommandIInv, SameCommand
<1> QED BY <1>3, <1>4, <1>5

(* A command returns from its snapshot to the pipeline.                    *)
LEMMA ReturnsToRun ==
    ASSUME CommandIInv, cmd.pc \in Snapshotting, cmd.kind \in Pipelined,
           NEW status \in Status, Prepare(status), Goto("run"),
           status = "succeeded" => cmd.manifest # {},
           files' = files, next' = next
    PROVE  ExecutionOK' /\ PhaseOK' /\ Unwritten' /\ Protected' /\ RestoredAtLast'
<1>1. /\ cmd \in Commands /\ cmd.pc # "idle" /\ cmd.kind \in Kinds
      /\ ~cmd.touched /\ Managed(files, cmd.targets) = cmd.before
  BY SnapshotIs
<1>2. PipelineInv /\ exec.plan \in {InstallPlan, SyncPlan} /\ PipelineInv'
  BY PrepareStep DEF CommandIInv, ExecutionOK
<1>3. /\ exec'.plan = exec.plan /\ exec'.stage = "prepare" /\ exec'.undone = << >>
      /\ Len(exec'.prepared) = Len(exec.prepared) + 1
      /\ status = "failed" => Failed(exec.prepared)'
  BY <1>2, PrepareIs
<1>4. /\ SameCommand /\ cmd'.pc = "run" /\ cmd'.touched = cmd.touched
  BY <1>1, GotoIs DEF Phases
<1>5. Len(exec.prepared) + 1 = Len(exec.plan.prepare) /\ next = cmd.id + 1
  BY <1>1 DEF CommandIInv, PhaseOK
<1>6. ExecutionOK' /\ PhaseOK'
  BY <1>1, <1>2, <1>3, <1>4, <1>5 DEF ExecutionOK, PhaseOK, SameCommand, Snapshotting
<1>7. Unwritten' /\ RestoredAtLast'
  BY <1>1, <1>3, <1>4, NothingRestored DEF Unwritten, SameCommand
<1>8. Protected'
  <2>1. status \in {"succeeded", "failed"}
    BY DEF Status
  <2> QED BY <1>1, <1>3, <1>4, <1>5, <2>1 DEF Protected, SnapshotTaken, SameCommand
<1> QED BY <1>6, <1>7, <1>8

(* A command that has taken its snapshot, or does without, changes files.  *)
LEMMA GoesToChange ==
    ASSUME CommandIInv, cmd.pc \in Snapshotting, cmd.kind \notin Pipelined,
           Goto("change"), cmd.kind # "upgrade" => cmd.manifest # {},
           exec' = exec, files' = files, next' = next
    PROVE  ExecutionOK' /\ PhaseOK' /\ Unwritten' /\ Protected' /\ RestoredAtLast'
<1>1. /\ cmd \in Commands /\ cmd.pc # "idle" /\ cmd.kind \in Kinds /\ ~cmd.touched
  BY SnapshotIs
<1>2. SameCommand /\ cmd'.pc = "change" /\ cmd'.touched = cmd.touched
  BY <1>1, GotoIs DEF Phases
<1>3. ExecutionOK' /\ PhaseOK'
  BY <1>1, <1>2 DEF ExecutionOK, PhaseOK, SameCommand, Snapshotting, CommandIInv
<1>4. Unwritten' /\ Protected' /\ RestoredAtLast'
  BY <1>1, <1>2 DEF Unwritten, Preparing, Snapshotting, Protected, RestoredAtLast, SameCommand
<1> QED BY <1>3, <1>4

LEMMA SnapshotFailsKeeps ==
    ASSUME CommandIInv, SnapshotFails
    PROVE  CommandIInv'
<1>1. /\ cmd.pc \in {"archive", "manifest"} /\ cmd.pc \in Snapshotting
      /\ dirs' = ManifestEmptied(cmd.id)
      /\ UNCHANGED <<files, next, listed>>
  BY DEF SnapshotFails, Snapshotting
<1>2. /\ cmd \in Commands /\ cmd.id \in Nat /\ cmd.id < next /\ next \in Nat
      /\ DiskOK /\ cmd.kind \in Kinds /\ cmd.manifest = {}
  BY <1>1, SnapshotIs DEF CommandIInv, Owned
<1>3. /\ DiskOK' /\ ListManifests(dirs') \subseteq ListManifests(dirs)
      /\ \A x : Dir(x)'.archive = Dir(x).archive
  BY <1>1, <1>2, EmptiedKeeps
<1>4. ASSUME NEW pc \in Phases \ {"idle"}, Goto(pc)
      PROVE  /\ CommandTypeOK' /\ Described' /\ Newest'
             /\ pc \notin {"manifest", "pruning"} => Owned' /\ Pruning'
  <2>1. /\ cmd' \in Commands /\ SameCommand /\ cmd'.pc = pc /\ cmd'.doomed = cmd.doomed
    BY <1>2, <1>4, GotoIs
  <2>2. \A m \in cmd.doomed : m.id < cmd.id
    BY <1>1 DEF CommandIInv, Newest
  <2>3. CommandTypeOK' /\ Described' /\ Newest'
    BY <1>1, <1>3, <1>4, <2>1, <2>2, SnapshotKnows
  <2>4. pc \notin {"manifest", "pruning"} => Owned' /\ Pruning'
    BY <1>2, <2>1 DEF Owned, Pruning, SameCommand
  <2> QED BY <2>3, <2>4
<1>5. CASE cmd.kind \in Pipelined
  <2>1. Prepare("failed") /\ Goto("run") /\ "failed" \in Status
    BY <1>5 DEF SnapshotFails, Status, Pipelined
  <2>2. ExecutionOK' /\ PhaseOK' /\ Unwritten' /\ Protected' /\ RestoredAtLast'
    BY <1>1, <1>5, <2>1, ReturnsToRun
  <2>3. CommandTypeOK' /\ Described' /\ Newest' /\ Owned' /\ Pruning'
    BY <1>4, <2>1 DEF Phases
  <2> QED BY <1>3, <2>2, <2>3 DEF CommandIInv, DiskOK
<1>6. CASE cmd.kind = "uninstall"
  <2>1. Stop
    BY <1>6 DEF SnapshotFails, Pipelined
  <2> QED BY <1>1, <1>3, <2>1, StopKeeps
<1>7. CASE cmd.kind = "upgrade"
  <2>1. Goto("prune") /\ exec' = exec
    BY <1>7 DEF SnapshotFails, Pipelined
  <2>2. SameCommand /\ cmd'.pc = "prune" /\ cmd'.touched = cmd.touched
    BY <1>2, <2>1, GotoIs DEF Phases, Snapshotting
  <2>3. ExecutionOK' /\ PhaseOK' /\ Unwritten' /\ Protected' /\ RestoredAtLast'
    BY <1>1, <1>7, <2>1, <2>2, SnapshotGoesOn DEF SameCommand, Snapshotting
  <2>4. CommandTypeOK' /\ Described' /\ Newest' /\ Owned' /\ Pruning'
    BY <1>4, <2>1 DEF Phases, Snapshotting
  <2> QED BY <1>3, <2>3, <2>4 DEF CommandIInv, DiskOK
<1> QED BY <1>2, <1>5, <1>6, <1>7, KindsAssumption DEF Pipelined

(* The second write of the manifest, whether it fails or not.              *)
LEMMA AnnotatedGoesOn ==
    ASSUME CommandIInv, cmd.pc = "annotate", Goto(AfterSnapshot), exec' = exec,
           files' = files, next' = next, listed' = listed, DiskOK',
           ListManifests(dirs') \subseteq ListManifests(dirs) \union cmd.manifest,
           \A x : Dir(x)'.archive = Dir(x).archive
    PROVE  CommandIInv'
<1>1. /\ cmd.pc \in Snapshotting /\ "prune" \in Snapshotting
      /\ AfterSnapshot \in Phases \ {"idle", "archive", "manifest", "pruning"}
  BY DEF Snapshotting, Phases, AfterSnapshot
<1>2. cmd \in Commands
  BY <1>1, SnapshotIs
<1>3. /\ cmd' \in Commands /\ SameCommand /\ cmd'.pc = AfterSnapshot
      /\ cmd'.doomed = cmd.doomed /\ cmd'.touched = cmd.touched
  BY <1>1, <1>2, GotoIs
<1>4. \A m \in cmd.doomed : m.id < cmd.id
  BY DEF CommandIInv, Newest
<1>5. CommandTypeOK' /\ Described' /\ Newest'
  BY <1>1, <1>3, <1>4, SnapshotKnows
<1>6. Owned' /\ Pruning'
  BY <1>1, <1>3 DEF Owned, Pruning, ArchiveOfBefore, SameCommand, CommandIInv
<1>7. cmd.kind # "upgrade" => cmd.manifest # {}
  BY DEF CommandIInv, Protected
<1>8. ExecutionOK' /\ PhaseOK' /\ Unwritten' /\ Protected' /\ RestoredAtLast'
  <2>1. CASE cmd.kind = "uninstall"
    BY <1>1, <1>7, <2>1, GoesToChange DEF AfterSnapshot, Pipelined
  <2>2. CASE cmd.kind # "uninstall"
    BY <1>1, <1>3, <1>7, <2>2, SnapshotGoesOn DEF AfterSnapshot, SameCommand
  <2> QED BY <2>1, <2>2
<1> QED BY <1>5, <1>6, <1>8 DEF CommandIInv, DiskOK

LEMMA AnnotateKeeps ==
    ASSUME CommandIInv, Annotate
    PROVE  CommandIInv'
<1>1. /\ cmd.pc = "annotate" /\ cmd.pc \in Snapshotting /\ Goto(AfterSnapshot)
      /\ UNCHANGED <<exec, files, next, listed>>
  BY DEF Annotate, Snapshotting
<1>2. PICK m \in cmd.manifest : dirs' = ManifestWritten(m)
  BY DEF Annotate
<1>3. cmd \in Commands /\ DiskOK /\ cmd.id < next /\ next \in Nat
  BY <1>1, SnapshotIs
<1>4. m \in Manifests /\ m.id < next
  BY <1>1, <1>3 DEF CommandIInv, Newest, Commands
<1>5. /\ DiskOK'
      /\ \A n : n \in ListManifests(dirs') => n = m \/ n \in ListManifests(dirs)
      /\ \A x : Dir(x)'.archive = Dir(x).archive
  BY <1>1, <1>2, <1>3, <1>4, WrittenKeeps
<1>6. ListManifests(dirs') \subseteq ListManifests(dirs) \union cmd.manifest
  BY <1>5
<1> QED BY <1>1, <1>5, <1>6, AnnotatedGoesOn

LEMMA AnnotateFailsKeeps ==
    ASSUME CommandIInv, AnnotateFails
    PROVE  CommandIInv'
<1>1. /\ cmd.pc = "annotate" /\ cmd.pc \in Snapshotting
      /\ dirs' = ManifestEmptied(cmd.id) /\ UNCHANGED <<files, next, listed>>
  BY DEF AnnotateFails, Snapshotting
<1>2. cmd.id \in Nat /\ DiskOK /\ cmd.id < next /\ next \in Nat
  BY <1>1, SnapshotIs
<1>3. /\ DiskOK' /\ ListManifests(dirs') \subseteq ListManifests(dirs)
      /\ \A x : Dir(x)'.archive = Dir(x).archive
  BY <1>1, <1>2, EmptiedKeeps
<1>4. CASE cmd.kind = "uninstall"
  BY <1>1, <1>3, <1>4, StopKeeps DEF AnnotateFails
<1>5. CASE cmd.kind # "uninstall"
  BY <1>1, <1>3, <1>5, AnnotatedGoesOn DEF AnnotateFails
<1> QED BY <1>4, <1>5

---------------------------------------------------------------------------
(* The steps of pruning. *)

LEMMA PruneKeeps ==
    ASSUME CommandIInv, Prune
    PROVE  CommandIInv'
<1> DEFINE L == ListManifests(dirs)
           doomed == ToDelete(L)
<1>1. /\ cmd.pc = "prune" /\ cmd.pc \in Snapshotting /\ "pruning" \in Snapshotting
      /\ cmd' = [cmd EXCEPT !.pc = "pruning", !.doomed = doomed]
      /\ UNCHANGED <<exec, files, dirs, next, listed>>
  BY DEF Prune, Snapshotting
<1>2. cmd \in Commands /\ cmd.id \in Nat /\ cmd.id < next /\ next \in Nat /\ DiskOK
      /\ next = cmd.id + 1
  BY <1>1, SnapshotIs DEF CommandIInv, PhaseOK
<1>3. \A m \in doomed :
          /\ ~m.pinned /\ m \in L
          /\ Cardinality(Newer(m, Unpinned(L) \ doomed)) >= Retention
  BY <1>2, PruneChooses
<1>4. doomed # {} => Retention # 0
  BY DEF ToDelete
<1>5. \A m \in L : m \in Manifests /\ m.id \in Nat /\ m.id < next
  <2>1. \A m \in L : m \in Dir(m.id).manifest
    BY <1>2, ListedWhere
  <2>2. \A m \in L : m \in Manifests
    BY <1>2, <2>1, DirHolds DEF Directories
  <2> QED BY <2>2 DEF CommandIInv, Newest, Known, Manifests
<1> HIDE DEF doomed
<1>6. \A m \in doomed : m.id < cmd.id
  <2> SUFFICES ASSUME NEW m \in doomed, m.id = cmd.id
               PROVE  FALSE
    BY <1>2, <1>3, <1>5
  <2>1. \A n \in L : ~ (n.id > m.id)
    BY <1>2, <1>5
  <2>2. Newer(m, Unpinned(L) \ doomed) = {}
    BY <2>1 DEF Newer, Unpinned
  <2>3. Cardinality(Newer(m, Unpinned(L) \ doomed)) = 0
    BY <2>2, FS_EmptySet
  <2> QED BY <1>3, <1>4, <2>3, RetentionAssumption
<1>7. doomed \subseteq L /\ doomed \in SUBSET Manifests
  BY <1>3, <1>5
<1>8. /\ cmd' \in Commands /\ SameCommand /\ cmd'.pc = "pruning"
      /\ cmd'.doomed = doomed /\ cmd'.touched = cmd.touched
  BY <1>1, <1>2, <1>7, DoomIs
<1>9. DiskOK' /\ \A x : Dir(x)' = Dir(x)
  BY <1>1, <1>2, SameDiskKeeps DEF Dir
<1>10. CommandTypeOK' /\ Described' /\ Newest'
  BY <1>1, <1>6, <1>7, <1>8, <1>9, SnapshotKnows
<1>11. ExecutionOK' /\ PhaseOK' /\ Unwritten' /\ Protected' /\ RestoredAtLast'
  BY <1>1, <1>8, SnapshotGoesOn DEF SameCommand, CommandIInv, Protected
<1>12. Owned' /\ Pruning'
  BY <1>1, <1>3, <1>7, <1>8, <1>9
     DEF Owned, Pruning, ArchiveOfBefore, SameCommand, CommandIInv, Kept
<1> QED BY <1>9, <1>10, <1>11, <1>12 DEF CommandIInv, DiskOK

(* One directory is deleted, in whole or in part; what is to stay stays.   *)
LEMMA DeletionKeeps ==
    ASSUME CommandIInv, cmd.pc = "pruning", NEW m \in cmd.doomed, DiskOK',
           ListManifests(dirs') \subseteq ListManifests(dirs),
           \A n \in ListManifests(dirs) : n.id # m.id => n \in ListManifests(dirs'),
           \A x : Dir(x)'.archive \subseteq Dir(x).archive,
           \A x : x # m.id => Dir(x)' = Dir(x),
           cmd' = [cmd EXCEPT !.doomed = @ \ {m}],
           UNCHANGED <<exec, files, next, listed>>
    PROVE  /\ CommandIInv' /\ ~m.pinned
           /\ Cardinality(Newer(m, Unpinned(ListManifests(dirs')))) >= Retention
<1> DEFINE doomed == cmd.doomed \ {m}
<1>1. cmd.pc \in Snapshotting /\ cmd' = [cmd EXCEPT !.doomed = doomed]
  BY DEF Snapshotting
<1>2. cmd \in Commands /\ cmd.id \in Nat /\ DiskOK
  BY <1>1, SnapshotIs
<1>3. doomed \in SUBSET Manifests
  BY <1>2 DEF Commands
<1>4. /\ cmd.doomed \subseteq ListManifests(dirs)
      /\ \A n \in cmd.doomed : ~n.pinned /\ Cardinality(Newer(n, Kept)) >= Retention
  BY DEF CommandIInv, Pruning
<1>5. \A n \in cmd.doomed : n.id < cmd.id
  BY <1>1 DEF CommandIInv, Newest, Snapshotting
<1> HIDE DEF doomed
<1>6. /\ cmd' \in Commands /\ SameCommand /\ cmd'.pc = "pruning"
      /\ cmd'.doomed = doomed /\ cmd'.touched = cmd.touched
  BY <1>1, <1>2, <1>3, DoomIs
<1>7. CommandTypeOK' /\ Described' /\ Newest'
  BY <1>1, <1>4, <1>5, <1>6, SnapshotKnows DEF doomed
<1>8. ExecutionOK' /\ PhaseOK' /\ Unwritten' /\ Protected' /\ RestoredAtLast'
  BY <1>1, <1>6, SnapshotGoesOn DEF SameCommand, CommandIInv, Protected
<1>9. \A n \in ListManifests(dirs) : n # m => n \in ListManifests(dirs')
  <2> SUFFICES ASSUME NEW n \in ListManifests(dirs), n # m
               PROVE  n.id # m.id
    OBVIOUS
  <2>1. m \in Dir(m.id).manifest /\ n \in Dir(n.id).manifest
    BY <1>2, <1>4, ListedWhere
  <2> QED BY <1>2, <2>1, DirHolds
<1>10. Kept \subseteq Kept'
  BY <1>6, <1>9 DEF Kept, Unpinned, doomed
<1>11. Kept' \subseteq Unpinned(ListManifests(dirs')) /\ IsFiniteSet(Unpinned(ListManifests(dirs')))
       /\ IsFiniteSet(Kept')
  <2>1. next' \in Nat
         /\ \A d \in DOMAIN dirs' :
                d \in Nat /\ d < next'
                /\ \A n1, n2 \in dirs'[d].manifest : n1.id = d /\ n1 = n2
    BY <1>7 DEF DiskOK, DirectoriesOK, CommandTypeOK
  <2>2. IsFiniteSet(ListManifests(dirs'))
    BY <2>1, ListingFinite
  <2>3. Unpinned(ListManifests(dirs')) \subseteq ListManifests(dirs')
         /\ Kept' \subseteq Unpinned(ListManifests(dirs'))
    BY DEF Unpinned, Kept
  <2> QED BY <2>2, <2>3, FS_Subset
<1>12. ASSUME NEW n \in cmd.doomed
       PROVE  /\ Cardinality(Newer(n, Kept')) >= Retention
              /\ Cardinality(Newer(n, Unpinned(ListManifests(dirs')))) >= Retention
  <2> DEFINE A == Kept
             B == Kept'
             C == Unpinned(ListManifests(dirs'))
  <2>1. A \subseteq B /\ B \subseteq C /\ IsFiniteSet(B) /\ IsFiniteSet(C) /\ IsFiniteSet(A)
    BY <1>10, <1>11, FS_Subset
  <2>2. Cardinality(Newer(n, A)) >= Retention
    BY <1>4
  <2> HIDE DEF A, B, C
  <2>3. Cardinality(Newer(n, A)) <= Cardinality(Newer(n, B))
         /\ Cardinality(Newer(n, B)) <= Cardinality(Newer(n, C))
    BY <2>1, NewerGrows
  <2>4. IsFiniteSet(Newer(n, A)) /\ IsFiniteSet(Newer(n, B)) /\ IsFiniteSet(Newer(n, C))
    <3>1. Newer(n, A) \subseteq A /\ Newer(n, B) \subseteq B /\ Newer(n, C) \subseteq C
      BY DEF Newer
    <3> QED BY <2>1, <3>1, FS_Subset
  <2>5. /\ Cardinality(Newer(n, A)) \in Nat /\ Cardinality(Newer(n, B)) \in Nat
        /\ Cardinality(Newer(n, C)) \in Nat
    BY <2>4, FS_CardinalityType
  <2>6. Cardinality(Newer(n, B)) >= Retention /\ Cardinality(Newer(n, C)) >= Retention
    BY <2>2, <2>3, <2>5, RetentionAssumption
  <2> QED BY <2>6 DEF B, C
<1>13. Pruning'
  <2>1. \A n \in doomed : n \in cmd.doomed /\ n # m
    BY DEF doomed
  <2> QED BY <1>4, <1>6, <1>9, <1>12, <2>1 DEF Pruning
<1>14. Owned'
  <2>1. m.id # cmd.id
    BY <1>2, <1>5
  <2>2. Dir(cmd.id)' = Dir(cmd.id)
    BY <2>1, <1>6 DEF SameCommand
  <2> QED BY <1>1, <1>6, <2>2 DEF Owned, ArchiveOfBefore, SameCommand, CommandIInv
<1> QED BY <1>4, <1>7, <1>8, <1>12, <1>13, <1>14 DEF CommandIInv, DiskOK

(* What a deleted backup leaves behind, for the invariant and for what     *)
(* pruning promises.                                                       *)
DeletionIsSafe(m) ==
    /\ CommandIInv' /\ ~m.pinned
    /\ Cardinality(Newer(m, Unpinned(ListManifests(dirs')))) >= Retention
    /\ \A n \in ListManifests(dirs) \ ListManifests(dirs') : n = m

LEMMA DoomedIs ==
    ASSUME CommandIInv, cmd.pc = "pruning", NEW m \in cmd.doomed
    PROVE  /\ DiskOK /\ next \in Nat /\ m \in ListManifests(dirs)
           /\ m.id \in Nat /\ m.id < next
           /\ \A n \in ListManifests(dirs) : n.id = m.id => n = m
<1>1. DiskOK /\ next \in Nat /\ cmd \in Commands
  BY SnapshotIs DEF Snapshotting
<1>2. m \in ListManifests(dirs) /\ m.id \in Nat /\ m.id < next
  BY <1>1 DEF CommandIInv, Pruning, Newest, Known, Commands, Manifests
<1>3. ASSUME NEW n \in ListManifests(dirs), n.id = m.id
      PROVE  n = m
  <2>1. m \in Dir(m.id).manifest /\ n \in Dir(m.id).manifest
    BY <1>1, <1>2, <1>3, ListedWhere
  <2> QED BY <1>1, <2>1, DirHolds
<1> QED BY <1>1, <1>2, <1>3

LEMMA DeleteBackupKeeps ==
    ASSUME CommandIInv, NEW m \in cmd.doomed, DeleteBackup(m)
    PROVE  DeletionIsSafe(m)
<1>1. /\ cmd.pc = "pruning" /\ dirs' = WithoutDir(m.id)
      /\ cmd' = [cmd EXCEPT !.doomed = @ \ {m}]
      /\ UNCHANGED <<exec, files, next, listed>>
  BY DEF DeleteBackup
<1>2. DiskOK /\ \A n \in ListManifests(dirs) : n.id = m.id => n = m
  BY <1>1, DoomedIs
<1>3. DiskOK'
  BY <1>1, <1>2, WithoutDirKeeps
<1>4. \A n : n \in ListManifests(dirs') <=> n.id # m.id /\ n \in ListManifests(dirs)
  BY <1>1, <1>2, <1>3, WithoutDirLists
<1>5. \A x : Dir(x)' = IF x = m.id THEN NoDir ELSE Dir(x)
  BY <1>1, WithoutDirIs
<1>6. \A x : Dir(x)'.archive \subseteq Dir(x).archive
  BY <1>5, NoDirTyped
<1>7. ListManifests(dirs') \subseteq ListManifests(dirs)
      /\ \A n \in ListManifests(dirs) : n.id # m.id => n \in ListManifests(dirs')
  BY <1>4
<1>8. \A x : x # m.id => Dir(x)' = Dir(x)
  BY <1>5
<1>9. /\ CommandIInv' /\ ~m.pinned
      /\ Cardinality(Newer(m, Unpinned(ListManifests(dirs')))) >= Retention
  BY <1>1, <1>3, <1>6, <1>7, <1>8, DeletionKeeps
<1> QED BY <1>2, <1>7, <1>9 DEF DeletionIsSafe

LEMMA DeleteFailsKeeps ==
    ASSUME CommandIInv, NEW m \in cmd.doomed, DeleteFails(m)
    PROVE  DeletionIsSafe(m)
<1>1. /\ cmd.pc = "pruning" /\ cmd' = [cmd EXCEPT !.doomed = @ \ {m}]
      /\ UNCHANGED <<exec, files, next, listed>>
  BY DEF DeleteFails
<1>2. PICK left \in {Dir(m.id), [Dir(m.id) EXCEPT !.archive = {}],
                     [Dir(m.id) EXCEPT !.manifest = {}]} :
          dirs' = WithDir(m.id, left)
  BY DEF DeleteFails
<1>3. /\ DiskOK /\ next \in Nat /\ m \in ListManifests(dirs)
      /\ m.id \in Nat /\ m.id < next
      /\ \A n \in ListManifests(dirs) : n.id = m.id => n = m
  BY <1>1, DoomedIs
<1>4. /\ Dir(m.id) \in Directories
      /\ \A n1, n2 \in Dir(m.id).manifest : n1.id = m.id /\ n1 = n2
      /\ \A a1, a2 \in Dir(m.id).archive : a1 = a2
  BY <1>3, DirHolds
<1>5. /\ left \in Directories
      /\ left.manifest \subseteq Dir(m.id).manifest
      /\ left.archive \subseteq Dir(m.id).archive
  <2>1. {} \in SUBSET Files /\ {} \in SUBSET Manifests
    OBVIOUS
  <2>2. CASE left = Dir(m.id)
    BY <1>4, <2>2
  <2>3. CASE left = [Dir(m.id) EXCEPT !.archive = {}]
    BY <1>4, <2>1, <2>3, ArchiveUpdates
  <2>4. CASE left = [Dir(m.id) EXCEPT !.manifest = {}]
    BY <1>4, <2>1, <2>4, DirUpdates
  <2> QED BY <2>2, <2>3, <2>4
<1>6. /\ \A n1, n2 \in left.manifest : n1.id = m.id /\ n1 = n2
      /\ \A a1, a2 \in left.archive : a1 = a2
  BY <1>4, <1>5
<1>7. DiskOK'
  BY <1>1, <1>2, <1>3, <1>5, <1>6, WithDirKeeps
<1>8. \A n : n \in ListManifests(dirs') <=>
                 IF n.id = m.id THEN n \in left.manifest ELSE n \in ListManifests(dirs)
  BY <1>2, <1>3, <1>7, WithDirLists
<1>9. \A x : Dir(x)' = IF x = m.id THEN left ELSE Dir(x)
  BY <1>2, WithDirIs
<1>10. \A x : Dir(x)'.archive \subseteq Dir(x).archive
  BY <1>5, <1>9
<1>11. ListManifests(dirs') \subseteq ListManifests(dirs)
       /\ \A n \in ListManifests(dirs) : n.id # m.id => n \in ListManifests(dirs')
  <2>1. ASSUME NEW n \in ListManifests(dirs'), n.id = m.id
        PROVE  n \in ListManifests(dirs)
    <3>1. n \in Dir(n.id).manifest
      BY <1>5, <1>8, <2>1
    <3> QED BY <1>3, <3>1, ListedWhere
  <2> QED BY <1>8, <2>1
<1>12. \A x : x # m.id => Dir(x)' = Dir(x)
  BY <1>9
<1>13. /\ CommandIInv' /\ ~m.pinned
       /\ Cardinality(Newer(m, Unpinned(ListManifests(dirs')))) >= Retention
  BY <1>1, <1>7, <1>10, <1>11, <1>12, DeletionKeeps
<1> QED BY <1>3, <1>11, <1>13 DEF DeletionIsSafe

LEMMA EndPruneKeeps ==
    ASSUME CommandIInv, EndPrune
    PROVE  CommandIInv'
<1>1. /\ cmd.pc = "pruning" /\ cmd.pc \in Snapshotting /\ cmd.doomed = {}
      /\ UNCHANGED <<files, dirs, next, listed>>
  BY DEF EndPrune, Snapshotting
<1>2. cmd \in Commands /\ DiskOK /\ next \in Nat
      /\ (cmd.kind # "upgrade" => cmd.manifest # {})
  BY <1>1, SnapshotIs DEF CommandIInv, Protected
<1>3. DiskOK' /\ \A x : Dir(x)' = Dir(x)
  BY <1>1, <1>2, SameDiskKeeps DEF Dir
<1>4. ASSUME NEW pc \in {"run", "change"}, Goto(pc)
      PROVE  CommandTypeOK' /\ Described' /\ Newest' /\ Owned' /\ Pruning'
  <2>1. /\ cmd' \in Commands /\ SameCommand /\ cmd'.pc = pc /\ cmd'.doomed = cmd.doomed
    BY <1>2, <1>4, GotoIs DEF Phases
  <2>2. CommandTypeOK' /\ Described' /\ Newest'
    BY <1>1, <1>3, <2>1, SnapshotKnows
  <2>3. Owned' /\ Pruning'
    BY <1>1, <1>3, <2>1 DEF Owned, Pruning, ArchiveOfBefore, SameCommand, CommandIInv
  <2> QED BY <2>2, <2>3
<1>5. CASE cmd.kind \in Pipelined
  <2>1. Prepare("succeeded") /\ Goto("run") /\ "succeeded" \in Status
        /\ cmd.manifest # {}
    BY <1>2, <1>5 DEF EndPrune, Status, Pipelined
  <2>2. ExecutionOK' /\ PhaseOK' /\ Unwritten' /\ Protected' /\ RestoredAtLast'
    BY <1>1, <1>5, <2>1, ReturnsToRun
  <2> QED BY <1>3, <1>4, <2>1, <2>2 DEF CommandIInv, DiskOK
<1>6. CASE cmd.kind \notin Pipelined
  <2>1. Goto("change") /\ exec' = exec
    BY <1>6 DEF EndPrune
  <2>2. ExecutionOK' /\ PhaseOK' /\ Unwritten' /\ Protected' /\ RestoredAtLast'
    BY <1>1, <1>2, <1>6, <2>1, GoesToChange
  <2> QED BY <1>3, <1>4, <2>1, <2>2 DEF CommandIInv, DiskOK
<1> QED BY <1>5, <1>6

---------------------------------------------------------------------------
(* A command begins. *)

LEMMA RestIs ==
    ASSUME CommandIInv, cmd.pc = "idle"
    PROVE  /\ cmd = Idle /\ exec = NoExecution /\ DiskOK /\ next \in Nat /\ files \in Files
           /\ cmd.manifest = {} /\ cmd.doomed = {}
<1>1. cmd = Idle
  BY DEF CommandIInv, PhaseOK
<1>2. cmd.kind \notin Pipelined
  BY <1>1, IdleIs DEF Pipelined
<1>3. exec = NoExecution
  BY <1>2 DEF CommandIInv, ExecutionOK
<1> QED BY <1>1, <1>3, IdleIs, IInvParts DEF CommandTypeOK

(* The pipeline of a new command.                                          *)
LEMMA ExecutionBegins ==
    ASSUME NEW plan \in {InstallPlan, SyncPlan}, NEW policy \in Policies,
           exec' = Execution(plan, policy)
    PROVE  /\ PipelineInv' /\ exec'.plan = plan /\ exec'.stage = "prepare"
           /\ Len(exec'.prepared) # Len(exec'.plan.prepare)
<1>1. plan \in Plans
  BY PlanAssumption
<1>2. Init' => PipelineInv'
  BY InitInvariant, PTL
<1>3. Init'
  BY <1>1 DEF Init
<1>4. /\ exec'.plan = plan /\ exec'.stage = "prepare" /\ exec'.prepared = << >>
  BY DEF Execution
<1>5. Len(exec'.prepared) = 0
  BY <1>4
<1>6. Len(plan.prepare) \in {1, 2}
  <2>1. \/ plan.prepare = <<"dependencies", "snapshot">>
        \/ plan.prepare = <<"snapshot">>
    BY PlanAssumption
  <2>2. Len(<<"dependencies", "snapshot">>) = 2 /\ Len(<<"snapshot">>) = 1
    OBVIOUS
  <2> QED BY <2>1, <2>2
<1> QED BY <1>2, <1>3, <1>4, <1>5, <1>6

LEMMA BeginKeeps ==
    ASSUME CommandIInv, NEW kind \in Kinds, NEW targets \in TargetSets, Begin(kind, targets)
    PROVE  CommandIInv'
<1> DEFINE pc == IF kind \in Pipelined THEN "run" ELSE "archive"
<1>1. /\ cmd.pc = "idle" /\ next' = next + 1 /\ UNCHANGED <<files, dirs, listed>>
      /\ cmd' = Command(kind, pc, targets, next)
  BY DEF Begin
<1>2. /\ exec = NoExecution /\ DiskOK /\ next \in Nat /\ files \in Files
      /\ cmd.manifest = {} /\ cmd.doomed = {}
  BY <1>1, RestIs
<1>3. /\ pc \in Phases /\ targets \in SUBSET Path
  BY PathAssumption DEF Phases, Snapshotting
<1>4. /\ kind \in Pipelined => pc = "run"
      /\ kind \notin Pipelined => pc = "archive"
  OBVIOUS
<1> HIDE DEF pc
<1>5. /\ cmd' \in Commands
      /\ cmd'.kind = kind /\ cmd'.pc = pc /\ cmd'.targets = targets /\ cmd'.id = next
      /\ cmd'.manifest = {} /\ cmd'.doomed = {} /\ cmd'.touched = FALSE
      /\ cmd'.before = Managed(files, targets)
      /\ DOMAIN cmd'.before \subseteq targets
  <2> DEFINE c == Command(kind, pc, targets, next)
  <2>1. /\ c \in Commands
        /\ c.kind = kind /\ c.pc = pc /\ c.targets = targets /\ c.id = next
        /\ c.manifest = {} /\ c.doomed = {} /\ c.touched = FALSE
        /\ c.before = Managed(files, targets)
        /\ DOMAIN c.before \subseteq targets
    BY <1>2, <1>3, CommandIs
  <2> HIDE DEF c
  <2>2. cmd' = c
    BY <1>1 DEF c
  <2> QED BY <2>1, <2>2
<1>6. DiskOK' /\ \A x : Dir(x)' = Dir(x)
  <2>1. next' \in Nat /\ next <= next'
    BY <1>1, <1>2
  <2> QED BY <1>1, <1>2, <2>1, SameDiskKeeps DEF Dir
<1>7. CommandTypeOK'
  BY <1>1, <1>2, <1>5, <1>6 DEF CommandIInv, CommandTypeOK, DiskOK
<1>8. Known' = Known
  BY <1>1, <1>2, <1>5 DEF Known
<1>9. Described'
  BY <1>6, <1>8, DescribedKeeps DEF CommandIInv
<1>10. Newest'
  <2>1. \A m \in Known : m.id < next /\ m.id \in Nat
    <3>1. Known \subseteq Manifests
      <4>1. \A m \in ListManifests(dirs) : m \in Dir(m.id).manifest
        BY <1>2, ListedWhere
      <4>2. ListManifests(dirs) \subseteq Manifests
        BY <1>2, <4>1, DirHolds DEF Directories
      <4> QED BY <1>2, <4>2 DEF Known, CommandIInv, CommandTypeOK
    <3> QED BY <3>1 DEF CommandIInv, Newest, Manifests
  <2>2. \A m \in Known : m.id < next' /\ m.id < cmd'.id
    BY <1>1, <1>2, <1>5, <2>1
  <2>3. \A m \in Known : m.id # cmd'.id
    BY <1>2, <1>5, <2>1
  <2> QED BY <1>1, <1>2, <1>5, <1>8, <2>2, <2>3 DEF Newest, Known
<1>11. CASE kind \in Pipelined
  <2>1. PICK plan \in {InstallPlan, SyncPlan}, policy \in Policies :
            exec' = Execution(plan, policy)
    BY <1>11, PlanAssumption DEF Begin
  <2>2. /\ PipelineInv' /\ exec'.plan = plan /\ exec'.stage = "prepare"
        /\ Len(exec'.prepared) # Len(exec'.plan.prepare)
    BY <2>1, ExecutionBegins
  <2>3. ExecutionOK'
    BY <1>5, <1>11, <2>2 DEF ExecutionOK
  <2>4. PhaseOK'
    BY <1>1, <1>4, <1>5, <1>11 DEF PhaseOK, Snapshotting
  <2>5. Unwritten' /\ Owned' /\ Protected' /\ RestoredAtLast' /\ Pruning'
    BY <1>1, <1>4, <1>5, <1>11, <2>2 DEF Unwritten, Owned, Protected, RestoredAtLast, Pruning
  <2> QED BY <1>6, <1>7, <1>9, <1>10, <2>3, <2>4, <2>5 DEF CommandIInv, DiskOK
<1>12. CASE kind \notin Pipelined
  <2>1. ExecutionOK'
    BY <1>2, <1>5, <1>12 DEF ExecutionOK, Begin
  <2>2. PhaseOK'
    BY <1>1, <1>4, <1>5, <1>12 DEF PhaseOK
  <2>3. Unwritten' /\ Owned' /\ Protected' /\ RestoredAtLast' /\ Pruning'
    BY <1>1, <1>4, <1>5, <1>12 DEF Unwritten, Owned, Protected, RestoredAtLast, Pruning
  <2> QED BY <1>6, <1>7, <1>9, <1>10, <2>1, <2>2, <2>3 DEF CommandIInv, DiskOK
<1> QED BY <1>11, <1>12

---------------------------------------------------------------------------
(* The user's steps between two commands. *)

LEMMA ListingTyped ==
    ASSUME NEW disk, disk \in [DOMAIN disk -> Directories]
    PROVE  ListManifests(disk) \subseteq Manifests
<1>1. \A d \in DOMAIN disk : disk[d] \in Directories
  OBVIOUS
<1>2. \A d \in DOMAIN disk : disk[d].manifest \subseteq Manifests
  BY <1>1 DEF Directories
<1> QED BY <1>2 DEF ListManifests

LEMMA UserKeeps ==
    ASSUME CommandIInv, cmd.pc = "idle", UNCHANGED <<exec, cmd, next>>,
           files' \in Files, DiskOK', listed' \in SUBSET Manifests,
           \A m \in ListManifests(dirs') \union listed' :
               \E n \in ListManifests(dirs) \union listed :
                   n.id = m.id /\ n.checksum = m.checksum /\ n.existed = m.existed,
           \A x : Dir(x)'.archive \subseteq Dir(x).archive
    PROVE  CommandIInv'
<1>1. cmd = Idle /\ exec = NoExecution /\ cmd.manifest = {} /\ cmd.doomed = {}
  BY RestIs
<1>2. ConductOK'
  BY <1>1, AtRest
<1>3. CommandTypeOK'
  BY DEF CommandIInv, CommandTypeOK, DiskOK
<1>4. /\ Known = ListManifests(dirs) \union listed
      /\ Known' = ListManifests(dirs') \union listed'
  BY <1>1 DEF Known
<1>5. \A m \in Known' : \E n \in Known :
          n.id = m.id /\ n.checksum = m.checksum /\ n.existed = m.existed
  BY <1>4
<1>6. Described'
  BY <1>5, DescribedKeeps DEF CommandIInv
<1>7. Newest'
  BY <1>5 DEF Newest, CommandIInv
<1> QED BY <1>2, <1>3, <1>6, <1>7 DEF ConductOK, CommandIInv, DiskOK

(* Files change, and the list is read again or not.                        *)
LEMMA FilesOnlyKeeps ==
    ASSUME CommandIInv, cmd.pc = "idle", UNCHANGED <<exec, dirs, cmd, next>>,
           files' \in Files, listed' \in {listed, ListManifests(dirs)}
    PROVE  CommandIInv'
<1>1. DiskOK /\ next \in Nat
  BY RestIs
<1>2. DiskOK' /\ \A x : Dir(x)' = Dir(x)
  BY <1>1, SameDiskKeeps DEF Dir
<1>3. ListManifests(dirs) \subseteq Manifests /\ listed \subseteq Manifests
  BY ListingTyped DEF CommandIInv, CommandTypeOK
<1> QED BY <1>2, <1>3, UserKeeps

LEMMA EditKeeps ==
    ASSUME CommandIInv, NEW p, Edit(p)
    PROVE  CommandIInv'
  BY WritesAre, FilesOnlyKeeps DEF Edit, UserMayAct

LEMMA RestoreByIdKeeps ==
    ASSUME CommandIInv, NEW m, NEW status, RestoreById(m, status)
    PROVE  CommandIInv'
<1>1. /\ cmd.pc = "idle" /\ m \in ListManifests(dirs) /\ Restore(m, status)
      /\ UNCHANGED <<exec, dirs, cmd, next, listed>>
  BY DEF RestoreById
<1>2. m \in Manifests /\ DiskOK /\ files \in Files
  BY <1>1, ListingTyped, RestIs DEF DiskOK
<1>3. files' \in Files
  BY <1>1, <1>2, RestoreTyped
<1> QED BY <1>1, <1>3, FilesOnlyKeeps

LEMMA RestoreListedKeeps ==
    ASSUME CommandIInv, NEW m, NEW status, RestoreListed(m, status)
    PROVE  CommandIInv'
<1>1. /\ cmd.pc = "idle" /\ m \in listed /\ Restore(m, status)
      /\ UNCHANGED <<exec, dirs, cmd, next>> /\ listed' = ListManifests(dirs)
  BY DEF RestoreListed, Relisted
<1>2. m \in Manifests /\ DiskOK /\ files \in Files
  BY <1>1, RestIs DEF CommandIInv, CommandTypeOK
<1>3. files' \in Files
  BY <1>1, <1>2, RestoreTyped
<1> QED BY <1>1, <1>3, FilesOnlyKeeps

LEMMA OpenTuiKeeps ==
    ASSUME CommandIInv, OpenTui
    PROVE  CommandIInv'
  BY FilesOnlyKeeps DEF OpenTui, UserMayAct, CommandIInv, CommandTypeOK

(* A manifest from the list is written, with its pin or without a change.  *)
LEMMA RewriteKeeps ==
    ASSUME CommandIInv, cmd.pc = "idle", UNCHANGED <<exec, files, cmd, next>>,
           NEW m \in listed, NEW n \in Manifests,
           n.id = m.id /\ n.checksum = m.checksum /\ n.existed = m.existed,
           dirs' = ManifestWritten(n), Relisted
    PROVE  CommandIInv'
<1>1. DiskOK /\ next \in Nat /\ files \in Files
  BY RestIs
<1>2. n.id < next
  BY DEF CommandIInv, Newest, Known
<1>3. /\ DiskOK'
      /\ \A k : k \in ListManifests(dirs') => k = n \/ k \in ListManifests(dirs)
      /\ \A x : Dir(x)'.archive = Dir(x).archive
  BY <1>1, <1>2, WrittenKeeps
<1>4. listed' = ListManifests(dirs') /\ listed' \in SUBSET Manifests
  BY <1>3, ListingTyped DEF Relisted, DiskOK
<1>5. ASSUME NEW k \in ListManifests(dirs')
      PROVE  \E o \in ListManifests(dirs) \union listed :
                 o.id = k.id /\ o.checksum = k.checksum /\ o.existed = k.existed
  BY <1>3
<1> QED BY <1>1, <1>3, <1>4, <1>5, UserKeeps

LEMMA TogglePinKeeps ==
    ASSUME CommandIInv, NEW m \in listed, TogglePin(m)
    PROVE  CommandIInv'
<1> DEFINE n == [m EXCEPT !.pinned = ~@]
<1>1. m \in Manifests
  BY DEF CommandIInv, CommandTypeOK
<1>2. n \in Manifests /\ n.id = m.id /\ n.checksum = m.checksum /\ n.existed = m.existed
  <2>1. ASSUME NEW b \in BOOLEAN
        PROVE  LET k == [m EXCEPT !.pinned = b] IN
               k \in Manifests /\ k.id = m.id /\ k.checksum = m.checksum /\ k.existed = m.existed
    BY <1>1 DEF Manifests
  <2>2. (~m.pinned) \in BOOLEAN
    BY Zenon
  <2>3. n = [m EXCEPT !.pinned = (~m.pinned)]
    OBVIOUS
  <2> QED BY <2>1, <2>2, <2>3
<1> HIDE DEF n
<1>3. /\ cmd.pc = "idle" /\ UNCHANGED <<exec, files, cmd, next>>
      /\ dirs' = ManifestWritten(n) /\ Relisted
  BY DEF TogglePin, ScreenAllows, UserMayAct, n
<1> QED BY <1>2, <1>3, RewriteKeeps

LEMMA RenameBackupKeeps ==
    ASSUME CommandIInv, NEW m \in listed, RenameBackup(m)
    PROVE  CommandIInv'
<1>1. m \in Manifests
  BY DEF CommandIInv, CommandTypeOK
<1> QED BY <1>1, RewriteKeeps DEF RenameBackup, ScreenAllows, UserMayAct

LEMMA RemoveBackupKeeps ==
    ASSUME CommandIInv, NEW m \in listed, RemoveBackup(m)
    PROVE  CommandIInv'
<1>1. /\ cmd.pc = "idle" /\ UNCHANGED <<exec, files, cmd, next>>
      /\ dirs' = WithoutDir(m.id) /\ Relisted
  BY DEF RemoveBackup, ScreenAllows, UserMayAct
<1>2. DiskOK /\ next \in Nat /\ files \in Files
  BY <1>1, RestIs
<1>3. DiskOK'
  BY <1>1, <1>2, WithoutDirKeeps
<1>4. \A n : n \in ListManifests(dirs') => n \in ListManifests(dirs)
  BY <1>1, <1>2, <1>3, WithoutDirLists
<1>5. \A x : Dir(x)'.archive \subseteq Dir(x).archive
  BY <1>1, WithoutDirIs, NoDirTyped
<1>6. listed' = ListManifests(dirs') /\ listed' \in SUBSET Manifests
  BY <1>1, <1>3, ListingTyped DEF Relisted, DiskOK
<1> QED BY <1>1, <1>2, <1>3, <1>4, <1>5, <1>6, UserKeeps

---------------------------------------------------------------------------
(* The invariant. *)

LEMMA InitIInv == CommandInit => CommandIInv
<1> SUFFICES ASSUME CommandInit
             PROVE  CommandIInv
  OBVIOUS
<1>1. /\ cmd = Idle /\ exec = NoExecution /\ files \in Files /\ next = 1 /\ listed = {}
      /\ DOMAIN dirs = {} /\ dirs = [d \in {} |-> NoDir]
  BY DEF CommandInit
<1>2. /\ cmd \in Commands /\ cmd.pc = "idle" /\ cmd.kind = "none"
      /\ cmd.manifest = {} /\ cmd.doomed = {} /\ cmd.touched = FALSE
      /\ DOMAIN cmd.before \subseteq cmd.targets
  BY <1>1, IdleIs DEF Idle, NoFiles
<1>3. dirs \in [DOMAIN dirs -> Directories]
  BY <1>1
<1>4. CommandTypeOK /\ DirectoriesOK
  BY <1>1, <1>2, <1>3 DEF CommandTypeOK, DirectoriesOK
<1>5. Known = {}
  BY <1>1, <1>2 DEF Known, ListManifests
<1>6. Described /\ Newest
  BY <1>2, <1>5 DEF Described, Newest
<1>7. cmd.pc \notin Snapshotting /\ cmd.kind \notin Pipelined
  BY <1>2 DEF Snapshotting, Pipelined
<1>8. ExecutionOK /\ PhaseOK /\ Unwritten /\ Owned
  BY <1>1, <1>2, <1>7 DEF ExecutionOK, PhaseOK, Unwritten, Preparing, Owned
<1>9. Protected /\ RestoredAtLast /\ Pruning
  BY <1>2 DEF Protected, RestoredAtLast, Pruning
<1> QED BY <1>4, <1>6, <1>8, <1>9 DEF CommandIInv

LEMMA StutterKeeps ==
    ASSUME CommandIInv, UNCHANGED vars
    PROVE  CommandIInv'
<1>1. UNCHANGED <<exec, files, dirs, cmd, next, listed>>
  BY DEF vars
<1>2. DiskOK' /\ \A x : Dir(x)' = Dir(x)
  BY <1>1, IInvParts DEF DiskOK, DirectoriesOK, Dir
<1>3. Known' = Known /\ CommandTypeOK'
  BY <1>1 DEF Known, CommandIInv, CommandTypeOK
<1>4. Described' /\ Newest'
  BY <1>1, <1>2, <1>3 DEF Described, Newest, CommandIInv
<1>5. ExecutionOK' /\ PhaseOK'
  BY <1>1, StutterStep DEF ExecutionOK, PhaseOK, CommandIInv
<1>6. Unwritten' /\ Owned' /\ RestoredAtLast' /\ Pruning'
  BY <1>1, <1>2
     DEF Unwritten, Preparing, Owned, ArchiveOfBefore, RestoredAtLast, Pruning, Kept, CommandIInv
<1>7. Protected'
  BY <1>1 DEF Protected, SnapshotTaken, Skipped, Failed, CommandIInv
<1> QED BY <1>2, <1>3, <1>4, <1>5, <1>6, <1>7 DEF CommandIInv, DiskOK

(* No step of a command or of the user breaks it.                          *)
LEMMA CommandStep ==
    ASSUME CommandIInv, [CommandNext]_vars
    PROVE  CommandIInv'
<1>1. CASE Snapshot
  BY <1>1, DeduplicateKeeps, CreateArchiveKeeps, WriteManifestKeeps, SnapshotFailsKeeps,
     AnnotateKeeps, AnnotateFailsKeeps, PruneKeeps, EndPruneKeeps,
     DeleteBackupKeeps, DeleteFailsKeeps
     DEF Snapshot, DeletionIsSafe
<1>2. CASE Run
  BY <1>2, CheckDependenciesKeeps, ApplyComponentKeeps, ApplyGuidanceKeeps,
     ApplyRestoreKeeps, UndoGuidanceKeeps, UndoRestoreKeeps, AdvanceKeeps,
     ChangeKeeps, FinishKeeps
     DEF Run
<1>3. CASE User
  BY <1>3, BeginKeeps, EditKeeps, RestoreByIdKeeps, OpenTuiKeeps, TogglePinKeeps,
     RenameBackupKeeps, RemoveBackupKeeps, RestoreListedKeeps
     DEF User
<1>4. CASE Crash
  BY <1>4, CrashKeeps
<1>5. CASE UNCHANGED vars
  BY <1>5, StutterKeeps
<1> QED BY <1>1, <1>2, <1>3, <1>4, <1>5 DEF CommandNext

(* The commands keep the invariant.                                        *)
THEOREM CommandInvariance == CommandSpec => []CommandIInv
<1>1. CommandInit => CommandIInv
  BY InitIInv
<1>2. CommandIInv /\ [CommandNext]_vars => CommandIInv'
  BY CommandStep
<1> QED BY <1>1, <1>2, PTL DEF CommandSpec

---------------------------------------------------------------------------
(* What the backups are for. *)

(* A backup with an archive that is what the command found is a way back.  *)
LEMMA WayBack ==
    ASSUME CommandIInv, NEW m \in ListManifests(dirs) \union cmd.manifest,
           m.existed = DOMAIN cmd.before, Restorable(m),
           \A archive \in Dir(m.id).archive : archive = cmd.before
    PROVE  RecoveryPath
<1>1. cmd.before \in Files
  BY DEF CommandIInv, CommandTypeOK, Commands
<1>2. Managed(cmd.before, DOMAIN cmd.before) = cmd.before
  BY <1>1, ManagedWhole
<1> QED BY <1>2 DEF RecoveryPath

LEMMA PathIsGuarded ==
    ASSUME CommandIInv
    PROVE  RollbackPathGuarded
<1> SUFFICES ASSUME cmd.touched, cmd.kind # "upgrade", ~RecoveryPath
             PROVE  \E latest \in ListManifests(dirs) :
                        /\ \A m \in ListManifests(dirs) : m.id <= latest.id
                        /\ cmd.manifest = {} /\ ~Restorable(latest)
  BY DEF RollbackPathGuarded, RollbackPathKept
<1>1. SnapshotTaken
  BY DEF CommandIInv, Protected
<1>2. cmd.manifest = {}
  <2> SUFFICES ASSUME NEW m \in cmd.manifest
               PROVE  FALSE
    OBVIOUS
  <2>1. cmd.pc # "idle"
    BY IdleIs DEF CommandIInv, PhaseOK
  <2>2. /\ m.id = cmd.id /\ m.existed = DOMAIN cmd.before
        /\ Dir(m.id).archive = ArchiveOfBefore
    BY <2>1 DEF CommandIInv, Newest, Owned
  <2>3. Restorable(m) /\ \A archive \in Dir(m.id).archive : archive = cmd.before
    BY <2>2 DEF ArchiveOfBefore, Restorable, Compressed
  <2> QED BY <2>2, <2>3, WayBack
<1>3. PICK latest \in ListManifests(dirs) :
          /\ \A m \in ListManifests(dirs) : m.id <= latest.id
          /\ latest.checksum = {cmd.before}
  BY <1>1, <1>2 DEF SnapshotTaken, Skipped
<1>4. /\ \E fs \in latest.checksum : latest.checksum = {fs} /\ DOMAIN fs = latest.existed
      /\ \A archive \in Dir(latest.id).archive : latest.checksum = {archive}
  BY DEF CommandIInv, Described, Known
<1>5. latest.existed = DOMAIN cmd.before
  BY <1>3, <1>4
<1>6. \A archive \in Dir(latest.id).archive : archive = cmd.before
  BY <1>3, <1>4
<1>7. ~Restorable(latest)
  BY <1>5, <1>6, WayBack
<1> QED BY <1>2, <1>3, <1>7

(* Backups before mutation, for any number of commands and backups: once a *)
(* command has written, a backup holds what it found, unless it skipped    *)
(* its snapshot for a newest backup that has lost its archive.             *)
THEOREM RollbackPathSafety == CommandSpec => []RollbackPathGuarded
<1>1. CommandIInv => RollbackPathGuarded
  BY PathIsGuarded
<1> QED BY <1>1, CommandInvariance, PTL

(* A rollback that restored the command's own backup leaves the targets as *)
(* the command found them, whatever was rolled back besides.               *)
THEOREM RestoreSafety == CommandSpec => []RollbackRestoresTargets
<1>1. CommandIInv => RollbackRestoresTargets
  BY DEF CommandIInv, RestoredAtLast, RollbackRestoresTargets
<1> QED BY <1>1, CommandInvariance, PTL

(* The pipeline of every command rolls back all that it must.              *)
THEOREM CommandRollbackComplete == CommandSpec => []RollbackComplete
<1>1. CommandIInv => RollbackComplete
  <2>1. PipelineInv => RollbackComplete
    BY DEF PipelineInv
  <2>2. exec = NoExecution => RollbackComplete
    <3> SUFFICES ASSUME exec = NoExecution
                 PROVE  RollbackComplete
      OBVIOUS
    <3>1. exec.applied = << >> /\ exec.undone = << >>
      BY DEF NoExecution, Execution
    <3>2. DOMAIN exec.applied = {} /\ DOMAIN exec.undone = {}
      BY <3>1
    <3>3. Undone = {} /\ ~RolledBack
      BY <3>2 DEF Undone, RolledBack, Failed
    <3> QED BY <3>3 DEF RollbackComplete
  <2> QED BY <2>1, <2>2 DEF CommandIInv, ExecutionOK
<1> QED BY <1>1, CommandInvariance, PTL

(* Pruning, which works on a list it read before, deletes backup after     *)
(* backup and may leave some half deleted, removes no pinned backup and    *)
(* none without enough newer ones left.                                    *)
THEOREM PruneSafety == CommandSpec => PruneIsSafe
<1> DEFINE Safe ==
        cmd.pc = "pruning" =>
            \A m \in ListManifests(dirs) \ ListManifests(dirs') :
                /\ ~m.pinned
                /\ Cardinality(Newer(m, Unpinned(ListManifests(dirs')))) >= Retention
<1>1. ASSUME CommandIInv, [CommandNext]_vars
      PROVE  [Safe]_vars
  <2> SUFFICES ASSUME cmd.pc = "pruning", dirs' # dirs
               PROVE  Safe
    OBVIOUS
  <2>1. \E n \in cmd.doomed : DeleteBackup(n) \/ DeleteFails(n)
    BY <1>1 DEF vars, CommandNext, Snapshot, Run, User, Crash,
       Deduplicate, AtPrepare, CreateArchive, WriteManifest, SnapshotFails, Annotate,
       AnnotateFails, Prune, EndPrune, CheckDependencies, ApplyRestore, ApplyComponent,
       ApplyGuidance, AtApply, UndoGuidance, UndoRestore, Advance, Change, Finish,
       Begin, Edit, RestoreById, OpenTui, TogglePin, RenameBackup, RemoveBackup,
       RestoreListed, ScreenAllows, UserMayAct
  <2>2. PICK n \in cmd.doomed : DeletionIsSafe(n)
    BY <1>1, <2>1, DeleteBackupKeeps, DeleteFailsKeeps
  <2> QED BY <2>2 DEF DeletionIsSafe
<1>2. PruneIsSafe <=> [][Safe]_vars
  BY DEF PruneIsSafe
<1> QED BY <1>1, <1>2, CommandInvariance, PTL DEF CommandSpec
=============================================================================
