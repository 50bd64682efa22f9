------------------------------- MODULE Pipeline -------------------------------
(***************************************************************************)
(* internal/pipeline: Orchestrator.Execute runs the prepare steps of a     *)
(* plan, then its apply steps, and when an apply step fails rolls back the *)
(* apply steps that had succeeded, last one first.                         *)
(*                                                                         *)
(* What a step does is not modelled here: ConfigCommands conjoins the      *)
(* effects of the steps of install and sync with these actions.  Steps of  *)
(* one plan have different identifiers, so that the index stepByID is the  *)
(* identity on them; progress events and times are left out.               *)
(***************************************************************************)
EXTENDS Naturals, Sequences

CONSTANTS
    Step,            \* identifiers of steps
    Reversible,      \* the steps that implement RollbackStep
    Plans,           \* the plans that may be executed
    Policies,        \* the failure policies in use
    OnApplyFailure   \* RollbackPolicy.OnApplyFailure

ASSUME PlansAssumption ==
    Plans \subseteq [prepare : Seq(Step), apply : Seq(Step)]

ASSUME PoliciesAssumption ==
    Policies \subseteq {"StopOnError", "ContinueOnError"}

ASSUME RollbackPolicyAssumption == OnApplyFailure \in BOOLEAN

VARIABLE exec        \* the execution in progress

Status == {"succeeded", "failed"}

Stages == {"prepare", "apply", "rollback", "done"}

(* ExecutionResult with the loop variables of Run and ExecuteRollback:     *)
(* undo is the index i of the rollback loop before its next decrement.     *)
Execution(plan, policy) ==
    [plan |-> plan, policy |-> policy, stage |-> "prepare",
     prepared |-> << >>, applied |-> << >>, undo |-> 0, undone |-> << >>]

Failed(results) == \E i \in DOMAIN results : results[i] = "failed"

(* The loop of Runner.Run ends behind the last step, or at once behind a   *)
(* failed one unless errors are collected.                                 *)
RunIsOver(steps, results) ==
    \/ Len(results) = Len(steps)
    \/ exec.policy = "StopOnError" /\ Failed(results)

(* The apply steps ExecuteRollback acts on.                                *)
MustUndo(i) ==
    /\ i \in DOMAIN exec.applied
    /\ exec.applied[i] = "succeeded"
    /\ exec.plan.apply[i] \in Reversible

---------------------------------------------------------------------------
Prepare(status) ==
    /\ exec.stage = "prepare"
    /\ ~RunIsOver(exec.plan.prepare, exec.prepared)
    /\ exec' = [exec EXCEPT !.prepared = Append(@, status)]

EndPrepare ==
    /\ exec.stage = "prepare"
    /\ RunIsOver(exec.plan.prepare, exec.prepared)
    /\ exec' = [exec EXCEPT !.stage =
                    IF Failed(exec.prepared) THEN "done" ELSE "apply"]

Apply(status) ==
    /\ exec.stage = "apply"
    /\ ~RunIsOver(exec.plan.apply, exec.applied)
    /\ exec' = [exec EXCEPT !.applied = Append(@, status)]

EndApply ==
    /\ exec.stage = "apply"
    /\ RunIsOver(exec.plan.apply, exec.applied)
    /\ exec' = [exec EXCEPT
                  !.stage = IF Failed(exec.applied) /\ OnApplyFailure
                            THEN "rollback" ELSE "done",
                  !.undo  = Len(exec.applied)]

Undone == {exec.undone[k].at : k \in DOMAIN exec.undone}

(* Faulty: the first failure ends the rollback.                            *)
UndoUntilFailure(i, status) ==
    /\ exec.stage = "rollback"
    /\ i \in 1 .. exec.undo
    /\ MustUndo(i)
    /\ \A j \in i + 1 .. exec.undo : ~MustUndo(j)
    /\ exec' = [exec EXCEPT
                  !.undo = IF status = "failed" THEN 0 ELSE i - 1,
                  !.undone = Append(@, [at |-> i, status |-> status])]

(* Faulty: first step first.                                               *)
UndoForward(i, status) ==
    /\ exec.stage = "rollback"
    /\ MustUndo(i) /\ i \notin Undone
    /\ \A j \in 1 .. i - 1 : MustUndo(j) => j \in Undone
    /\ exec' = [exec EXCEPT
                  !.undo = IF \E j \in i + 1 .. @ : MustUndo(j) THEN @ ELSE 0,
                  !.undone = Append(@, [at |-> i, status |-> status])]

(* One iteration of the rollback loop that calls Rollback, with those that *)
(* were skipped before it.  A failure is recorded and the loop goes on.    *)
Undo(i, status) ==
    /\ exec.stage = "rollback"
    /\ i \in 1 .. exec.undo
    /\ MustUndo(i)
    /\ \A j \in i + 1 .. exec.undo : ~MustUndo(j)
    /\ exec' = [exec EXCEPT !.undo = i - 1,
                            !.undone = Append(@, [at |-> i, status |-> status])]

EndRollback ==
    /\ exec.stage = "rollback"
    /\ \A i \in 1 .. exec.undo : ~MustUndo(i)
    /\ exec' = [exec EXCEPT !.stage = "done"]

(* Execute returned no error.                                              *)
Succeeded == ~Failed(exec.prepared) /\ ~Failed(exec.applied)

---------------------------------------------------------------------------
Init == \E plan \in Plans, policy \in Policies : exec = Execution(plan, policy)

Next ==
    \/ \E status \in Status : Prepare(status)
    \/ EndPrepare
    \/ \E status \in Status : Apply(status)
    \/ EndApply
    \/ \E i \in 1 .. exec.undo, status \in Status : Undo(i, status)
    \/ EndRollback

Spec == Init /\ [][Next]_exec

---------------------------------------------------------------------------
PipelineTypeOK ==
    /\ exec \in [plan : Plans, policy : Policies, stage : Stages,
                 prepared : Seq(Status), applied : Seq(Status),
                 undo : Nat, undone : Seq([at : Nat, status : Status])]
    /\ Len(exec.prepared) <= Len(exec.plan.prepare)
    /\ Len(exec.applied) <= Len(exec.plan.apply)

RolledBack == Failed(exec.applied) /\ OnApplyFailure

(* At the end of an execution whose apply stage failed, every step that    *)
(* had succeeded and can be rolled back was asked to, whether or not other *)
(* rollbacks failed, and no other step was; in any other execution none    *)
(* was (pipeline/rollback.go:24-62, orchestrator.go:50-61).                *)
RollbackComplete ==
    exec.stage = "done" =>
        Undone = IF RolledBack THEN {i \in DOMAIN exec.applied : MustUndo(i)}
                 ELSE {}

(* Steps are rolled back once each and last one first: an earlier step's   *)
(* rollback never runs before that of a step that was applied on top of    *)
(* it.                                                                     *)
RollbackOrdered ==
    \A j, k \in DOMAIN exec.undone :
        j < k => exec.undone[j].at > exec.undone[k].at

(* Nothing is applied unless the whole prepare stage succeeded, under      *)
(* either policy, and under StopOnError nothing follows a failed step.     *)
ApplyGuarded ==
    /\ exec.applied # << >> =>
          /\ Len(exec.prepared) = Len(exec.plan.prepare)
          /\ ~Failed(exec.prepared)
    /\ exec.policy = "StopOnError" =>
          \A i \in DOMAIN exec.applied :
              exec.applied[i] = "failed" => i = Len(exec.applied)
=============================================================================
