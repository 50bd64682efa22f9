------------------------------ MODULE SddStatus ------------------------------
(***************************************************************************)
(* What `sdd-status` decides from what it has read (internal/sddstatus:    *)
(* status.go, verification.go, review_gate.go): which phases of a change   *)
(* are ready and which one comes next.  No state: SddReview reads the      *)
(* change, the authorities and the binding step by step and hands them in. *)
(*                                                                         *)
(* A change is a record of                                                 *)
(*   planning     the planning artifacts that are complete                 *)
(*   tasks        the checkboxes of tasks.md: [total, pending]             *)
(*   specs        [requirements, scenarios] counted in the specs           *)
(*   report       {} or the leading envelope of verify-report.md           *)
(*   progress     {} or the remediation result in apply-progress.md        *)
(*   transaction  {} or the v1 transaction mirrored beside the change      *)
(***************************************************************************)
EXTENDS Naturals, FiniteSets

Planning == {"proposal", "specs", "design", "tasks"}

NoEvidence == "none"    \* an empty evidence revision

---------------------------------------------------------------------------
(* The verification report. *)

(* parseVerifyResult: an envelope with an unknown, missing or malformed    *)
(* field, so also the longer one of an authority-only failure, is no       *)
(* verify result at all.                                                   *)
Passing(report, specs) ==
    /\ report.form = "verify-result"
    /\ report.testExit = 0 /\ report.buildExit = 0
    /\ report.requirements.total = specs.requirements
    /\ report.scenarios.total = specs.scenarios
    /\ report.blockers = 0 /\ report.critical = 0
    /\ report.requirements.completed = report.requirements.total
    /\ report.scenarios.completed = report.scenarios.total
    /\ report.verdict # "fail"

EvidenceRevision(report) ==
    IF report.form = "verify-result" THEN report.evidence ELSE NoEvidence

(* authorityOnlyFailedReport: verification was denied before any command   *)
(* ran, and for no other reason than the missing review.                   *)
AuthorityOnly(report) ==
    /\ report.form = "authority-failure"
    /\ report.verdict = "fail"
    /\ report.blockers > 0 /\ report.critical > 0
    /\ report.testExit = 125 /\ report.buildExit = 125
    /\ ~ report.substantive

---------------------------------------------------------------------------
(* Planning, apply and remediation. *)

AllComplete(c) == c.tasks.total > 0 /\ c.tasks.pending = 0

CoreReady(c) == c.planning = Planning /\ c.tasks.total > 0

ApplyState(c) ==
    IF ~ CoreReady(c) THEN "blocked"
    ELSE IF AllComplete(c) THEN "all_done" ELSE "ready"

Verified(c) == \E report \in c.report : Passing(report, c.specs)

(* parseRemediationResult with the transaction's lineage, generation and   *)
(* fix batch; "complete" stands for the commands, runtime harness and      *)
(* rollback evidence it asks to be concrete and successful.                *)
Remediates(progress, revision, t, batch) ==
    /\ progress.complete
    /\ progress.revision = revision
    /\ progress.lineage = t.lineage /\ progress.generation = t.generation
    /\ progress.batch = batch

(* The fix batch within the budget of the mode, as a set of at most one.   *)
FixBatch(t) ==
    CASE t.mode = "ordinary-4r"   -> {t.fixBatches} \cap {1}
      [] t.mode = "judgment-day"  -> {t.fixRounds} \cap {1, 2}
      [] t.mode \notin {"ordinary-4r", "judgment-day"} -> {}

(* Faulty: any failure is the one the transaction fixed.                   *)
MatchesAny(t, report) == EvidenceRevision(report) # NoEvidence

(* The transaction names the failure that is reported.                     *)
Matches(t, report) ==
    /\ EvidenceRevision(report) # NoEvidence
    /\ t.failed = EvidenceRevision(report)

(* resolveBoundedRemediation once a report has failed and all is applied.  *)
Remediation(c) ==
    LET failed == ApplyState(c) = "all_done" /\ c.report # {} /\ ~ Verified(c)
        matching == {t \in c.transaction : \E report \in c.report : Matches(t, report)}
        complete == \E t \in matching, progress \in c.progress :
                        /\ t.state = "ready_final_verification"
                        /\ \E batch \in FixBatch(t) :
                              Remediates(progress, t.failed, t, batch)
    IN [complete |-> failed /\ complete,
        required |-> failed /\ ~ complete /\
            \E t \in matching : FixBatch(t) # {}
                /\ t.state \in {"fixing", "ready_final_verification"}]

---------------------------------------------------------------------------
(* Dependencies and the next step, in the order Resolve computes them. *)

(* resolveDependencies *)
Dependencies(c) ==
    LET verify == IF CoreReady(c) /\ AllComplete(c) /\ Verified(c) THEN "all_done"
                  ELSE IF ApplyState(c) = "all_done"
                          /\ (c.report = {} \/ Remediation(c).complete)
                       THEN "ready" ELSE "blocked"
    IN [apply   |-> ApplyState(c),
        verify  |-> verify,
        archive |-> IF verify = "all_done" /\ AllComplete(c) THEN "ready" ELSE "blocked"]

(* The first planning artifact that is missing, in the order of the phases. *)
NextPlanning(c) ==
    CASE "proposal" \notin c.planning -> "propose"
      [] "proposal" \in c.planning /\ "specs" \notin c.planning -> "spec"
      [] {"proposal", "specs"} \subseteq c.planning /\ "design" \notin c.planning -> "design"
      [] Planning \ {"tasks"} = c.planning -> "tasks"
      [] Planning = c.planning -> "resolve-blockers"

(* resolveNextRecommended *)
NextRecommended(c, d) ==
    IF d.apply = "ready" THEN "apply"
    ELSE IF d.verify = "ready" THEN "verify"
    ELSE IF d.apply = "all_done" /\ c.report # {} /\ d.verify # "all_done"
         THEN IF Remediation(c).required THEN "remediate" ELSE "resolve-review"
    ELSE IF d.verify = "all_done" /\ d.apply = "all_done" THEN "archive"
    ELSE NextPlanning(c)

Initial(c) ==
    LET d == Dependencies(c) IN
    [apply |-> d.apply, verify |-> d.verify, archive |-> d.archive,
     next |-> NextRecommended(c, d)]

Blocked(s) ==
    [s EXCEPT !.verify = "blocked", !.archive = "blocked", !.next = "resolve-review"]

ReadyToVerify(s) ==
    [s EXCEPT !.verify = "ready", !.archive = "blocked", !.next = "verify"]

(* What an explicit binding makes of it.                                   *)
Bound(c, valid, s) ==
    IF ~ valid THEN Blocked(s)
    ELSE IF ApplyState(c) = "all_done" /\ c.report = {} THEN ReadyToVerify(s) ELSE s

(* When the compact authorities have to be looked through.                 *)
NeedsBridge(c) ==
    /\ ApplyState(c) = "all_done"
    /\ c.transaction = {}
    /\ \A report \in c.report : AuthorityOnly(report)

(* Faulty: the authority may be the one the report was denied on.          *)
RetriedUnchanged(c, bridge, s) ==
    IF bridge.eligible /\ \E report \in c.report : AuthorityOnly(report)
    THEN ReadyToVerify(s) ELSE s

(* Faulty: a report that failed is never looked at again.                  *)
NeverRetried(c, bridge, s) == s

(* A failure for want of a review is retried once another authority is     *)
(* there than the one the report was denied on (authorityChangedSinceReport). *)
Retried(c, bridge, s) ==
    IF /\ bridge.eligible
       /\ \E report \in c.report :
             AuthorityOnly(report) /\ report.observed # bridge.revision
    THEN ReadyToVerify(s) ELSE s

(* applyPreVerifyCompactBridgeRouting *)
Bridged(c, bridge, s) ==
    IF ApplyState(c) # "all_done" \/ c.report # {} \/ c.transaction # {} THEN s
    ELSE IF bridge.eligible THEN ReadyToVerify(s)
    ELSE IF bridge.relevant THEN Blocked(s) ELSE s

(* applyPreVerifyReviewRouting *)
Routed(c, s) ==
    IF ApplyState(c) # "all_done" \/ c.report # {} THEN s
    ELSE IF \E t \in c.transaction :
               t.state \in {"ready_final_verification", "final_verifying"}
         THEN [s EXCEPT !.verify = "ready", !.next = "verify"]
    ELSE IF \E t \in c.transaction : t.state \in {"escalated", "approved"}
         THEN [s EXCEPT !.verify = "blocked", !.next = "resolve-review"]
    ELSE [s EXCEPT !.verify = "blocked", !.next = "review"]

NoBridge == [eligible |-> FALSE, relevant |-> FALSE, revision |-> NoEvidence]

(* Without a binding.                                                      *)
Unbound(c, bridge, s) ==
    LET bridged == Bridged(c, bridge, Retried(c, bridge, s)) IN
    IF bridge.eligible \/ bridge.relevant THEN bridged ELSE Routed(c, bridged)

(* blockReviewGate *)
GateBlocked(s) == [s EXCEPT !.archive = "blocked", !.next = "resolve-review"]
=============================================================================
