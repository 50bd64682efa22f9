------------------------------ MODULE SddReview ------------------------------
(***************************************************************************)
(* One OpenSpec change on its way to the archive: an agent that asks       *)
(* `sdd-status` what comes next and does it, the reviews it needs, and the *)
(* maintainers who bind an approved review to the change with              *)
(* `review bind-sdd` (internal/sddstatus).                                 *)
(*                                                                         *)
(* Neither the status nor the binding holds the authority lock: they read  *)
(* the change, the binding, the records and the working tree one after the *)
(* other while reviews conclude, successors supersede, files are edited    *)
(* and other binders publish.  One post-apply gate is one step, which is   *)
(* what CompactGate shows of an allow; a gate that finds the lock taken    *)
(* denies like one that finds something changed.  Records with a verdict   *)
(* and receipts never change (CompactAuthority), so that loading both is   *)
(* one step.  The ledger mirror and v1 receipts are left out.              *)
(***************************************************************************)
EXTENDS SddStatus

CONSTANTS
    Lineages, Roots,  \* lineages; those an operator names at `review start`
    Trees, Base,      \* contents of the working tree; what it starts with
    Binders,          \* concurrent `review bind-sdd` processes
    Verdicts,         \* how a review may end
    Settings,         \* where a change is kept, what was left beside it, and how
                      \* the paths of each root review relate to it
    MaxDisturbances   \* bound of the model: edits, crashes, failed verifications

ASSUME LineagesAssumption == Roots \subseteq Lineages /\ Base \in Trees
ASSUME VerdictsAssumption == Verdicts \subseteq {"approved", "escalated", "invalidated"}
ASSUME SettingsAssumption ==
    \A x \in Settings :
        /\ x.home \in {"openspec", "engram"} /\ x.mirror \subseteq Lineages
        /\ x.disturbances \in 0 .. MaxDisturbances
        /\ x.scopes \in [Lineages -> {"change", "mixed", "elsewhere"}]

VARIABLES
    home,       \* where this change is kept
    scopes,     \* lineage -> how the paths of its review relate to the change
    change,     \* its artifacts, as SddStatus reads them
    worktree,   \* the working tree
    authority,  \* lineage -> {} or its compact record
    receipts,   \* lineages whose receipt is written
    binding,    \* {} or the published binding: [lineage, record]
    lock,       \* {} or the binder that holds the binding LOCK
    binder,     \* the local state of each binder
    call,       \* the local state of the agent's `sdd-status`
    held,       \* ghost: 3 once the authority of the call has been good during it
    disturbances, archived

vars == <<home, scopes, change, worktree, authority, receipts, binding, lock, binder,
          call, held, disturbances, archived>>

---------------------------------------------------------------------------
(* The compact authorities. *)

Records == [state : {"open"} \cup Verdicts, tree : Trees,
            scope : {"change", "mixed", "elsewhere"}, recovers : SUBSET Lineages]

Superseded(l) == \E m \in Lineages : \E r \in authority[m] : l \in r.recovers
Leaves == {l \in Lineages : authority[l] # {} /\ ~ Superseded(l)}

(* EvaluateCompactGate for post-apply on the receipt of record r.          *)
Gate(l, r) ==
    IF authority[l] # {r} \/ Superseded(l) THEN "invalidated"
    ELSE IF r.state = "escalated" THEN "escalated"
    ELSE IF r.state # "approved" THEN "invalidated"
    ELSE IF r.tree # worktree THEN "scope_changed" ELSE "allow"

Allowed(l) == l \in receipts /\ \E r \in authority[l] : Gate(l, r) = "allow"

(* A binding names the record, and with it the receipt and gate context.   *)
BoundHolds(b) == authority[b.lineage] = {b.record} /\ Allowed(b.lineage)

Writes(l, r) ==
    /\ authority' = [authority EXCEPT ![l] = {r}]
    /\ UNCHANGED receipts

Start(l) ==
    /\ authority[l] = {}
    /\ Writes(l, [state |-> "open", tree |-> worktree, scope |-> scopes[l], recovers |-> {}])

(* A correction may have moved the tree under review.                      *)
Conclude(l) ==
    \E r \in authority[l], verdict \in Verdicts,
       tree \in Trees :
        /\ r.state = "open"
        /\ tree \in {r.tree} \cup (IF verdict = "approved" THEN {worktree} ELSE {})
        /\ Writes(l, [r EXCEPT !.state = verdict, !.tree = tree])

WriteReceipt(l) ==
    \E r \in authority[l] :
        /\ r.state \in {"approved", "escalated"}
        /\ l \notin receipts
        /\ receipts' = receipts \cup {l}
        /\ UNCHANGED authority

Recover(l, m) ==
    \E r \in authority[l] :
        /\ authority[m] = {} /\ l \in Leaves
        /\ \/ r.state = "approved" /\ r.tree # worktree
           \/ r.state \in {"escalated", "invalidated"}
        /\ Writes(m, [state |-> "open", tree |-> worktree, scope |-> r.scope,
                      recovers |-> {l}])

Command ==
    /\ \/ \E l \in Roots : Start(l)
       \/ \E l \in Lineages : Conclude(l) \/ WriteReceipt(l)
       \/ \E l, m \in Lineages : Recover(l, m)
    /\ UNCHANGED <<home, scopes, change, worktree, binding, lock, binder, call, disturbances, archived>>

---------------------------------------------------------------------------
Budgeted(free) ==
    IF free THEN UNCHANGED disturbances
    ELSE disturbances < MaxDisturbances /\ disturbances' = disturbances + 1

(* Bind: BindApprovedReview and writeBinding. *)

Unbinding == [pc |-> "idle", expected |-> {}, new |-> {}]

Goes(b, local) == binder' = [binder EXCEPT ![b] = local]

BindStays == UNCHANGED <<home, scopes, change, worktree, authority, receipts, call,
                         disturbances, archived>>

(* The record is approved, its receipt is written, the gate allows.  The   *)
(* operator expects the binding he was shown.  Replacing one that holds is *)
(* a disturbance.                                                          *)
BindRead(b, l, expected) ==
    /\ binder[b].pc = "idle"
    /\ home = "openspec" /\ Allowed(l)
    /\ Budgeted(\A old \in binding : ~ BoundHolds(old))
    /\ \E r \in authority[l] :
          Goes(b, [Unbinding EXCEPT !.pc = "read", !.expected = expected,
                                    !.new = {[lineage |-> l, record |-> r]}])
    /\ UNCHANGED <<home, scopes, change, worktree, authority, receipts, binding, lock, call, archived>>

(* Everything again, just before it is published.                          *)
BindConfirm(b) ==
    /\ binder[b].pc = "read"
    /\ \E new \in binder[b].new :
          Goes(b, IF new.record \in authority[new.lineage] /\ Allowed(new.lineage)
                  THEN [binder[b] EXCEPT !.pc = "confirmed"] ELSE Unbinding)
    /\ BindStays /\ UNCHANGED <<binding, lock>>

Compares(local, current) == current = local.expected

(* Faulty: the binding is read without the lock.                           *)
MayCompareUnlocked(b) == binder[b].pc = "confirmed"

MayCompare(b) == binder[b].pc = "confirmed" /\ lock = {}

(* acquireBindingLock does not wait.  Under the lock the binding on disk   *)
(* is the new one already, the expected one, or a conflict.                *)
BindCompare(b) ==
    /\ MayCompare(b)
    /\ \/ /\ binding = binder[b].new
          /\ Goes(b, [binder[b] EXCEPT !.pc = "done"])
          /\ UNCHANGED lock
       \/ /\ binding # binder[b].new /\ Compares(binder[b], binding)
          /\ Goes(b, [binder[b] EXCEPT !.pc = "compared"])
          /\ lock' = {b}
       \/ /\ binding # binder[b].new /\ ~ Compares(binder[b], binding)
          /\ Goes(b, Unbinding)
          /\ UNCHANGED lock
    /\ BindStays /\ UNCHANGED binding

BindRefused(b) ==
    /\ binder[b].pc = "confirmed" /\ lock # {}
    /\ Goes(b, Unbinding)
    /\ BindStays /\ UNCHANGED <<binding, lock>>

(* The temporary file is renamed over the binding; the lock is released.   *)
BindPublish(b) ==
    /\ binder[b].pc = "compared"
    /\ binding' = binder[b].new
    /\ lock' = {}
    /\ Goes(b, [binder[b] EXCEPT !.pc = "done"])
    /\ BindStays

BindReturn(b) ==
    /\ binder[b].pc = "done"
    /\ Goes(b, Unbinding)
    /\ BindStays /\ UNCHANGED <<binding, lock>>

(* Faulty: the lock outlives its process.                                  *)
DropsNothing(b) == lock' = lock

DropsLock(b) == lock' = lock \ {b}

(* The process dies or a write fails; the kernel drops its lock.           *)
BindDies(b) ==
    /\ binder[b].pc = "compared"
    /\ Budgeted(FALSE)
    /\ Goes(b, Unbinding)
    /\ DropsLock(b)
    /\ UNCHANGED <<home, scopes, change, worktree, authority, receipts, binding, call, archived>>

BindStep(b) ==
    BindConfirm(b) \/ BindCompare(b) \/ BindRefused(b) \/ BindPublish(b) \/ BindReturn(b)

---------------------------------------------------------------------------
(* Status: Resolve and resolveEngramStatus. *)

Waiting == [pc |-> "idle", c |-> {}, binding |-> {}, todo |-> {}, eligible |-> {},
            bridge |-> NoBridge, status |-> {}]

CallStays == UNCHANGED <<home, scopes, change, worktree, authority, receipts, binding, lock,
                         binder, disturbances, archived>>

Becomes(local) == call' = local

(* The artifacts and the binding.  Only a change of openspec/ has one, or  *)
(* looks for a compact review.                                             *)
Read ==
    /\ call.pc = "idle"
    /\ Becomes([Waiting EXCEPT
          !.c = {change}, !.status = {Initial(change)},
          !.binding = IF home = "openspec" THEN binding ELSE {},
          !.pc = IF home = "openspec" /\ binding # {} THEN "bound"
                 ELSE IF home = "openspec" /\ NeedsBridge(change) THEN "list" ELSE "bridge"])
    /\ CallStays

(* validateBoundReview: authority and gate, the files again, the gate again. *)
Invalid ==
    \E c \in call.c, s \in call.status :
        Becomes([call EXCEPT !.pc = "act", !.status = {Bound(c, FALSE, s)}])

ValidateBound ==
    /\ call.pc = "bound"
    /\ \E b \in call.binding :
          IF BoundHolds(b) THEN Becomes([call EXCEPT !.pc = "gated"]) ELSE Invalid
    /\ CallStays

UnchangedBinding(b) == binding = {b} /\ authority[b.lineage] = {b.record}

RereadBound ==
    /\ call.pc = "gated"
    /\ \E b \in call.binding :
          IF UnchangedBinding(b) THEN Becomes([call EXCEPT !.pc = "reread"]) ELSE Invalid
    /\ CallStays

AuthorizeBound ==
    /\ call.pc = "reread"
    /\ \E b \in call.binding, c \in call.c, s \in call.status :
          IF BoundHolds(b)
          THEN Becomes([call EXCEPT !.pc = "act", !.status = {Bound(c, TRUE, s)}])
          ELSE Invalid
    /\ CallStays

(* discoverCompactPreVerifyAuthority lists the leaves once.                *)
ListLeaves ==
    /\ call.pc = "list"
    /\ Becomes([call EXCEPT !.pc = "bridge", !.todo = Leaves])
    /\ CallStays

Observed(c) == UNION {report.observed : report \in {r \in c.report : AuthorityOnly(r)}}

(* Not bound to the change, or the very predecessor the report was denied  *)
(* on, whose scope has changed (skipsObservedStalePredecessor).            *)
Skipped(c, l, r) ==
    \/ r.scope = "elsewhere"
    \/ /\ r.state = "approved" /\ l \in receipts
       /\ Gate(l, r) = "scope_changed"
       /\ [lineage |-> l, record |-> r] \in Observed(c)

(* One authority; anything unclear about a path-bound one ends the search. *)
BridgeLeaf(l) ==
    /\ call.pc = "bridge" /\ l \in call.todo
    /\ \E r \in authority[l], c \in call.c :
          LET next == [call EXCEPT !.todo = @ \ {l}] IN
          IF Skipped(c, l, r) THEN Becomes(next)
          ELSE IF r.scope = "change" /\ Allowed(l)
               THEN Becomes([next EXCEPT !.eligible = @ \cup {[lineage |-> l, record |-> r]}])
               ELSE Becomes([call EXCEPT !.todo = {}, !.eligible = {},
                                         !.bridge = [NoBridge EXCEPT !.relevant = TRUE]])
    /\ CallStays

(* Exactly one authority, or the search is ambiguous.                      *)
Bridge ==
    IF call.bridge.relevant \/ Cardinality(call.eligible) # 1
    THEN [NoBridge EXCEPT !.relevant = call.bridge.relevant \/ call.eligible # {}]
    ELSE [eligible |-> TRUE, relevant |-> FALSE, revision |-> call.eligible]

GateNeeded(c, s) == s.verify = "all_done" /\ AllComplete(c)

Route ==
    /\ call.pc = "bridge" /\ call.todo = {}
    /\ \E c \in call.c, s \in call.status :
          LET routed == IF home = "openspec" THEN Unbound(c, Bridge, s)
                        ELSE Routed(c, s) IN
          Becomes([call EXCEPT !.status = {routed}, !.bridge = Bridge, !.eligible = {},
                               !.pc = IF GateNeeded(c, routed) THEN "receipt" ELSE "act"])
    /\ CallStays

(* discoverNativeReceipt: all terminal receipts of the repository, whatever *)
(* change they belong to, unless one is mirrored to this change.           *)
Terminal(l) == l \in Leaves /\ l \in receipts

FindReceipt ==
    /\ call.pc = "receipt"
    /\ \E c \in call.c, s \in call.status :
          LET found == IF c.mirror # {} THEN c.mirror ELSE {l \in Lineages : Terminal(l)} IN
          Becomes(IF Cardinality(found) = 1
                  THEN [call EXCEPT !.pc = "gate", !.todo = found]
                  ELSE [call EXCEPT !.pc = "act", !.status = {GateBlocked(s)}])
    /\ CallStays

(* Faulty: the gate only looks at what the receipt says of itself.         *)
DeliversReviewed(l) == \E r \in authority[l] : r.state = "approved"

Delivers(l) == Allowed(l)

ReviewGate ==
    /\ call.pc = "gate"
    /\ \E l \in call.todo, s \in call.status :
          Becomes([call EXCEPT !.pc = "act",
                               !.status = {IF Delivers(l) THEN s ELSE GateBlocked(s)}])
    /\ CallStays

StatusStep ==
    \/ ValidateBound \/ RereadBound \/ AuthorizeBound
    \/ ListLeaves \/ (\E l \in Lineages : BridgeLeaf(l))
    \/ Route \/ FindReceipt \/ ReviewGate

---------------------------------------------------------------------------
(* The agent acts on what it was told, without looking again. *)

Does(next) == call.pc = "act" /\ (\E s \in call.status : s.next = next) /\ Becomes(Waiting)

ActStays == UNCHANGED <<home, scopes, authority, receipts, binding, lock, binder>>

Plan ==
    \E step \in {<<"propose", "proposal">>, <<"spec", "specs">>, <<"design", "design">>,
                 <<"tasks", "tasks">>} :
        /\ Does(step[1])
        /\ change' = [change EXCEPT !.planning = @ \cup {step[2]}]
        /\ UNCHANGED <<worktree, disturbances, archived>> /\ ActStays

Apply ==
    /\ Does("apply")
    /\ worktree' \in Trees
    /\ change' = [change EXCEPT !.tasks.pending = 0]
    /\ UNCHANGED <<disturbances, archived>> /\ ActStays

Passed == [form |-> "verify-result", evidence |-> "e2", verdict |-> "pass",
           blockers |-> 0, critical |-> 0, testExit |-> 0, buildExit |-> 0,
           requirements |-> [completed |-> 1, total |-> 1],
           scenarios |-> [completed |-> 1, total |-> 1],
           observed |-> {}, substantive |-> FALSE]

Failed == [Passed EXCEPT !.evidence = "e1", !.verdict = "fail", !.critical = 1,
                         !.substantive = TRUE]

(* The envelope of sdd-verify when its preflight is denied the review a.   *)
Denied(a) == [Passed EXCEPT !.form = "authority-failure", !.verdict = "fail",
                            !.blockers = 1, !.critical = 1, !.testExit = 125,
                            !.buildExit = 125, !.observed = {a}]

Known == UNION {{[lineage |-> l, record |-> r] : r \in authority[l]} : l \in Leaves}

(* What the call went by; without any, the v1 transaction.                 *)
GoneBy == IF call.bridge.eligible THEN call.bridge.revision ELSE call.binding

(* What a preflight can be denied on: a review that does not allow, once   *)
(* the one the agent was sent on does not either.                          *)
Missing ==
    {a \in Known : ~ Allowed(a.lineage) /\ \A g \in GoneBy : ~ BoundHolds(g)}

(* Verification passes, fails, or is denied for want of a review.          *)
Verify ==
    /\ Does("verify")
    /\ \E report \in {Passed, Failed} \cup {Denied(a) : a \in Missing} :
          /\ change' = [change EXCEPT !.report = {report}]
          /\ Budgeted(report # Failed)
    /\ UNCHANGED <<worktree, archived>> /\ ActStays

Remediate ==
    /\ Does("remediate")
    /\ \E t \in change.transaction : \E batch \in FixBatch(t) :
          change' = [change EXCEPT !.progress =
              {[complete |-> TRUE, revision |-> t.failed, lineage |-> t.lineage,
                generation |-> t.generation, batch |-> batch]}]
    /\ UNCHANGED <<worktree, disturbances, archived>> /\ ActStays

(* The agent reports what blocks it and stops, to be asked again; the      *)
(* reviewers and binders go on by themselves.                              *)
Await ==
    /\ Does("review") \/ Does("resolve-blockers") \/ Does("resolve-review")
    /\ UNCHANGED <<change, worktree, disturbances, archived>> /\ ActStays

Archive ==
    /\ Does("archive")
    /\ archived' = TRUE
    /\ UNCHANGED <<change, worktree, disturbances>> /\ ActStays

Act == Plan \/ Apply \/ Verify \/ Remediate \/ Await \/ Archive

(* Somebody edits the files, or reopens a task.                            *)
Disturb ==
    /\ \/ worktree' \in Trees \ {worktree} /\ UNCHANGED change
       \/ /\ change.tasks.pending = 0
          /\ change' = [change EXCEPT !.tasks.pending = 1]
          /\ UNCHANGED worktree
    /\ Budgeted(FALSE)
    /\ UNCHANGED <<home, scopes, authority, receipts, binding, lock, binder, call, archived>>

---------------------------------------------------------------------------
Init ==
    /\ \E x \in Settings :
          /\ home = x.home /\ scopes = x.scopes
          /\ disturbances = MaxDisturbances - x.disturbances
          /\ change = [planning |-> Planning \ {"tasks"},
                       tasks |-> [total |-> 1, pending |-> 1],
                       specs |-> [requirements |-> 1, scenarios |-> 1],
                       report |-> {}, progress |-> {},
                       transaction |-> x.transaction, mirror |-> x.mirror]
    /\ worktree = Base
    /\ authority = [l \in Lineages |-> {}] /\ receipts = {}
    /\ binding = {} /\ lock = {}
    /\ binder = [b \in Binders |-> Unbinding]
    /\ call = Waiting /\ held = 0
    /\ archived = FALSE

(* Concluded in favour and not superseded, whatever the files hold now.    *)
Stands(b) ==
    /\ authority[b.lineage] = {b.record} /\ b.record.state = "approved"
    /\ b.lineage \in receipts /\ ~ Superseded(b.lineage)

(* At this instant: the authority the call goes by is good; the one its    *)
(* binding named is; that one stands, and the binding still names it.      *)
Holds == \E b \in call.binding : BoundHolds(b)
Named == \E b \in call.binding : binding = {b} /\ Stands(b)
Good ==
    \/ \E b \in call.binding : binding = {b} /\ BoundHolds(b)
    \/ \E a \in call.eligible : BoundHolds(a)
    \/ call.pc \in {"gate", "act"} /\ \E l \in call.todo : Allowed(l)

(* The archived change is gone from openspec/changes.                      *)
Ongoing(A) ==
    /\ ~ archived
    /\ A
    /\ held' = IF call'.pc = "idle" THEN 0
               ELSE IF Good' \/ (held >= 2 /\ Holds') THEN 3
               ELSE IF held = 1 /\ Named' THEN 2
               ELSE IF held = 0 /\ Holds' THEN 1 ELSE held

Next ==
    \/ Ongoing(Command) \/ Ongoing(Disturb)
    \/ Ongoing(Read) \/ Ongoing(StatusStep) \/ Ongoing(Act)
    \/ \E b \in Binders :
          \/ Ongoing(BindStep(b)) \/ Ongoing(BindDies(b))
          \/ \E l \in Lineages, expected \in {binding, {}} : Ongoing(BindRead(b, l, expected))

Spec == Init /\ [][Next]_vars

(* The agent is asked again and again, and what a binder has begun goes on. *)
(* A maintainer who can bind a standing review binds it, but not beside a  *)
(* denied report, which only a change without a binding can recover from.  *)
(* Reviewers and editors need not go on.                                   *)
NoDenial == \A report \in change.report : ~ AuthorityOnly(report)

Fairness ==
    /\ WF_vars(Ongoing(Read)) /\ WF_vars(Ongoing(StatusStep)) /\ WF_vars(Ongoing(Act))
    /\ \A b \in Binders :
          /\ WF_vars(Ongoing(BindStep(b)))
          /\ SF_vars(Ongoing(NoDenial /\ \E l \in Lineages : BindRead(b, l, binding)))

FairSpec == Spec /\ Fairness

---------------------------------------------------------------------------
(* Properties. *)

(* internal/assets/skills/_shared/sdd-status-contract.md: archive is ready *)
(* only when the tasks are complete, strict verification passes and an     *)
(* approved receipt matches the candidate tree.  Whatever moved while the  *)
(* status was computed, its authority was good at an instant of the call;  *)
(* one that a binding names stood at an instant when the binding named it, *)
(* and matched the working tree both before that instant and after it.     *)
ArchiveIsEarned ==
    call.pc = "act" => \A c \in call.c, s \in call.status :
        s.archive = "ready" \/ s.next = "archive" =>
            Verified(c) /\ AllComplete(c) /\ CoreReady(c) /\ held = 3

(* The v1 transaction waits for its final verification.                    *)
V1Waits(c) ==
    \E t \in c.transaction : t.state \in {"ready_final_verification", "final_verifying"}

(* This failure is the one the v1 transaction fixed: the remediation that  *)
(* is written down is complete and bound to it.                            *)
Remediated(c, report) ==
    /\ EvidenceRevision(report) # NoEvidence
    /\ \E t \in c.transaction, done \in c.progress :
          /\ t.state = "ready_final_verification"
          /\ t.failed = EvidenceRevision(report)
          /\ \E batch \in FixBatch(t) : Remediates(done, t.failed, t, batch)

(* Verification was denied on another review than the one there is now,    *)
(* which was good during the call.                                         *)
Reauthorized(report) ==
    /\ AuthorityOnly(report)
    /\ held = 3 /\ call.bridge.eligible
    /\ call.bridge.revision # report.observed

(* openspec/changes/sdd-compact-authority-recovery (pre-verification       *)
(* recovery): verification is only recommended for an applied change that  *)
(* has not passed it; a first one, on an authority that was good during    *)
(* the call or a v1 transaction that waits for it; one after a report that *)
(* failed, when nothing but the review was missing and another one is good *)
(* now, or when its remediation is complete and bound to the transaction.  *)
(* Every other failure, also beside a waiting transaction, stays blocked.  *)
VerifyIsEarned ==
    call.pc = "act" => \A c \in call.c, s \in call.status :
        s.verify = "ready" \/ s.next = "verify" =>
            /\ ApplyState(c) = "all_done" /\ ~ Verified(c)
            /\ c.report = {} => held = 3 \/ V1Waits(c)
            /\ c.report # {} =>
                  \E report \in c.report : Reauthorized(report) \/ Remediated(c, report)

(* Concurrent binders, crashes and stale expectations leave the binding a  *)
(* compare-and-swap register.                                              *)
Register == INSTANCE BindingRegister WITH
    Bindings <- [lineage : Lineages, record : Records],
    register <- binding,
    swap     <- [b \in Binders |->
                    {[expected |-> binder[b].expected, binding |-> new,
                      done |-> binder[b].pc = "done"] : new \in binder[b].new}]

ImplementsRegister == Register!Spec

(* A denied verification that the status can be asked to retry: nothing is *)
(* bound or left of v1, review l is of this change and another one than    *)
(* the report was denied on, and no other review is in its way.            *)
Recoverable(l, report) ==
    /\ AuthorityOnly(report)
    /\ binding = {} /\ change.transaction = {}
    /\ \A r \in authority[l] :
          r.scope = "change" /\ report.observed # {[lineage |-> l, record |-> r]}
    /\ \A m \in Leaves \ {l} : \A r \in authority[m] : Skipped(change, m, r)

(* No dead end: once a review of the working tree stands for good, and a   *)
(* report that failed was denied on another review or awaits a remediation *)
(* that the transaction admits, the agent that only does what it is told   *)
(* reaches the archive; neither a denied verification, an ambiguous second *)
(* receipt, a foreign mirror nor a stale binding keeps it from there.  A   *)
(* failure that the recovery leaves blocked is not promised an end, nor is *)
(* a change kept in Engram or with a v1 transaction that waits for a fix:  *)
(* v1 is read-only, and only v1 can move them.                             *)
StandingReviewArchives ==
    (/\ home = "openspec"
     /\ \A t \in change.transaction : t.state # "fixing"
     /\ <>[](\E l \in Lineages :
               /\ Allowed(l)
               /\ \A report \in change.report :
                     \/ Passing(report, change.specs)
                     \/ Recoverable(l, report)
                     \/ Remediation(change).required \/ Remediation(change).complete))
        => <>archived
=============================================================================
