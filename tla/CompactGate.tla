----------------------------- MODULE CompactGate -----------------------------
(***************************************************************************)
(* `review validate --gate <gate>`: EvaluateCompactGate against a live     *)
(* authority and a live repository (compact_gate.go, gate.go, prepr.go).   *)
(*                                                                         *)
(* A validator reads the receipt, the record, the recovery graph and the   *)
(* repository one after the other without a lock, decides, then takes the  *)
(* authority lock and reads everything again before it allows.  Meanwhile  *)
(* reviews go on, successors supersede, files are edited, commits come     *)
(* and go and the publication branch advances.                             *)
(*                                                                         *)
(* The authority moves by the atomic commands of CompactAuthority, which   *)
(* CompactStore is shown to implement; every write needs the lock except a *)
(* receipt.  The repository is one branch: the commits from the publication*)
(* merge base to HEAD, the advertised tip of the publication branch, and   *)
(* the working tree.  One reading of it is atomic; intended-untracked      *)
(* paths, policies and remote identities never change.                     *)
(***************************************************************************)
EXTENDS CompactAuthority

CONSTANTS
    Validators,     \* overlapping `review validate` processes
    Gates,          \* the gates they evaluate
    Edits,          \* trees the working tree may be edited to
    Advances,       \* trees others may move the publication branch to
    ReleaseArtifacts, \* contents of the release evidence artifacts
    MaxCommits      \* bound of the model: merge base included

ASSUME GatesAssumption ==
    Gates \subseteq {"post-apply", "pre-commit", "pre-push", "pre-pr", "release"}
ASSUME EditsAssumption == Edits \subseteq Trees /\ Advances \subseteq Trees

VARIABLES
    commits,    \* trees of the commits from the merge base to HEAD
    tip,        \* tree of the publication branch as advertised
    worktree,   \* tree of the working directory
    artifacts,  \* release evidence on disk
    lock,       \* {} or the validator that holds v2/LOCK
    gate        \* the local state of each validator

repository == <<commits, tip, worktree, artifacts>>
gateVars == <<authority, receipts, commits, tip, worktree, artifacts, lock, gate>>

Idle == [pc |-> "idle", gate |-> "none", receipt |-> {}, attested |-> {},
         record |-> {}, target |-> {}]

---------------------------------------------------------------------------
(* What a gate derives from the live repository. *)

HeadTree == commits[Len(commits)]

(* reviewedDeliveryBase: the one commit of the publication range that holds *)
(* the reviewed base tree; the delivery is exactly one commit on top of it. *)
DeliveryBases(tree) == {i \in DOMAIN commits : commits[i] = tree}

PushBases(s) ==
    IF s.initial.kind = "current-changes"
    THEN {i \in DeliveryBases(s.initial.base) :
             /\ DeliveryBases(s.initial.base) = {i}
             /\ Len(commits) - i = 1
             /\ commits[i] # HeadTree}
    ELSE {i \in {1} : Len(commits) > i}

Target(base, tree) ==
    [base |-> base, tree |-> tree, paths |-> ChangedPaths(base, tree),
     refs |-> <<>>, artifacts |-> {}]

(* buildLifecycleSnapshot and the resolved refs; {} if there is no target. *)
Live(g, s) ==
    CASE g \in {"post-apply", "pre-commit"} -> {Target(HeadTree, worktree)}
      [] g = "pre-push" ->
            {[Target(commits[i], HeadTree) EXCEPT !.refs = <<tip, commits>>] :
                i \in PushBases(s)}
      [] g = "pre-pr" -> {[Target(tip, HeadTree) EXCEPT !.refs = <<tip, commits>>]}
      [] g = "release" ->
            {[Target(commits[i], HeadTree) EXCEPT !.artifacts = {artifacts}] :
                i \in {j \in DOMAIN commits : j = Len(commits) - 1}}

(* The tree a merge of HEAD into the publication branch produces.          *)
Merged(target, base) ==
    [p \in Paths |-> IF target.tree[p] # base[p] THEN target.tree[p] ELSE target.base[p]]

(* Faulty: the branch may have moved the reviewed paths.                   *)
CompatibleOverlappingAdvance(g, receipt, target, attested) ==
    /\ g = "pre-pr"
    /\ target.base # receipt.base
    /\ commits[1] = receipt.base
    /\ target.tree = receipt.final
    /\ attested = {Merged(target, receipt.base)}

(* deriveBaseAdvanceCompatibility: the branch moved, but nothing it moved  *)
(* meets the review, and CI attested the merged tree.                      *)
CompatibleAdvance(g, receipt, target, attested) ==
    /\ g = "pre-pr"
    /\ target.base # receipt.base
    /\ commits[1] = receipt.base
    /\ ChangedPaths(receipt.base, receipt.final) = receipt.paths
    /\ target.tree = receipt.final
    /\ receipt.paths \cap ChangedPaths(receipt.base, target.base) = {}
    /\ attested = {Merged(target, receipt.base)}

(* The verdict on a bound target. *)
Decision(g, receipt, target, attested) ==
    CASE CompatibleAdvance(g, receipt, target, attested) -> "allow"
      [] /\ ~ CompatibleAdvance(g, receipt, target, attested)
         /\ target.tree # receipt.final \/ target.paths # receipt.paths
            -> "scope_changed"
      [] /\ ~ CompatibleAdvance(g, receipt, target, attested)
         /\ target.tree = receipt.final /\ target.paths = receipt.paths
            -> IF target.base = receipt.base THEN "allow" ELSE "invalidated"

---------------------------------------------------------------------------
(* The environment. *)

Edit ==
    /\ worktree' \in Edits \ {worktree}
    /\ UNCHANGED <<authority, receipts, commits, tip, artifacts, lock, gate>>

Commit ==
    /\ Len(commits) < MaxCommits
    /\ commits' = Append(commits, worktree)
    /\ UNCHANGED <<authority, receipts, tip, worktree, artifacts, lock, gate>>

(* git reset --soft HEAD~1 *)
Uncommit ==
    /\ Len(commits) > 1
    /\ commits' = SubSeq(commits, 1, Len(commits) - 1)
    /\ UNCHANGED <<authority, receipts, tip, worktree, artifacts, lock, gate>>

Advance ==
    /\ tip' \in Advances \ {tip}
    /\ UNCHANGED <<authority, receipts, commits, worktree, artifacts, lock, gate>>

Rebuild ==
    /\ artifacts' \in ReleaseArtifacts \ {artifacts}
    /\ UNCHANGED <<authority, receipts, commits, tip, worktree, lock, gate>>

(* Commands write under the lock; a receipt is written without it.         *)
Command ==
    /\ Next
    /\ authority' # authority => lock = {}
    /\ UNCHANGED <<repository, lock, gate>>

---------------------------------------------------------------------------
(* A validator. *)

Goes(v, local) == gate' = [gate EXCEPT ![v] = local]

(* discoverCompactFacadeReview with an explicit lineage: it need not be a  *)
(* leaf, only to have a record and a receipt.  Without --lineage discovery *)
(* picks one of the same lineages.                                         *)
Begin(v) ==
    /\ gate[v] = Idle
    /\ \E l \in Lineages, g \in Gates :
          \E receipt \in receipts[l] :
          \E attested \in (IF g = "pre-pr" THEN Optional(Trees) ELSE {{}}) :
             /\ authority[l] # {}
             /\ Goes(v, [Idle EXCEPT !.pc = "begun", !.gate = g,
                                     !.receipt = {receipt}, !.attested = attested])
    /\ UNCHANGED <<authority, receipts, repository, lock>>

Deny(v) == Goes(v, Idle) /\ UNCHANGED lock

LoadRecord(v) ==
    /\ gate[v].pc = "begun"
    /\ \E receipt \in gate[v].receipt :
          Goes(v, [gate[v] EXCEPT !.pc = "loaded", !.record = authority[receipt.lineage]])
    /\ UNCHANGED <<authority, receipts, repository, lock>>

(* The receipt is the one the record implies, the graph is valid and the   *)
(* lineage is not superseded.                                              *)
AuthorityBinds(record, receipt) ==
    /\ GraphValid(authority)
    /\ ~ Superseded(authority, receipt.lineage)
    /\ \E s \in record : s.state \in Receipted /\ Receipt(s) = receipt

CheckAuthority(v) ==
    /\ gate[v].pc = "loaded"
    /\ \E receipt \in gate[v].receipt :
          IF AuthorityBinds(gate[v].record, receipt) /\ receipt.terminal # "escalated"
          THEN Goes(v, [gate[v] EXCEPT !.pc = "checked"]) /\ UNCHANGED lock
          ELSE Deny(v)
    /\ UNCHANGED <<authority, receipts, repository>>

BindTarget(v) ==
    /\ gate[v].pc = "checked"
    /\ \E receipt \in gate[v].receipt, s \in gate[v].record :
          \/ \E target \in Live(gate[v].gate, s) :
                /\ Decision(gate[v].gate, receipt, target, gate[v].attested) = "allow"
                /\ Goes(v, [gate[v] EXCEPT !.pc = "bound", !.target = {target}])
                /\ UNCHANGED lock
          \/ /\ \A target \in Live(gate[v].gate, s) :
                   Decision(gate[v].gate, receipt, target, gate[v].attested) # "allow"
             /\ Deny(v)
    /\ UNCHANGED <<authority, receipts, repository>>

(* acquireStoreLock does not wait: another validator or a writer inside    *)
(* its critical section turns the verdict into a denial.                   *)
Acquire(v) ==
    /\ gate[v].pc = "bound"
    /\ IF lock = {}
       THEN lock' = {v} /\ Goes(v, [gate[v] EXCEPT !.pc = "locked"])
       ELSE Deny(v)
    /\ UNCHANGED <<authority, receipts, repository>>

(* Faulty: supersession is only checked before the lock is taken.          *)
FinalMatchesSuperseded(v) ==
    \E receipt \in gate[v].receipt :
        /\ authority[receipt.lineage] = gate[v].record
        /\ \E s \in gate[v].record : Live(gate[v].gate, s) = gate[v].target
        /\ GraphValid(authority)

(* Faulty: the live target is only derived before the lock is taken.       *)
FinalMatchesUnbound(v) ==
    \E receipt \in gate[v].receipt :
        /\ authority[receipt.lineage] = gate[v].record
        /\ GraphValid(authority)
        /\ ~ Superseded(authority, receipt.lineage)

(* Everything is read again under the lock and must be what it was.        *)
FinalMatches(v) ==
    \E receipt \in gate[v].receipt :
        /\ authority[receipt.lineage] = gate[v].record
        /\ \E s \in gate[v].record : Live(gate[v].gate, s) = gate[v].target
        /\ GraphValid(authority)
        /\ ~ Superseded(authority, receipt.lineage)

Authorize(v) ==
    /\ gate[v].pc = "locked"
    /\ IF FinalMatches(v)
       THEN Goes(v, [gate[v] EXCEPT !.pc = "allowed"]) /\ UNCHANGED lock
       ELSE Goes(v, Idle) /\ lock' = {}
    /\ UNCHANGED <<authority, receipts, repository>>

(* The verdict is returned, then the deferred release runs.                *)
Allow(v) ==
    /\ gate[v].pc = "allowed"
    /\ Goes(v, Idle)
    /\ lock' = {}
    /\ UNCHANGED <<authority, receipts, repository>>

Validate(v) ==
    \/ Begin(v) \/ LoadRecord(v) \/ CheckAuthority(v) \/ BindTarget(v)
    \/ Acquire(v) \/ Authorize(v) \/ Allow(v)

---------------------------------------------------------------------------
GateInit ==
    /\ Init
    /\ \E tree \in Edits :
          commits = <<tree>> /\ tip = tree /\ worktree = tree
    /\ artifacts \in ReleaseArtifacts
    /\ lock = {}
    /\ gate = [v \in Validators |-> Idle]

GateNext ==
    \/ Command
    \/ Edit \/ Commit \/ Uncommit \/ Advance \/ Rebuild
    \/ \E v \in Validators : Validate(v)

GateSpec == GateInit /\ [][GateNext]_gateVars

---------------------------------------------------------------------------
(* Properties. *)

(* docs/review-authority-threat-model.md: a superseded lineage gives no    *)
(* delivery authorization.  An allow is backed, until the validator lets   *)
(* go of the lock, by an approved record that nobody has superseded and    *)
(* whose receipt is the one validated, whatever recoveries and reviews ran *)
(* between the first look at the authority and the last.                   *)
AllowIsBacked ==
    \A v \in Validators : gate[v].pc = "allowed" =>
        \E receipt \in gate[v].receipt :
            /\ receipt.lineage \in Leaves(authority)
            /\ \E s \in authority[receipt.lineage] :
                  s.state = "approved" /\ Receipt(s) = receipt
            /\ GraphValid(authority)

(* What an allowed event publishes: the base it starts from, the tree it   *)
(* ends in.                                                                *)
Publication(g, s) ==
    CASE g \in {"post-apply", "pre-commit"} -> <<HeadTree, worktree>>
      [] g = "release" \/ (g = "pre-push" /\ s.initial.kind = "current-changes") ->
            <<commits[Len(commits) - 1], HeadTree>>
      [] g = "pre-push" /\ s.initial.kind # "current-changes" -> <<commits[1], HeadTree>>
      [] g = "pre-pr" -> <<tip, Merged(Target(tip, HeadTree), commits[1])>>

(* At the instant it is allowed, the event changes exactly the reviewed    *)
(* paths, from their reviewed base to their reviewed and corrected         *)
(* contents, and leaves every other path of the live base alone: also when *)
(* the publication branch has advanced under a pull request.  A pull       *)
(* request whose branch does not fork from the reviewed base is left out:  *)
(* there the gate compares the tip with HEAD and not what a merge yields.  *)
AllowedDeliveryIsReviewed ==
    [][\A v \in Validators :
          gate[v].pc = "locked" /\ gate'[v].pc = "allowed" =>
              \E receipt \in gate[v].receipt, s \in gate[v].record :
                  LET event == Publication(gate[v].gate, s) IN
                  (gate[v].gate = "pre-pr" => commits[1] = receipt.base) =>
                      /\ ChangedPaths(event[1], event[2]) = receipt.paths
                      /\ \A p \in receipt.paths :
                            /\ event[1][p] = receipt.base[p]
                            /\ event[2][p] = receipt.final[p]]_gateVars
=============================================================================
