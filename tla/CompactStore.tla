----------------------------- MODULE CompactStore -----------------------------
(***************************************************************************)
(* The compact review store under concurrent, crashing commands            *)
(* (compact_store.go, store_lock.go, writeAtomic, and the command drivers  *)
(* of internal/cli/review_facade.go).                                      *)
(*                                                                         *)
(* Each process runs one command at a time.  It loads a record without a   *)
(* lock, computes the next record in memory, tries the one shared v2 LOCK  *)
(* without waiting, re-reads and compares the revision under the lock,     *)
(* stages a temporary file and publishes it by rename.  `review finalize`  *)
(* repeats that for up to four operations and then writes the receipt      *)
(* without the lock.  A process may die between any two steps: the system  *)
(* releases its lock and at most an `.atomic-*` file stays behind.         *)
(***************************************************************************)
EXTENDS CompactAuthority

CONSTANT Procs      \* command invocations that may overlap

VARIABLES
    lock,       \* {} or the process that holds v2/LOCK
    residue,    \* lineages whose directory holds an abandoned .atomic-* file
    proc        \* the local state of each process

storeVars == <<authority, receipts, lock, residue, proc>>

(* facade finalize applies each of these at most once, in this order.      *)
FinalizeOperations ==
    <<"review/complete-review", "review/begin-fix",
      "review/complete-fix", "review/complete-verification">>

Idle == [pc |-> "idle", op |-> "none", done |-> 0, lineage |-> {}, pred |-> {},
         expected |-> {}, state |-> {}, next |-> {}]

---------------------------------------------------------------------------
(* Replace: which successors an operation may install.                     *)

SameScope(s, t) ==
    /\ s.lineage = t.lineage /\ s.generation = t.generation
    /\ s.initial = t.initial /\ s.risk = t.risk /\ s.lenses = t.lenses
    /\ s.lines = t.lines /\ s.budget = t.budget

SameReviewData(s, t) ==
    /\ s.reports = t.reports /\ s.severe = t.severe
    /\ s.classifications = t.classifications /\ s.outcomes = t.outcomes
    /\ s.fix = t.fix
    /\ s.followUps \subseteq t.followUps

LegalSuccessor(s, t, op) ==
    /\ SameScope(s, t)
    /\ \/ /\ op = "review/invalidate"
          /\ PristineReviewing(s)
          /\ \E reason \in t.reason : t = Invalidated(s, reason)
       \/ /\ op = "review/complete-review"
          /\ s.state = "reviewing"
          /\ t.state \in {"correction_required", "validating", "escalated"}
          /\ t.current = s.current
          /\ t.proposed = Nil /\ t.actual = Nil /\ t.fixDelta = {}
          /\ t.checks = {} /\ t.evidence = {}
       \/ /\ op = "review/begin-fix"
          /\ s.state = "correction_required" /\ s.proposed = Nil
          /\ t.state \in {"correction_required", "escalated"} /\ t.proposed # Nil
          /\ t = [s EXCEPT !.state = t.state, !.proposed = t.proposed]
       \/ /\ op = "review/complete-fix"
          /\ s.state = "correction_required" /\ s.proposed # Nil
          /\ t.state \in {"validating", "correction_required", "escalated"}
          /\ Len(t.attempts) = Len(s.attempts) + 1
          /\ SubSeq(t.attempts, 1, Len(s.attempts)) = s.attempts
          /\ SameReviewData(s, t) /\ t.evidence = s.evidence
       \/ /\ op = "review/complete-verification"
          /\ s.state = "validating"
          /\ t.state \in {"approved", "escalated"} /\ t.evidence # {}
          /\ t = [s EXCEPT !.state = t.state, !.evidence = t.evidence]

---------------------------------------------------------------------------
(* DiscoverCompactStores: a directory without a published record is        *)
(* skipped when all it holds is what interrupted writers left.             *)

Unpublished == {l \in residue : authority[l] = {} /\ receipts[l] = {}}

Discovered ==
    {l \in Lineages : authority[l] # {} \/ receipts[l] # {} \/ l \in residue}
        \ Unpublished

(* Every discovered store loads, and the graph they form is valid.         *)
Discoverable == (\A l \in Discovered : authority[l] # {}) /\ GraphValid(authority)

---------------------------------------------------------------------------
(* A command begins: the lock-free load and the record it means to write.  *)

Goes(p, local) == proc' = [proc EXCEPT ![p] = local]

Disk == <<authority, receipts, lock, residue>>

Revisions(l) == {Revision(s) : s \in authority[l]}

BeginStart(p, l) ==
    /\ proc[p] = Idle
    /\ authority[l] = {}
    /\ \E target \in StartTargets, lenses \in SUBSET Lenses :
          LET next == NewCompactState(l, 1, target[1], target[2], target[3], lenses) IN
          /\ Valid(next)
          /\ Goes(p, [Idle EXCEPT !.pc = "replace", !.op = "review/start",
                                  !.lineage = {l}, !.next = {next}])
    /\ UNCHANGED Disk

BeginFinalize(p, l) ==
    /\ proc[p] = Idle
    /\ authority[l] # {}
    /\ Goes(p, [Idle EXCEPT !.pc = "drive", !.op = "review/finalize",
                            !.lineage = {l}, !.expected = Revisions(l),
                            !.state = authority[l]])
    /\ UNCHANGED Disk

(* An exact retry of an invalidation sends the invalidated record again.   *)
BeginInvalidate(p, l) ==
    /\ proc[p] = Idle
    /\ \E s \in authority[l], reason \in Reasons :
          \E next \in (IF s.state = "invalidated" /\ s.reason = {reason} THEN {s}
                       ELSE {t \in {Invalidated(s, reason)} : PristineReviewing(s)}) :
             Goes(p, [Idle EXCEPT !.pc = "replace", !.op = "review/invalidate",
                                  !.lineage = {l}, !.expected = Revisions(l),
                                  !.next = {next}])
    /\ UNCHANGED Disk

BeginRecover(p, l, m) ==
    /\ proc[p] = Idle
    /\ l # m
    /\ \E pred \in authority[l], target \in StartTargets, lenses \in SUBSET Lenses,
          grant \in RecoveryGrants :
          LET next == Successor(pred, m, target[2], target[3], lenses, grant) IN
          /\ pred.generation < MaxGeneration
          /\ Valid([next EXCEPT !.recovery = {}])
          /\ Goes(p, [Idle EXCEPT !.pc = "replace", !.op = "review/recover",
                                  !.lineage = {m}, !.pred = {l},
                                  !.expected = Revisions(l), !.next = {next}])
    /\ UNCHANGED Disk

---------------------------------------------------------------------------
(* finalize computes the next operation from its own copy of the record.   *)

(* The records an operation can compute from s with the inputs at hand.    *)
Computed(s, op) ==
    CASE op = "review/complete-review" ->
            {ReviewCompleted(s, in) :
                in \in {x \in ReviewInputs : CompleteReviewAllowed(s, x)}}
      [] op = "review/begin-fix" ->
            {CorrectionBegun(s, lines) :
                lines \in {x \in Forecasts : BeginCorrectionAllowed(s, x)}}
      [] op = "review/complete-fix" ->
            UNION {{CorrectionCompleted(s, snapshot, o, r) : o, r \in BOOLEAN} :
                snapshot \in {x \in {SnapshotOf("fix-diff", s.current.tree, tree, s.fix) :
                                        tree \in FixedTrees} :
                                CompleteCorrectionAllowed(s, x)}}
      [] op = "review/complete-verification" ->
            IF s.state = "validating"
            THEN {Verified(s, payload, approved) :
                     payload \in EvidencePayloads, approved \in BOOLEAN}
            ELSE {}

Drive(p) ==
    /\ proc[p].pc = "drive"
    /\ \E s \in proc[p].state, i \in DOMAIN FinalizeOperations :
          /\ i > proc[p].done
          /\ \E next \in Computed(s, FinalizeOperations[i]) :
                /\ Valid(next)
                /\ Goes(p, [proc[p] EXCEPT !.pc = "replace", !.done = i,
                                           !.op = FinalizeOperations[i],
                                           !.next = {next}])
    /\ UNCHANGED Disk

(* A verdict: the receipt is derived from the copy and written, lock-free. *)
WriteReceiptFile(p) ==
    /\ proc[p].pc = "drive"
    /\ \E s \in proc[p].state, l \in proc[p].lineage :
          /\ s.state \in Receipted
          /\ receipts' = [receipts EXCEPT ![l] = {Receipt(s)}]
    /\ Goes(p, Idle)
    /\ UNCHANGED <<authority, lock, residue>>

(* finalize returns: a missing input, a refused one, or nothing to do.     *)
Return(p) ==
    /\ proc[p].pc = "drive"
    /\ Goes(p, Idle)
    /\ UNCHANGED Disk

---------------------------------------------------------------------------
(* The write path of Replace and RecoverCompactAuthority.                  *)

(* Faulty: the lock is no obstacle.                                        *)
AcquireAnyway(p) ==
    /\ proc[p].pc = "replace"
    /\ lock' = {p}
    /\ Goes(p, [proc[p] EXCEPT !.pc = "locked"])
    /\ UNCHANGED <<authority, receipts, residue>>

(* Faulty: a command waits for the lock.                                   *)
AcquireWaiting(p) ==
    /\ proc[p].pc = "replace"
    /\ lock = {}
    /\ lock' = {p}
    /\ Goes(p, [proc[p] EXCEPT !.pc = "locked"])
    /\ UNCHANGED <<authority, receipts, residue>>

(* acquireStoreLock never waits.                                           *)
Acquire(p) ==
    /\ proc[p].pc = "replace"
    /\ \/ /\ lock = {}
          /\ lock' = {p}
          /\ Goes(p, [proc[p] EXCEPT !.pc = "locked"])
       \/ /\ lock # {}
          /\ Goes(p, Idle)
          /\ UNCHANGED lock
    /\ UNCHANGED <<authority, receipts, residue>>

(* What Replace finds under the lock.                                      *)
ExactRetry(p) == \E l \in proc[p].lineage : authority[l] = proc[p].next

ReplaceChecked(p) ==
    \E l \in proc[p].lineage, next \in proc[p].next :
        /\ Revisions(l) = proc[p].expected
        /\ IF authority[l] = {}
           THEN proc[p].op = "review/start" /\ next.state = "reviewing"
           ELSE \A s \in authority[l] : LegalSuccessor(s, next, proc[p].op)

RecoverChecked(p) ==
    \E l \in proc[p].pred, next \in proc[p].next :
        /\ Revisions(l) = proc[p].expected
        /\ Discoverable
        /\ \E pred \in authority[l], r \in next.recovery :
              RecoverAllowed(authority, pred, next, <<r.disposition, r.authorized>>)

Checked(p) ==
    IF proc[p].op = "review/recover" THEN RecoverChecked(p) ELSE ReplaceChecked(p)

(* The recovery path compares the predecessor and the graph before it      *)
(* recognizes a retry; Replace recognizes a retry first.                   *)
RetryRecognized(p) ==
    /\ ExactRetry(p)
    /\ proc[p].op = "review/recover" =>
          Discoverable /\ \E l \in proc[p].pred : Revisions(l) = proc[p].expected

Check(p) ==
    /\ proc[p].pc = "locked"
    /\ \/ /\ RetryRecognized(p)
          /\ Goes(p, [proc[p] EXCEPT !.pc = "release"])
       \/ /\ ~ RetryRecognized(p) /\ Checked(p)
          /\ Goes(p, [proc[p] EXCEPT !.pc = "staged"])
    /\ UNCHANGED Disk

(* Faulty: finalize goes on with a record it failed to install.            *)
FailUnnoticed(p) ==
    /\ proc[p].pc \in {"locked", "staged", "release"}
    /\ lock' = {}
    /\ Goes(p, [proc[p] EXCEPT !.pc = "drive", !.state = proc[p].next])
    /\ UNCHANGED <<authority, receipts, residue>>

(* Any error under the lock: a failed check, a live tree that no longer    *)
(* matches, an I/O error, or a directory sync that fails after the rename. *)
Fail(p) ==
    /\ proc[p].pc \in {"locked", "staged", "release"}
    /\ lock' = {}
    /\ Goes(p, Idle)
    /\ UNCHANGED <<authority, receipts, residue>>

(* os.Rename puts the staged file in place.                                *)
Publish(p) ==
    /\ proc[p].pc = "staged"
    /\ \E l \in proc[p].lineage :
          authority' = [authority EXCEPT ![l] = proc[p].next]
    /\ Goes(p, [proc[p] EXCEPT !.pc = "release"])
    /\ UNCHANGED <<receipts, lock, residue>>

(* The deferred release; finalize goes on from the record it committed.    *)
Release(p) ==
    /\ proc[p].pc = "release"
    /\ lock' = {}
    /\ IF proc[p].op \in {FinalizeOperations[i] : i \in DOMAIN FinalizeOperations}
       THEN Goes(p, [proc[p] EXCEPT
                        !.pc = "drive", !.state = proc[p].next, !.next = {},
                        !.expected = {Revision(s) : s \in proc[p].next}])
       ELSE Goes(p, Idle)
    /\ UNCHANGED <<authority, receipts, residue>>

(* The process dies: the system drops its lock, a staged file stays.       *)
Crash(p) ==
    /\ proc[p] # Idle
    /\ lock' = lock \ {p}
    /\ residue' = residue \cup (IF proc[p].pc = "staged" THEN proc[p].lineage ELSE {})
    /\ Goes(p, Idle)
    /\ UNCHANGED <<authority, receipts>>

---------------------------------------------------------------------------
StoreInit ==
    /\ Init
    /\ lock = {}
    /\ residue = {}
    /\ proc = [p \in Procs |-> Idle]

Begin(p) ==
    \/ \E l \in Roots : BeginStart(p, l)
    \/ \E l \in Lineages : BeginFinalize(p, l) \/ BeginInvalidate(p, l)
    \/ \E l, m \in Lineages : BeginRecover(p, l, m)

Step(p) ==
    \/ Drive(p) \/ WriteReceiptFile(p) \/ Return(p)
    \/ Acquire(p) \/ Check(p) \/ Fail(p) \/ Publish(p) \/ Release(p)

StoreNext == \E p \in Procs : Begin(p) \/ Step(p) \/ Crash(p)

StoreSpec == StoreInit /\ [][StoreNext]_storeVars

(* Every command is scheduled until it returns; nobody has to start one.   *)
FairStoreSpec == StoreSpec /\ \A p \in Procs : WF_storeVars(Step(p))

---------------------------------------------------------------------------
(* Properties. *)

StoreTypeOK ==
    /\ lock \subseteq Procs
    /\ residue \subseteq Lineages
    /\ \A p \in Procs :
          /\ proc[p].pc \in {"idle", "drive", "replace", "locked", "staged", "release"}
          /\ proc[p].done \in 0 .. Len(FinalizeOperations)
          /\ \A l \in proc[p].lineage : l \in Lineages
          /\ \A s \in proc[p].next : Valid(s) \/ proc[p].op = "review/recover"

(* Seen from the disk, concurrent commands are atomic ones (a step that     *)
(* leaves the disk alone is recognised first).                             *)
ImplementsAuthority == Init /\ [][UNCHANGED vars \/ Next]_vars

(* No command waits for another one: each ends, whoever holds the lock.    *)
CommandsEnd == \A p \in Procs : proc[p] # Idle ~> proc[p] = Idle
=============================================================================
