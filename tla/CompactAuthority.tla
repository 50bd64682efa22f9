--------------------------- MODULE CompactAuthority ---------------------------
(***************************************************************************)
(* The compact review authority of one repository with every command       *)
(* atomic: one record per lineage under .git/.../v2/<lineage>/, the        *)
(* receipts written beside them, and the recovery graph the records form   *)
(* (internal/reviewtransaction/compact_store.go).  CompactStore takes the  *)
(* commands apart into the steps concurrent processes really take and      *)
(* shows that they still implement this module.                            *)
(***************************************************************************)
EXTENDS CompactState

CONSTANTS
    Roots,          \* lineages an operator names at `review start`
    StartTargets,   \* <<kind, base tree, candidate tree>> a review may freeze
    RecoveryGrants, \* <<disposition, maintainer authorization>> of recoveries
    ReviewInputs,   \* reviewer results handed to `review finalize`
    Forecasts,      \* --correction-lines an operator may give
    FixedTrees,     \* working trees a correction attempt may end in
    MaxGeneration   \* bound of the model: no successor beyond this generation

ASSUME RootsAssumption == Roots \subseteq Lineages
ASSUME StartAssumption ==
    StartTargets \subseteq {"current-changes", "base-diff"} \X Trees \X Trees
ASSUME GrantAssumption == RecoveryGrants \subseteq Dispositions \X BOOLEAN
ASSUME InputsAssumption ==
    \A in \in ReviewInputs :
        /\ \A l \in DOMAIN in.reports : in.reports[l] \subseteq FindingIds
        /\ in.severe \subseteq FindingIds
        /\ DOMAIN in.evidence = in.severe
ASSUME ForecastAssumption == Forecasts \subseteq Int
ASSUME FixedAssumption == FixedTrees \subseteq Trees
ASSUME GenerationAssumption == MaxGeneration \in Nat

VARIABLES
    authority,  \* lineage -> {} or the one record in its review-state.json
    receipts    \* lineage -> {} or the receipt in its review-receipt.json

vars == <<authority, receipts>>

---------------------------------------------------------------------------
(* The recovery graph. *)

(* The SHA-256 identity makeCompactRecord derives from the record.         *)
Revision(s) == [sha256 |-> s]

Children(auth, l) ==
    {m \in Lineages : \E s \in auth[m] : \E r \in s.recovery : r.predecessor = l}

(* CompactLineageSuperseded.                                               *)
Superseded(auth, l) == Children(auth, l) # {}

Linked(auth) ==
    \A l \in Lineages : \A s \in auth[l] : \A r \in s.recovery :
        \E p \in auth[r.predecessor] : Revision(p) = r.revision

Unforked(auth) ==
    \A l, m, n \in Lineages : {l, m} \subseteq Children(auth, n) => l = m

(* No set of lineages is closed under "has its predecessor in the set".    *)
Acyclic(auth) ==
    \A S \in SUBSET Lineages :
        (\A l \in S : \E s \in auth[l] : \E r \in s.recovery : r.predecessor \in S)
        => S = {}

(* CompactAuthorityLeaves returns no error.                                *)
GraphValid(auth) == Linked(auth) /\ Unforked(auth) /\ Acyclic(auth)

(* What it returns then.                                                   *)
Leaves(auth) == {l \in Lineages : auth[l] # {} /\ ~ Superseded(auth, l)}

---------------------------------------------------------------------------
(* Receipts. *)

Receipted == {"approved", "escalated"}

Receipt(s) ==
    [lineage |-> s.lineage, generation |-> s.generation,
     base |-> s.initial.base, reviewed |-> s.initial.tree,
     final |-> s.current.tree, paths |-> s.initial.paths,
     fixDelta |-> s.fixDelta, evidence |-> s.evidence,
     risk |-> s.risk, lenses |-> s.lenses, resolved |-> s.fix,
     terminal |-> s.state]

---------------------------------------------------------------------------
(* Recovery. *)

ScopeChanged(previous, next) ==
    \/ previous.tree # next.tree
    \/ previous.paths # next.paths
    \/ previous.kind = next.kind /\ previous.base # next.base

Provenance(pred, grant) ==
    [predecessor |-> pred.lineage, revision |-> Revision(pred),
     disposition |-> grant[1], authorized |-> grant[2]]

(* RunReviewRecover always reviews the live current changes.               *)
Successor(pred, l, base, tree, lenses, grant) ==
    [NewCompactState(l, pred.generation + 1, "current-changes", base, tree, lenses)
        EXCEPT !.recovery = {Provenance(pred, grant)}]

(* Faulty: the state of an invalidated predecessor is not looked at.       *)
DispositionHoldsForOpen(pred, next, grant) ==
    \/ /\ grant[1] = "scope_changed" /\ pred.state = "approved"
       /\ ScopeChanged(pred.current, next.initial)
    \/ grant[1] = "invalidated"
    \/ grant[1] = "escalated" /\ pred.state = "escalated" /\ grant[2]

(* The verdict the disposition asks of the predecessor.                    *)
DispositionHolds(pred, next, grant) ==
    \/ /\ grant[1] = "scope_changed" /\ pred.state = "approved"
       /\ ScopeChanged(pred.current, next.initial)
    \/ grant[1] = "invalidated" /\ pred.state = "invalidated"
    \/ grant[1] = "escalated" /\ pred.state = "escalated" /\ grant[2]

(* Faulty: the successor's directory may already hold a record.            *)
RecoverAllowedOverRecord(auth, pred, next, grant) ==
    /\ pred.lineage # next.lineage
    /\ GraphValid(auth)
    /\ ~ Superseded(auth, pred.lineage)
    /\ DispositionHolds(pred, next, grant)
    /\ next.generation = pred.generation + 1
    /\ Valid(next)

(* The checks RecoverCompactAuthority makes under the lock before writing. *)
RecoverAllowed(auth, pred, next, grant) ==
    /\ pred.lineage # next.lineage
    /\ GraphValid(auth)
    /\ auth[next.lineage] = {}
    /\ ~ Superseded(auth, pred.lineage)
    /\ DispositionHolds(pred, next, grant)
    /\ next.generation = pred.generation + 1
    /\ Valid(next)

---------------------------------------------------------------------------
(* The commands. *)

Init ==
    /\ authority = [l \in Lineages |-> {}]
    /\ receipts  = [l \in Lineages |-> {}]

Becomes(l, next) ==
    /\ Valid(next)
    /\ authority' = [authority EXCEPT ![l] = {next}]
    /\ UNCHANGED receipts

Start(l) ==
    /\ authority[l] = {}
    /\ \E target \in StartTargets, lenses \in SUBSET Lenses :
          Becomes(l, NewCompactState(l, 1, target[1], target[2], target[3], lenses))

CompleteReview(l) ==
    \E s \in authority[l], in \in ReviewInputs :
        CompleteReviewAllowed(s, in) /\ Becomes(l, ReviewCompleted(s, in))

Invalidate(l) ==
    \E s \in authority[l], reason \in Reasons :
        PristineReviewing(s) /\ Becomes(l, Invalidated(s, reason))

BeginCorrection(l) ==
    \E s \in authority[l], lines \in Forecasts :
        BeginCorrectionAllowed(s, lines) /\ Becomes(l, CorrectionBegun(s, lines))

CompleteCorrection(l) ==
    \E s \in authority[l], tree \in FixedTrees, original, regression \in BOOLEAN :
        LET snapshot == SnapshotOf("fix-diff", s.current.tree, tree, s.fix) IN
        /\ CompleteCorrectionAllowed(s, snapshot)
        /\ Becomes(l, CorrectionCompleted(s, snapshot, original, regression))

CompleteVerification(l) ==
    \E s \in authority[l], payload \in EvidencePayloads, approved \in BOOLEAN :
        s.state = "validating" /\ Becomes(l, Verified(s, payload, approved))

Recover(l, m) ==
    \E pred \in authority[l], target \in StartTargets, lenses \in SUBSET Lenses,
       grant \in RecoveryGrants :
        LET next == Successor(pred, m, target[2], target[3], lenses, grant) IN
        /\ pred.generation < MaxGeneration
        /\ RecoverAllowed(authority, pred, next, grant)
        /\ Becomes(m, next)

WriteReceipt(l) ==
    \E s \in authority[l] :
        /\ s.state \in Receipted
        /\ receipts' = [receipts EXCEPT ![l] = {Receipt(s)}]
        /\ UNCHANGED authority

Next ==
    \/ \E l \in Roots : Start(l)
    \/ \E l \in Lineages :
          \/ CompleteReview(l) \/ Invalidate(l)
          \/ BeginCorrection(l) \/ CompleteCorrection(l) \/ CompleteVerification(l)
          \/ WriteReceipt(l)
    \/ \E l, m \in Lineages : Recover(l, m)

Spec == Init /\ [][Next]_vars

---------------------------------------------------------------------------
(* Properties. *)

(* Each directory holds at most one record, and it is the record of that   *)
(* lineage; receipts exist only for verdicts.                              *)
AuthorityTypeOK ==
    /\ DOMAIN authority = Lineages /\ DOMAIN receipts = Lineages
    /\ \A l \in Lineages :
          /\ \A s, t \in authority[l] : s = t
          /\ \A s \in authority[l] :
                s.lineage = l /\ s.generation \in Nat \ {0} /\ s.state \in States

(* docs/review-authority-threat-model.md: no sequence of reviews and       *)
(* recoveries makes a fork, a dangling or mismatched predecessor link or a *)
(* cycle, so discovery never fails closed on what the commands wrote.      *)
GraphStaysValid == GraphValid(authority)

(* Every successor can still be justified from what is on disk: its        *)
(* predecessor holds, byte for byte, the record that was recovered from,   *)
(* with the verdict its disposition asks for, one generation earlier, and  *)
(* an approved review was only succeeded because the scope changed.        *)
RecoveryIsJustified ==
    \A m \in Lineages : \A s \in authority[m] : \A r \in s.recovery :
        \E pred \in authority[r.predecessor] :
            /\ r.revision = Revision(pred)
            /\ s.generation = pred.generation + 1
            /\ \/ /\ r.disposition = "scope_changed" /\ pred.state = "approved"
                  /\ ScopeChanged(pred.current, s.initial)
               \/ r.disposition = "invalidated" /\ pred.state = "invalidated"
               \/ r.disposition = "escalated" /\ pred.state = "escalated" /\ r.authorized

(* A receipt on disk is the receipt of the record on disk, although it is  *)
(* written after the record, without the lock and from a copy in memory.   *)
ReceiptMatchesRecord ==
    \A l \in Lineages : receipts[l] \subseteq {Receipt(s) : s \in authority[l]}

(* docs/review-authority-threat-model.md: predecessor state and receipt    *)
(* bytes remain immutable.  A record with a verdict, a record somebody     *)
(* recovered from and a receipt never change again, and no record is lost. *)
VerdictsImmutable ==
    [][\A l \in Lineages :
          /\ authority[l] # {} => authority'[l] # {}
          /\ (\E s \in authority[l] : s.state \in Terminal) \/ Superseded(authority, l)
                => authority'[l] = authority[l]
          /\ receipts[l] # {} => receipts'[l] = receipts[l]]_vars
=============================================================================
