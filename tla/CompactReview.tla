---------------------------- MODULE CompactReview ----------------------------
(***************************************************************************)
(* One compact review lineage from `review start` to its verdict, driven   *)
(* by one operator at a time: the handlers of CompactState, each followed  *)
(* by the Validate it ends in, over a repository whose working tree can be *)
(* anything when a snapshot is taken.                                      *)
(***************************************************************************)
EXTENDS CompactState

CONSTANTS
    Lineage,        \* the lineage under review
    StartTargets,   \* <<base tree, candidate tree>> pairs a review may freeze
    Forecasts       \* --correction-lines an operator may give

ASSUME LineageAssumption == Lineage \in Lineages
ASSUME TargetsAssumption == StartTargets \subseteq Trees \X Trees
ASSUME ForecastsAssumption == Forecasts \subseteq Int

VARIABLE review     \* the persisted record: {} before start, then {record}

vars == <<review>>

Init == review = {}

(* A handler that returns no error replaces the record. *)
Becomes(next) == Valid(next) /\ review' = {next}

Start ==
    /\ review = {}
    /\ \E target \in StartTargets, kind \in {"current-changes", "base-diff"},
          lenses \in SUBSET Lenses :
          Becomes(NewCompactState(Lineage, 1, kind, target[1], target[2], lenses))

CompleteReview ==
    \E s \in review :
        /\ s.state = "reviewing"
        /\ \E in \in ReviewInput(s.lenses) :
              CompleteReviewAllowed(s, in) /\ Becomes(ReviewCompleted(s, in))

(* Invalidate returns without calling Validate.                            *)
Invalidate ==
    \E s \in review, reason \in Reasons :
        PristineReviewing(s) /\ review' = {Invalidated(s, reason)}

BeginCorrection ==
    \E s \in review, lines \in Forecasts :
        BeginCorrectionAllowed(s, lines) /\ Becomes(CorrectionBegun(s, lines))

(* Faulty: the fix diff is limited to the genesis paths, so an edit beyond *)
(* them goes unseen.                                                       *)
CompleteCorrectionWithPathspec ==
    \E s \in review, tree \in Trees, original, regression \in BOOLEAN :
        LET seen == SnapshotOf("fix-diff", s.current.tree, tree, s.fix)
            snapshot == [seen EXCEPT !.paths = @ \cap GenesisPaths(s)]
        IN  /\ CompleteCorrectionAllowed(s, snapshot)
            /\ Becomes(CorrectionCompleted(s, snapshot, original, regression))

CompleteCorrection ==
    \E s \in review :
        /\ s.state = "correction_required"
        /\ \E tree \in Trees, original, regression \in BOOLEAN :
              LET snapshot == SnapshotOf("fix-diff", s.current.tree, tree, s.fix) IN
              /\ CompleteCorrectionAllowed(s, snapshot)
              /\ Becomes(CorrectionCompleted(s, snapshot, original, regression))

(* Faulty: final verification may be repeated after it failed.             *)
CompleteVerificationAgain ==
    \E s \in review, payload \in EvidencePayloads, approved \in BOOLEAN :
        /\ s.state \in {"validating", "escalated"}
        /\ Becomes(Verified(s, payload, approved))

CompleteVerification ==
    \E s \in review, payload \in EvidencePayloads, approved \in BOOLEAN :
        s.state = "validating" /\ Becomes(Verified(s, payload, approved))

(* A verdict is final: the only legitimate place to stop.                  *)
Finished == \E s \in review : s.state \in Terminal /\ UNCHANGED review

Next ==
    \/ Start \/ CompleteReview \/ Invalidate
    \/ BeginCorrection \/ CompleteCorrection \/ CompleteVerification
    \/ Finished

Spec == Init /\ [][Next]_vars

---------------------------------------------------------------------------
(* Properties. *)

CompactStates ==
    [lineage : Lineages, generation : Nat \ {0}, recovery : {{}},
     state : States, initial : Snapshot, current : Snapshot,
     risk : Risks, lenses : SUBSET Lenses, lines : Nat, budget : Nat,
     reports : Partial(Lenses, SUBSET FindingIds), severe : SUBSET FindingIds,
     classifications : Partial(FindingIds, Classification),
     outcomes : Partial(FindingIds, Outcomes),
     fix : SUBSET FindingIds, followUps : SUBSET FindingIds,
     proposed : Nat \cup {Nil}, actual : Nat \cup {Nil},
     fixDelta : Optional(Snapshot), checks : Optional(BOOLEAN \X BOOLEAN),
     evidence : Optional(EvidencePayloads), reason : Optional(Reasons),
     attempts : Seq(Attempt), cumulative : Nat]

(* The record is absent or one well-formed record of this lineage.         *)
TypeOK ==
    /\ \A s, t \in review : s = t
    /\ \A s \in review : s \in CompactStates /\ s.lineage = Lineage

(* The handlers and the validator were written apart: a move whose own     *)
(* checks pass is never refused afterwards by Validate, so a review cannot *)
(* be wedged by bookkeeping.  The one legitimate refusal is two lenses     *)
(* reporting the same finding id, which only Validate detects.             *)
HandlersMeetValidate ==
    \A s \in review :
        /\ s.state = "reviewing" => \A in \in ReviewInput(s.lenses) :
              (/\ CompleteReviewAllowed(s, in)
               /\ \A l, m \in s.lenses :
                     l # m => in.reports[l] \cap in.reports[m] = {})
              => Valid(ReviewCompleted(s, in))
        /\ \A reason \in Reasons :
              PristineReviewing(s) => Valid(Invalidated(s, reason))
        /\ \A lines \in Forecasts :
              BeginCorrectionAllowed(s, lines) => Valid(CorrectionBegun(s, lines))
        /\ s.state = "correction_required" =>
              \A tree \in Trees, original, regression \in BOOLEAN :
              LET snapshot == SnapshotOf("fix-diff", s.current.tree, tree, s.fix) IN
              CompleteCorrectionAllowed(s, snapshot)
              => Valid(CorrectionCompleted(s, snapshot, original, regression))
        /\ \A payload \in EvidencePayloads, approved \in BOOLEAN :
              s.state = "validating" => Valid(Verified(s, payload, approved))

(* No approval while a finding is open: every severe finding of an         *)
(* approved review was shown not to be the candidate's, was refuted, or    *)
(* was corrected by an attempt that passed both targeted checks and that   *)
(* produced the tree being approved.                                       *)
ApprovalIsEarned ==
    \A s \in review : s.state = "approved" =>
        \A f \in s.severe :
            \/ s.outcomes[f] = "refuted"
            \/ s.outcomes[f] = "info" /\ s.classifications[f].causality = "elsewhere"
            \/ /\ f \in s.fix
               /\ s.attempts # <<>>
               /\ LET last == s.attempts[Len(s.attempts)] IN
                  /\ last.original /\ last.regression
                  /\ f \in last.snapshot.ledger
                  /\ last.snapshot.tree = s.current.tree

(* Corrections never leave the reviewed scope, however many attempts they  *)
(* take: the current tree differs from the reviewed candidate only inside  *)
(* the genesis paths.                                                      *)
CorrectionStaysInScope ==
    \A s \in review :
        ChangedPaths(s.initial.tree, s.current.tree) \subseteq GenesisPaths(s)

---------------------------------------------------------------------------
(* The record as the abstract lifecycle sees it. *)

Field(get(_), absent) == IF review = {} THEN absent ELSE get(CHOOSE s \in review : TRUE)

Status ==
    Field(LAMBDA s : IF s.state = "correction_required" THEN "correcting" ELSE s.state,
          "absent")

Budget       == Field(LAMBDA s : s.budget, 0)
Spent        == Field(LAMBDA s : s.cumulative, 0)
AttemptsMade == Field(LAMBDA s : Len(s.attempts), 0)

Lifecycle == INSTANCE ReviewLifecycle WITH
    status <- Status, budget <- Budget, spent <- Spent, tries <- AttemptsMade

(* The bookkeeping keeps the promise of ReviewLifecycle. *)
ImplementsLifecycle == Lifecycle!Spec
=============================================================================
