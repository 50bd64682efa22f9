-------------------------- MODULE ReviewRecordsProofs --------------------------
(***************************************************************************)
(* The records of a review.                                                *)
(*                                                                         *)
(* One compact review, for any lenses, findings, trees, forecasts and      *)
(* budgets: it is never wedged, approves only what was cleared, never      *)
(* leaves its scope, and keeps the promise of ReviewLifecycle.  Each       *)
(* handler changes few fields (the lemmas ...Effect), and from a valid     *)
(* record with three more facts (Untouched before the reviewers speak,     *)
(* InScope, Tries) leaves a valid one: the ...Meets lemmas go through the  *)
(* validator part by part.  The validator does not ask that a corrected    *)
(* record has an attempt on it, nor that the last one passed, because it   *)
(* also accepts records written before attempts were kept; an approval is  *)
(* earned because the handlers keep both (Tries).                          *)
(*                                                                         *)
(* The chains of schema v1, for any clones and sessions, killed or not:    *)
(* what is appended was compared with HEAD under the lock and replays on   *)
(* it, so that a chain only grows and loads. A v1 receipt, for any         *)
(* reviews, repositories and requests: what the validator has decided of a *)
(* target stands whatever the repository does, and it derives the target   *)
(* once more.                                                              *)
(*                                                                         *)
(* A v1 transaction, for any reports, causes, refuter outcomes and         *)
(* corrections: what a handler makes of a transaction is accepted by the   *)
(* validator and by the replay of the same operation.  The lemmas          *)
(* ...Effect say what a handler changes, the lemmas ...Pass and ...Passes  *)
(* that the result is replayable again.  One report is refused: the second *)
(* one on a defect that takes back the first (ReportsTwice).               *)
(***************************************************************************)
EXTENDS CompactReview, CompactStateProofs, LegacyStore, LegacyGate

---------------------------------------------------------------------------
(* The compact record: the inductive invariant. *)

InScope(s) ==
    ChangedPaths(s.initial.tree, s.current.tree) \subseteq GenesisPaths(s)

(* Nothing was produced yet. *)
Untouched(s) ==
    /\ s.current = s.initial /\ s.attempts = <<>> /\ s.cumulative = 0
    /\ s.reports = <<>> /\ s.severe = {} /\ s.classifications = <<>>
    /\ s.outcomes = <<>> /\ s.fix = {} /\ s.followUps = {}
    /\ s.proposed = Nil /\ s.actual = Nil /\ s.fixDelta = {} /\ s.checks = {}
    /\ s.evidence = {} /\ s.reason = {}

Tries(s) ==
    /\ Len(s.attempts) <= MaxCompactCorrectionAttempts
    /\ s.state = "correction_required" => Len(s.attempts) < MaxCompactCorrectionAttempts
    /\ Corrected(s) => s.attempts # <<>>
    /\ s.state \in {"validating", "approved"} /\ s.attempts # <<>> =>
          s.attempts[Len(s.attempts)].original /\ s.attempts[Len(s.attempts)].regression

RecordInv(s) ==
    /\ s \in CompactStates /\ s.lineage = Lineage
    /\ Valid(s) /\ InScope(s) /\ Tries(s)
    /\ s.state = "reviewing" => Untouched(s)

ReviewIInv ==
    /\ \A s, t \in review : s = t
    /\ \A s \in review : RecordInv(s)

---------------------------------------------------------------------------
(* Types. *)

ScopeTyped(s) ==
    /\ s.lineage \in Lineages /\ s.generation \in Nat \ {0} /\ s.recovery = {}
    /\ s.initial \in Snapshot /\ s.risk \in Risks /\ s.lenses \in SUBSET Lenses
    /\ s.lines \in Nat /\ s.budget \in Nat

FindingsTyped(s) ==
    /\ s.reports \in Partial(Lenses, SUBSET FindingIds) /\ s.severe \in SUBSET FindingIds
    /\ s.classifications \in Partial(FindingIds, Classification)
    /\ s.outcomes \in Partial(FindingIds, Outcomes)
    /\ s.fix \in SUBSET FindingIds /\ s.followUps \in SUBSET FindingIds

AttemptsTyped(s) ==
    /\ s.current \in Snapshot /\ s.fixDelta \in Optional(Snapshot)
    /\ s.actual \in Nat \cup {Nil} /\ s.checks \in Optional(BOOLEAN \X BOOLEAN)
    /\ s.attempts \in Seq(Attempt) /\ s.cumulative \in Nat

DecisionTyped(s) ==
    s.evidence \in Optional(EvidencePayloads) /\ s.reason \in Optional(Reasons)

(* A record is well formed when its groups of fields are.                  *)
LEMMA TypedByGroups ==
    ASSUME NEW s
    PROVE  s \in CompactStates <=>
               /\ Shaped(s) /\ ScopeTyped(s) /\ FindingsTyped(s) /\ AttemptsTyped(s)
               /\ DecisionTyped(s) /\ s.state \in States /\ s.proposed \in Nat \cup {Nil}
BY DEF CompactStates, Shaped, ScopeTyped, FindingsTyped, AttemptsTyped, DecisionTyped

(* The budget is a number of lines. *)
LEMMA BudgetIsNat ==
    ASSUME NEW lines \in Nat
    PROVE  CorrectionBudget(lines) \in Nat
<1>1. (lines \div 2) + (lines % 2) \in Nat
  OBVIOUS
<1> QED BY <1>1, CapAssumption DEF CorrectionBudget

(* What is taken of two trees is a well-formed snapshot.                   *)
LEMMA SnapshotTyped ==
    ASSUME NEW kind \in SnapshotKinds, NEW base \in Trees, NEW tree \in Trees,
           NEW ledger \in SUBSET FindingIds
    PROVE  SnapshotOf(kind, base, tree, ledger) \in Snapshot
BY DEF SnapshotOf, Snapshot, ChangedPaths

(* What one change and then another touch is touched by one of them.       *)
LEMMA ChangesCompose ==
    ASSUME NEW a, NEW b, NEW c
    PROVE  ChangedPaths(a, c) \subseteq ChangedPaths(a, b) \cup ChangedPaths(b, c)
BY DEF ChangedPaths

(* The rest of the types a handler leaves alone.                           *)
LEMMA SameStaysTyped ==
    ASSUME NEW s, NEW t, s \in CompactStates
    PROVE  /\ KeepsScope(s, t) => ScopeTyped(t)
           /\ SameFindings(s, t) => FindingsTyped(t)
           /\ SameAttempts(s, t) => AttemptsTyped(t)
           /\ SameDecision(s, t) => DecisionTyped(t)
BY TypedByGroups DEF KeepsScope, SameFindings, SameAttempts, SameDecision, ScopeTyped,
                     FindingsTyped, AttemptsTyped, DecisionTyped

---------------------------------------------------------------------------
(* Each handler leaves the invariant behind it, if the validator accepts.  *)

(* A review starts within its scope. *)
LEMMA StartKeeps ==
    ASSUME NEW target \in StartTargets, NEW kind \in {"current-changes", "base-diff"},
           NEW lenses \in SUBSET Lenses,
           Valid(NewCompactState(Lineage, 1, kind, target[1], target[2], lenses))
    PROVE  RecordInv(NewCompactState(Lineage, 1, kind, target[1], target[2], lenses))
<1> DEFINE t == NewCompactState(Lineage, 1, kind, target[1], target[2], lenses)
           tree == SnapshotOf(kind, target[1], target[2], {})
<1>1. target[1] \in Trees /\ target[2] \in Trees
  BY TargetsAssumption
<1>2. /\ DiffLines(target[1], target[2]) \in Nat
      /\ ClassifiedRisk(target[1], target[2]) \in Risks
  BY <1>1, DiffLinesAssumption, RiskAssumption
<1>3. CorrectionBudget(DiffLines(target[1], target[2])) \in Nat
  BY <1>2, BudgetIsNat
<1>4. tree \in Snapshot /\ tree.tree = target[2]
  BY <1>1, SnapshotTyped DEF SnapshotKinds, SnapshotOf
<1>5. t = [lineage |-> Lineage, generation |-> 1, recovery |-> {},
           state |-> "reviewing", initial |-> tree, current |-> tree,
           risk |-> ClassifiedRisk(target[1], target[2]), lenses |-> lenses,
           lines |-> DiffLines(target[1], target[2]),
           budget |-> CorrectionBudget(DiffLines(target[1], target[2])),
           reports |-> <<>>, severe |-> {},
           classifications |-> <<>>, outcomes |-> <<>>, fix |-> {}, followUps |-> {},
           proposed |-> Nil, actual |-> Nil, fixDelta |-> {}, checks |-> {},
           evidence |-> {}, reason |-> {},
           attempts |-> <<>>, cumulative |-> 0]
  BY DEF NewCompactState
<1> HIDE DEF tree, t
<1>6. \A A, B : <<>> \in Partial(A, B)
  <2> SUFFICES ASSUME NEW A, NEW B PROVE \E D \in SUBSET A : <<>> \in [D -> B]
    BY DEF Partial
  <2>1. <<>> \in [{} -> B]
    OBVIOUS
  <2> QED BY <2>1
<1>7. ScopeTyped(t)
  BY <1>2, <1>3, <1>4, <1>5, LineageAssumption DEF ScopeTyped
<1>8. FindingsTyped(t)
  BY <1>5, <1>6 DEF FindingsTyped
<1>9. AttemptsTyped(t) /\ DecisionTyped(t)
  BY <1>4, <1>5 DEF AttemptsTyped, DecisionTyped, Optional
<1>10. Shaped(t) /\ t.state \in States /\ t.proposed \in Nat \cup {Nil}
  BY <1>5 DEF Shaped, States
<1>11. t \in CompactStates
  BY <1>7, <1>8, <1>9, <1>10, TypedByGroups
<1>12. Untouched(t) /\ ~ Corrected(t) /\ t.state = "reviewing"
  BY <1>5 DEF Untouched, Corrected
<1>13. InScope(t)
  BY <1>5 DEF InScope, ChangedPaths
<1>14. Tries(t)
  BY <1>5, <1>12 DEF Tries, MaxCompactCorrectionAttempts
<1> QED BY <1>5, <1>11, <1>12, <1>13, <1>14 DEF RecordInv, t

(* Every finding is routed, the severe ones as the validator asks.         *)
LEMMA RoutedFits ==
    ASSUME NEW s, NEW lenses, NEW in \in ReviewInput(lenses),
           CompleteReviewAllowed(s, in), NEW f, NEW followUps
    PROVE  /\ Routed(in, f) \in Outcomes
           /\ f \notin in.severe => Routed(in, f) = "info"
           /\ f \in in.severe /\ (Routed(in, f) = "info" => f \in followUps)
              => OutcomeFits(in.evidence[f], Routed(in, f), f \in followUps)
<1>1. CASE f \notin in.severe
  BY <1>1 DEF Routed, Outcomes
<1>2. CASE f \in in.severe
  <2> DEFINE e == in.evidence[f]
  <2>1. e \in Classification
    BY <1>2 DEF ReviewInput, Partial
  <2>2. e.class \in Classes /\ e.causality \in Causalities
    BY <2>1 DEF Classification
  <2>3. NeedsRefuter(e) => in.refuter[f] \in RefuterOutcomes
    BY <1>2 DEF ReviewInput, Partial, CompleteReviewAllowed
  <2> HIDE DEF e
  <2>4. CASE e.class = "insufficient"
    <3>1. Routed(in, f) = "inconclusive"
      BY <1>2, <2>4 DEF Routed, e, NeedsRefuter
    <3> QED BY <1>2, <2>4, <3>1 DEF Outcomes, OutcomeFits, e, NeedsRefuter
  <2>5. CASE e.class # "insufficient" /\ e.causality = "elsewhere"
    <3>1. Routed(in, f) = "info"
      BY <1>2, <2>5 DEF Routed, e, NeedsRefuter
    <3> QED BY <1>2, <2>5, <3>1 DEF Outcomes, OutcomeFits, e, NeedsRefuter
  <2>6. CASE e.class # "insufficient" /\ e.causality = "unknown"
    <3>1. Routed(in, f) = "inconclusive"
      BY <1>2, <2>6 DEF Routed, e, NeedsRefuter
    <3> QED BY <1>2, <2>6, <3>1 DEF Outcomes, OutcomeFits, e, NeedsRefuter
  <2>7. CASE e.class = "deterministic" /\ e.causality = "candidate"
    <3>1. Routed(in, f) = "corroborated"
      BY <1>2, <2>7 DEF Routed, e, NeedsRefuter
    <3> QED BY <1>2, <2>7, <3>1 DEF Outcomes, OutcomeFits, e, NeedsRefuter
  <2>8. CASE NeedsRefuter(e)
    <3>1. Routed(in, f) = in.refuter[f]
      BY <1>2, <2>8 DEF Routed, e, NeedsRefuter
    <3> QED BY <1>2, <2>3, <2>8, <3>1 DEF Outcomes, RefuterOutcomes, OutcomeFits, e,
                                         NeedsRefuter
  <2> QED BY <2>2, <2>4, <2>5, <2>6, <2>7, <2>8 DEF Classes, Causalities, NeedsRefuter
<1> QED BY <1>1, <1>2

(* CompleteReview leaves the invariant behind it. *)
LEMMA ReviewKeepsInv ==
    ASSUME NEW s, RecordInv(s), NEW in \in ReviewInput(s.lenses),
           CompleteReviewAllowed(s, in), Valid(ReviewCompleted(s, in))
    PROVE  RecordInv(ReviewCompleted(s, in))
<1> DEFINE t == ReviewCompleted(s, in)
<1>1. Shaped(s) /\ s \in CompactStates /\ s.lenses \in SUBSET Lenses
  BY TypedByGroups DEF RecordInv, ScopeTyped
<1>2. /\ Shaped(t) /\ KeepsScope(s, t) /\ SameAttempts(s, t) /\ SameDecision(s, t)
      /\ t.proposed = s.proposed
      /\ t.reports = in.reports /\ t.severe = in.severe
      /\ t.classifications = in.evidence
      /\ t.outcomes = [f \in Findings(in.reports) |-> Routed(in, f)]
      /\ t.fix = {f \in in.severe : t.outcomes[f] = "corroborated"}
      /\ t.followUps = {f \in in.severe : t.outcomes[f] = "info"}
      /\ t.state \in {"escalated", "correction_required", "validating"}
  BY <1>1, ReviewEffect
<1>3. /\ in.reports \in [s.lenses -> SUBSET FindingIds]
      /\ in.severe \in SUBSET FindingIds
      /\ in.evidence \in Partial(FindingIds, Classification)
  BY DEF ReviewInput
<1>4. Findings(in.reports) \in SUBSET FindingIds
  BY <1>3 DEF Findings
<1> HIDE DEF t
<1>5. FindingsTyped(t)
  <2>1. t.reports \in Partial(Lenses, SUBSET FindingIds)
    BY <1>1, <1>2, <1>3 DEF Partial
  <2>2. t.outcomes \in [Findings(in.reports) -> Outcomes]
    BY <1>2, RoutedFits
  <2>3. t.outcomes \in Partial(FindingIds, Outcomes)
    BY <1>4, <2>2 DEF Partial
  <2> QED BY <1>2, <1>3, <2>1, <2>3 DEF FindingsTyped
<1>6. ScopeTyped(t) /\ AttemptsTyped(t) /\ DecisionTyped(t)
  BY <1>1, <1>2, SameStaysTyped
<1>7. t.state \in States /\ t.proposed \in Nat \cup {Nil}
  BY <1>1, <1>2, TypedByGroups DEF States
<1>8. t \in CompactStates
  BY <1>2, <1>5, <1>6, <1>7, TypedByGroups
<1>9. Untouched(s)
  BY DEF RecordInv, CompleteReviewAllowed
<1>10. t.attempts = <<>> /\ ~ Corrected(t)
  BY <1>2, <1>9 DEF SameAttempts, KeepsScope, Untouched, Corrected
<1>11. Tries(t)
  BY <1>10 DEF Tries, MaxCompactCorrectionAttempts
<1>12. InScope(t) /\ t.lineage = Lineage
  BY <1>2 DEF InScope, RecordInv, SameAttempts, KeepsScope, GenesisPaths
<1> QED BY <1>2, <1>8, <1>11, <1>12 DEF RecordInv, t

(* Withdrawing leaves the invariant behind it. *)
LEMMA WithdrawalKeepsInv ==
    ASSUME NEW s, RecordInv(s), PristineReviewing(s), NEW reason \in Reasons
    PROVE  RecordInv(Invalidated(s, reason))
<1> DEFINE t == Invalidated(s, reason)
<1>1. Shaped(s) /\ s \in CompactStates /\ Untouched(s)
  BY TypedByGroups DEF RecordInv, PristineReviewing
<1>2. /\ Shaped(t) /\ KeepsScope(s, t) /\ SameFindings(s, t) /\ SameAttempts(s, t)
      /\ t.state = "invalidated" /\ t.proposed = s.proposed
      /\ t.evidence = s.evidence /\ t.reason = {reason}
  BY <1>1, WithdrawalEffect
<1>3. Valid(t)
  BY <1>1, WithdrawnIsValid DEF RecordInv
<1> HIDE DEF t
<1>4. ScopeTyped(t) /\ FindingsTyped(t) /\ AttemptsTyped(t)
  BY <1>1, <1>2, SameStaysTyped
<1>5. DecisionTyped(t)
  BY <1>1, <1>2, TypedByGroups DEF DecisionTyped, Optional
<1>6. t \in CompactStates
  BY <1>1, <1>2, <1>4, <1>5, TypedByGroups DEF States
<1>7. t.attempts = <<>> /\ ~ Corrected(t)
  BY <1>1, <1>2 DEF SameAttempts, KeepsScope, Untouched, Corrected
<1>8. Tries(t)
  BY <1>7 DEF Tries, MaxCompactCorrectionAttempts
<1>9. InScope(t) /\ t.lineage = Lineage
  BY <1>2 DEF InScope, RecordInv, SameAttempts, KeepsScope, GenesisPaths
<1> QED BY <1>2, <1>3, <1>6, <1>8, <1>9 DEF RecordInv, t

(* A forecast leaves the invariant behind it. *)
LEMMA ForecastKeepsInv ==
    ASSUME NEW s, RecordInv(s), NEW lines \in Forecasts,
           BeginCorrectionAllowed(s, lines), Valid(CorrectionBegun(s, lines))
    PROVE  RecordInv(CorrectionBegun(s, lines))
<1> DEFINE t == CorrectionBegun(s, lines)
<1>1. Shaped(s) /\ s \in CompactStates /\ s.state = "correction_required"
  BY TypedByGroups DEF RecordInv, BeginCorrectionAllowed
<1>2. /\ Shaped(t) /\ KeepsScope(s, t) /\ SameFindings(s, t) /\ SameAttempts(s, t)
      /\ SameDecision(s, t) /\ t.proposed = lines
      /\ t.state \in {"escalated", "correction_required"}
  BY <1>1, ForecastEffect
<1> HIDE DEF t
<1>3. lines \in Nat
  BY ForecastsAssumption DEF BeginCorrectionAllowed
<1>4. t \in CompactStates
  BY <1>1, <1>2, <1>3, SameStaysTyped, TypedByGroups DEF States
<1>5. Corrected(t) <=> Corrected(s)
  BY <1>2 DEF SameAttempts, KeepsScope, Corrected
<1>6. Tries(t)
  BY <1>1, <1>2, <1>5 DEF Tries, RecordInv, SameAttempts
<1>7. InScope(t) /\ t.lineage = Lineage
  BY <1>2 DEF InScope, RecordInv, SameAttempts, KeepsScope, GenesisPaths
<1> QED BY <1>2, <1>4, <1>6, <1>7 DEF RecordInv, t

(* The final verification leaves the invariant behind it.                  *)
LEMMA VerificationKeepsInv ==
    ASSUME NEW s, RecordInv(s), s.state = "validating",
           NEW payload \in EvidencePayloads, NEW approved \in BOOLEAN,
           Valid(Verified(s, payload, approved))
    PROVE  RecordInv(Verified(s, payload, approved))
<1> DEFINE t == Verified(s, payload, approved)
<1>1. Shaped(s) /\ s \in CompactStates
  BY TypedByGroups DEF RecordInv
<1>2. /\ Shaped(t) /\ KeepsScope(s, t) /\ SameFindings(s, t) /\ SameAttempts(s, t)
      /\ t.proposed = s.proposed /\ t.reason = s.reason /\ t.evidence = {payload}
      /\ t.state \in {"approved", "escalated"}
  BY <1>1, VerificationEffect
<1> HIDE DEF t
<1>3. DecisionTyped(t)
  BY <1>1, <1>2, TypedByGroups DEF DecisionTyped, Optional
<1>4. t \in CompactStates
  BY <1>1, <1>2, <1>3, SameStaysTyped, TypedByGroups DEF States
<1>5. Corrected(t) <=> Corrected(s)
  BY <1>2 DEF SameAttempts, KeepsScope, Corrected
<1>6. Tries(t)
  BY <1>2, <1>5 DEF Tries, RecordInv, SameAttempts
<1>7. InScope(t) /\ t.lineage = Lineage
  BY <1>2 DEF InScope, RecordInv, SameAttempts, KeepsScope, GenesisPaths
<1> QED BY <1>2, <1>4, <1>6, <1>7 DEF RecordInv, t

(* An attempt leaves the invariant behind it: it starts from the current   *)
(* tree and stays in the genesis paths, and the review is open or approved *)
(* after it only if its checks passed.                                     *)
LEMMA CorrectionKeepsInv ==
    ASSUME NEW s, RecordInv(s), NEW tree \in Trees,
           NEW original \in BOOLEAN, NEW regression \in BOOLEAN,
           CompleteCorrectionAllowed(s, SnapshotOf("fix-diff", s.current.tree, tree, s.fix)),
           Valid(CorrectionCompleted(s, SnapshotOf("fix-diff", s.current.tree, tree, s.fix),
                                     original, regression))
    PROVE  RecordInv(CorrectionCompleted(s,
                         SnapshotOf("fix-diff", s.current.tree, tree, s.fix),
                         original, regression))
<1> DEFINE snapshot == SnapshotOf("fix-diff", s.current.tree, tree, s.fix)
           t == CorrectionCompleted(s, snapshot, original, regression)
           lines == DiffLines(snapshot.base, snapshot.tree)
           tried == Tried(s, snapshot, original, regression)
<1>1. /\ Shaped(s) /\ s \in CompactStates /\ s.state = "correction_required"
      /\ AttemptsTyped(s) /\ FindingsTyped(s) /\ s.proposed \in Nat \cup {Nil}
  BY TypedByGroups DEF RecordInv, CompleteCorrectionAllowed
<1>2. s.current.tree \in Trees /\ s.fix \in SUBSET FindingIds
  BY <1>1 DEF AttemptsTyped, FindingsTyped, Snapshot
<1>3. /\ snapshot \in Snapshot /\ snapshot.base = s.current.tree /\ snapshot.tree = tree
      /\ snapshot.paths = ChangedPaths(s.current.tree, tree)
  BY <1>2, SnapshotTyped DEF SnapshotOf, SnapshotKinds
<1>4. lines \in Nat
  BY <1>2, <1>3, DiffLinesAssumption
<1>5. s.proposed \in Nat \ {0} /\ snapshot.paths \subseteq GenesisPaths(s)
  BY <1>1 DEF CompleteCorrectionAllowed, RecordInv, Valid, ValidLines, Nil
<1>6. tried \in Attempt /\ tried.original = original /\ tried.regression = regression
  BY <1>3, <1>4, <1>5 DEF Tried, Attempt
<1>7. LeftByCorrection(s, t, snapshot, original, regression)
  BY <1>1, CorrectionEffect
<1> HIDE DEF snapshot, t, lines, tried
<1>8. /\ Len(s.attempts) \in Nat
      /\ t.attempts \in Seq(Attempt) /\ Len(t.attempts) = Len(s.attempts) + 1
      /\ t.attempts[Len(t.attempts)] = tried
  BY <1>1, <1>6, <1>7, LenProperties, AppendProperties
     DEF AttemptsTyped, LeftByCorrection, tried
<1>9. AttemptsTyped(t) /\ t.proposed \in Nat \cup {Nil}
  <2>1. t.current \in Snapshot /\ t.cumulative \in Nat
    BY <1>1, <1>3, <1>4, <1>7 DEF AttemptsTyped, LeftByCorrection, lines
  <2>2. \/ /\ t.actual = lines /\ t.fixDelta = {snapshot}
           /\ t.checks = {<<original, regression>>} /\ t.proposed = s.proposed
        \/ t.actual = Nil /\ t.fixDelta = {} /\ t.checks = {} /\ t.proposed = Nil
    BY <1>7 DEF LeftByCorrection, Measured, lines
  <2>3. {<<original, regression>>} \in Optional(BOOLEAN \X BOOLEAN)
    BY DEF Optional
  <2>4. {} \in Optional(BOOLEAN \X BOOLEAN) /\ {} \in Optional(Snapshot)
    BY DEF Optional
  <2>5. {snapshot} \in Optional(Snapshot)
    BY <1>3 DEF Optional
  <2> QED BY <1>1, <1>4, <1>8, <2>1, <2>2, <2>3, <2>4, <2>5 DEF AttemptsTyped
<1>10. t \in CompactStates
  BY <1>1, <1>7, <1>9, SameStaysTyped, TypedByGroups DEF States, LeftByCorrection
<1>11. Tries(t)
  <2>1. Len(s.attempts) < 3
    BY <1>1 DEF RecordInv, Tries, MaxCompactCorrectionAttempts
  <2>2. Len(t.attempts) <= 3 /\ t.attempts # <<>>
    BY <1>8, <2>1
  <2>3. t.state = "correction_required" => Len(t.attempts) < 3
    BY <1>7, <1>8, <2>2 DEF MaxCompactCorrectionAttempts, LeftByCorrection
  <2>4. t.state \in {"validating", "approved"} => original /\ regression
    BY <1>7 DEF LeftByCorrection, MaxCompactCorrectionAttempts
  <2> QED BY <1>6, <1>8, <2>2, <2>3, <2>4 DEF Tries, MaxCompactCorrectionAttempts
<1>12. InScope(t)
  <2>1. /\ t.initial = s.initial /\ t.current.tree = tree
    BY <1>3, <1>7 DEF KeepsScope, LeftByCorrection
  <2> QED BY <1>3, <1>5, <2>1, ChangesCompose DEF InScope, RecordInv, GenesisPaths
<1> QED BY <1>7, <1>10, <1>11, <1>12 DEF RecordInv, KeepsScope, LeftByCorrection, t,
                                             snapshot

---------------------------------------------------------------------------
(* The invariant. *)

(* Nobody has started the review. *)
LEMMA ReviewInit == Init => ReviewIInv
BY DEF Init, ReviewIInv

(* A step replaces the record by one its handler left, or changes nothing. *)
LEMMA ReviewStep == ReviewIInv /\ [Next]_vars => ReviewIInv'
<1> SUFFICES ASSUME ReviewIInv, [Next]_vars PROVE ReviewIInv'
  OBVIOUS
<1>0. ASSUME NEW t, RecordInv(t), review' = {t} PROVE ReviewIInv'
  BY <1>0 DEF ReviewIInv, RecordInv
<1>1. CASE Start
  <2>1. PICK target \in StartTargets, kind \in {"current-changes", "base-diff"},
             lenses \in SUBSET Lenses :
             Becomes(NewCompactState(Lineage, 1, kind, target[1], target[2], lenses))
    BY <1>1 DEF Start
  <2> QED BY <1>0, <2>1, StartKeeps DEF Becomes
<1>2. CASE CompleteReview
  <2>1. PICK s \in review : \E in \in ReviewInput(s.lenses) :
             CompleteReviewAllowed(s, in) /\ Becomes(ReviewCompleted(s, in))
    BY <1>2 DEF CompleteReview
  <2>2. PICK in \in ReviewInput(s.lenses) :
             CompleteReviewAllowed(s, in) /\ Becomes(ReviewCompleted(s, in))
    BY <2>1
  <2> QED BY <1>0, <2>2, ReviewKeepsInv DEF Becomes, ReviewIInv
<1>3. CASE Invalidate
  <2>1. PICK s \in review, reason \in Reasons :
             PristineReviewing(s) /\ review' = {Invalidated(s, reason)}
    BY <1>3 DEF Invalidate
  <2> QED BY <1>0, <2>1, WithdrawalKeepsInv DEF ReviewIInv
<1>4. CASE BeginCorrection
  <2>1. PICK s \in review, lines \in Forecasts :
             BeginCorrectionAllowed(s, lines) /\ Becomes(CorrectionBegun(s, lines))
    BY <1>4 DEF BeginCorrection
  <2> QED BY <1>0, <2>1, ForecastKeepsInv DEF Becomes, ReviewIInv
<1>5. CASE CompleteCorrection
  <2>1. PICK s \in review, tree \in Trees, original \in BOOLEAN, regression \in BOOLEAN :
             LET snapshot == SnapshotOf("fix-diff", s.current.tree, tree, s.fix) IN
             /\ CompleteCorrectionAllowed(s, snapshot)
             /\ Becomes(CorrectionCompleted(s, snapshot, original, regression))
    BY <1>5 DEF CompleteCorrection
  <2> QED BY <1>0, <2>1, CorrectionKeepsInv DEF Becomes, ReviewIInv
<1>6. CASE CompleteVerification
  <2>1. PICK s \in review, payload \in EvidencePayloads, approved \in BOOLEAN :
             s.state = "validating" /\ Becomes(Verified(s, payload, approved))
    BY <1>6 DEF CompleteVerification
  <2> QED BY <1>0, <2>1, VerificationKeepsInv DEF Becomes, ReviewIInv
<1>7. CASE Finished \/ UNCHANGED vars
  BY <1>7 DEF Finished, vars, ReviewIInv, RecordInv
<1> QED BY <1>1, <1>2, <1>3, <1>4, <1>5, <1>6, <1>7 DEF Next

(* Every record the commands leave is well formed and passes the           *)
(* validator, withdrawn ones included, which no command validates.         *)
THEOREM ReviewInvariance == Spec => []ReviewIInv
BY ReviewInit, ReviewStep, PTL DEF Spec

(* Records keep their form for any input the commands accept.              *)
THEOREM ReviewTypeCorrectness == Spec => []TypeOK
<1>1. ReviewIInv => TypeOK
  BY DEF ReviewIInv, RecordInv, TypeOK
<1> QED BY <1>1, ReviewInvariance, PTL

(* However many attempts a correction takes, what is approved differs from *)
(* the reviewed candidate only inside the paths the review was opened on.  *)
THEOREM ScopeSafety == Spec => []CorrectionStaysInScope
<1>1. ReviewIInv => CorrectionStaysInScope
  BY DEF ReviewIInv, RecordInv, InScope, CorrectionStaysInScope
<1> QED BY <1>1, ReviewInvariance, PTL

(* A record in a final state that is approved has cleared every severe     *)
(* finding.                                                                *)
LEMMA EarnedByInvariant ==
    ASSUME NEW s, RecordInv(s), s.state = "approved", NEW f \in s.severe
    PROVE  \/ s.outcomes[f] = "refuted"
           \/ s.outcomes[f] = "info" /\ s.classifications[f].causality = "elsewhere"
           \/ /\ f \in s.fix
              /\ s.attempts # <<>>
              /\ LET last == s.attempts[Len(s.attempts)] IN
                 /\ last.original /\ last.regression
                 /\ f \in last.snapshot.ledger
                 /\ last.snapshot.tree = s.current.tree
<1> DEFINE e == s.classifications[f]
<1>1. ValidFindings(s) /\ ValidCorrection(s) /\ Tries(s) /\ s \in CompactStates
  BY DEF RecordInv, Valid
<1>2. /\ OutcomeFits(e, s.outcomes[f], f \in s.followUps)
      /\ s.outcomes[f] # "inconclusive"
      /\ s.outcomes[f] = "corroborated" => f \in s.fix
      /\ f \in DOMAIN s.classifications
  BY <1>1 DEF ValidFindings
<1>3. e.class \in Classes /\ e.causality \in Causalities
  BY <1>1, <1>2, TypedByGroups DEF FindingsTyped, Partial, Classification
<1> HIDE DEF e
<1>4. \/ e.class = "insufficient"
      \/ e.class # "insufficient" /\ e.causality = "elsewhere"
      \/ e.class # "insufficient" /\ e.causality = "unknown"
      \/ e.class = "deterministic" /\ e.causality = "candidate"
      \/ NeedsRefuter(e)
  BY <1>3 DEF Classes, Causalities, NeedsRefuter
<1>5. CASE e.class = "insufficient" \/ (e.class # "insufficient" /\ e.causality = "unknown")
  BY <1>2, <1>5 DEF OutcomeFits, NeedsRefuter
<1>6. CASE e.class # "insufficient" /\ e.causality = "elsewhere"
  BY <1>2, <1>6 DEF OutcomeFits, NeedsRefuter, e
<1>7. CASE \/ e.class = "deterministic" /\ e.causality = "candidate"
           \/ NeedsRefuter(e)
  <2>1. s.outcomes[f] \in {"corroborated", "refuted"}
    BY <1>2, <1>7 DEF OutcomeFits, NeedsRefuter, RefuterOutcomes, Outcomes
  <2>2. CASE s.outcomes[f] = "corroborated"
    <3>1. f \in s.fix
      BY <1>2, <2>2
    <3>2. Corrected(s)
      BY <1>1, <3>1 DEF ValidCorrection, EscalatedBetweenAttempts, ValidUncorrected
    <3>3. s.attempts # <<>>
      BY <1>1, <3>2 DEF Tries
    <3>4. s.attempts \in Seq(Attempt)
      BY <1>1, TypedByGroups DEF AttemptsTyped
    <3>5. Len(s.attempts) \in DOMAIN s.attempts
      BY <3>3, <3>4, EmptySeq, LenProperties
    <3>6. /\ s.attempts[Len(s.attempts)].snapshot = s.current
          /\ s.attempts[Len(s.attempts)].snapshot.ledger = s.fix
      BY <1>1, <3>3, <3>5 DEF ValidCorrection, ValidAttempts
    <3> QED BY <1>1, <3>1, <3>3, <3>6 DEF Tries
  <2> QED BY <2>1, <2>2
<1> QED BY <1>4, <1>5, <1>6, <1>7

(* No approval while a finding is open.                                    *)
THEOREM ApprovalSafety == Spec => []ApprovalIsEarned
<1>1. ReviewIInv => ApprovalIsEarned
  BY EarnedByInvariant DEF ReviewIInv, ApprovalIsEarned
<1> QED BY <1>1, ReviewInvariance, PTL

---------------------------------------------------------------------------
(* The record keeps the promise of the lifecycle. *)

Shown(s) == IF s.state = "correction_required" THEN "correcting" ELSE s.state

(* What the lifecycle sees of a record. *)
LEMMA SeenNow ==
    ASSUME NEW s, review = {s}
    PROVE  /\ Status = Shown(s)
           /\ Budget = s.budget
           /\ Spent = s.cumulative
           /\ AttemptsMade = Len(s.attempts)
<1>1. (CHOOSE r \in review : TRUE) = s /\ review # {}
  OBVIOUS
<1> QED BY <1>1 DEF Status, Budget, Spent, AttemptsMade, Field, Shown

(* And of the record after it. *)
LEMMA SeenNext ==
    ASSUME NEW s, review' = {s}
    PROVE  /\ Status' = Shown(s)
           /\ Budget' = s.budget
           /\ Spent' = s.cumulative
           /\ AttemptsMade' = Len(s.attempts)
<1>1. (CHOOSE r \in review' : TRUE) = s /\ review' # {}
  OBVIOUS
<1> QED BY <1>1 DEF Status, Budget, Spent, AttemptsMade, Field, Shown

(* Before the review there is nothing to see. *)
LEMMA SeenBefore ==
    ASSUME review = {}
    PROVE  /\ Status = "absent"
           /\ Budget = 0
           /\ Spent = 0
           /\ AttemptsMade = 0
BY DEF Status, Budget, Spent, AttemptsMade, Field

(* How a handler moves what is seen: a decision, or an attempt.            *)
Decides(s, t) ==
    /\ t.budget = s.budget /\ t.cumulative = s.cumulative
    /\ Len(t.attempts) = Len(s.attempts)
    /\ \/ Shown(t) = Shown(s)
       \/ /\ Shown(s) = "reviewing"
          /\ Shown(t) \in {"correcting", "validating", "escalated", "invalidated"}
       \/ Shown(s) = "correcting" /\ Shown(t) = "escalated"
       \/ Shown(s) = "validating" /\ Shown(t) \in {"approved", "escalated"}

Attempts(s, t) ==
    /\ Shown(s) = "correcting"
    /\ t.budget = s.budget
    /\ t.cumulative \in Nat /\ t.cumulative >= s.cumulative
    /\ Len(t.attempts) = Len(s.attempts) + 1
    /\ \/ Shown(t) = "escalated"
       \/ Shown(t) = "validating" /\ t.cumulative <= s.budget
       \/ Shown(t) = "correcting" /\ t.cumulative <= s.budget /\ Len(t.attempts) < 3

(* Both are steps of the lifecycle, or change nothing of it.               *)
LEMMA MovesAreAbstract ==
    ASSUME NEW s, NEW t, review = {s}, review' = {t}, Decides(s, t) \/ Attempts(s, t)
    PROVE  [Lifecycle!Next]_Lifecycle!vars
<1>1. /\ Status = Shown(s) /\ Budget = s.budget
      /\ Spent = s.cumulative /\ AttemptsMade = Len(s.attempts)
  BY SeenNow
<1>2. /\ Status' = Shown(t) /\ Budget' = t.budget
      /\ Spent' = t.cumulative /\ AttemptsMade' = Len(t.attempts)
  BY SeenNext
<1>3. CASE Decides(s, t) /\ Shown(t) = Shown(s)
  <2>1. UNCHANGED <<Status, Budget, Spent, AttemptsMade>>
    BY <1>1, <1>2, <1>3 DEF Decides
  <2> QED BY <2>1 DEF Lifecycle!vars
<1>4. CASE Decides(s, t) /\ Shown(t) # Shown(s)
  <2>1. /\ UNCHANGED <<Budget, Spent, AttemptsMade>>
        /\ \/ /\ Status = "reviewing"
              /\ Status' \in {"correcting", "validating", "escalated"}
           \/ Status = "reviewing" /\ Status' = "invalidated"
           \/ Status = "correcting" /\ Status' = "escalated"
           \/ Status = "validating" /\ Status' \in {"approved", "escalated"}
    BY <1>1, <1>2, <1>4 DEF Decides
  <2>2. Lifecycle!Route \/ Lifecycle!Withdraw \/ Lifecycle!GiveUp \/ Lifecycle!Decide
    BY <2>1 DEF Lifecycle!Route, Lifecycle!Withdraw, Lifecycle!GiveUp, Lifecycle!Decide
  <2> QED BY <2>2 DEF Lifecycle!Next
<1>5. CASE Attempts(s, t)
  <2>1. /\ Status = "correcting" /\ UNCHANGED Budget
        /\ Spent' \in Nat /\ Spent' >= Spent /\ AttemptsMade' = AttemptsMade + 1
        /\ \/ Status' = "escalated"
           \/ Status' = "validating" /\ Spent' <= Budget
           \/ Status' = "correcting" /\ Spent' <= Budget /\ AttemptsMade' < 3
    BY <1>1, <1>2, <1>5 DEF Attempts
  <2>2. Lifecycle!Attempt
    BY <2>1 DEF Lifecycle!Attempt, Lifecycle!MaxTries
  <2> QED BY <2>2 DEF Lifecycle!Next
<1> QED BY <1>3, <1>4, <1>5

(* An attempt is a step of the lifecycle: it spends what it changed, and   *)
(* stays open or succeeds only inside the budget.                          *)
LEMMA CorrectionIsAbstract ==
    ASSUME NEW s, RecordInv(s), review = {s}, s.state = "correction_required",
           NEW tree \in Trees, NEW original \in BOOLEAN, NEW regression \in BOOLEAN,
           LET snapshot == SnapshotOf("fix-diff", s.current.tree, tree, s.fix) IN
           review' = {CorrectionCompleted(s, snapshot, original, regression)}
    PROVE  [Lifecycle!Next]_Lifecycle!vars
<1> DEFINE snapshot == SnapshotOf("fix-diff", s.current.tree, tree, s.fix)
           t == CorrectionCompleted(s, snapshot, original, regression)
           lines == DiffLines(snapshot.base, snapshot.tree)
<1>1. Shaped(s) /\ AttemptsTyped(s) /\ ScopeTyped(s)
  BY TypedByGroups DEF RecordInv
<1>2. LeftByCorrection(s, t, snapshot, original, regression)
  BY <1>1, CorrectionEffect
<1>3. lines \in Nat /\ s.cumulative \in Nat /\ s.budget \in Nat
  BY <1>1, DiffLinesAssumption DEF AttemptsTyped, ScopeTyped, Snapshot, SnapshotOf
<1>4. review' = {t}
  OBVIOUS
<1> HIDE DEF snapshot, t, lines
<1>5. /\ t.budget = s.budget /\ t.cumulative = s.cumulative + lines
      /\ \A S : s.attempts \in Seq(S) =>
            Len(t.attempts) = Len(s.attempts) + 1 /\ Len(s.attempts) \in Nat
  BY <1>2, LenProperties DEF LeftByCorrection, KeepsScope, lines
<1>6. Len(t.attempts) = Len(s.attempts) + 1 /\ Len(s.attempts) \in Nat
  BY <1>1, <1>5 DEF AttemptsTyped
<1>7. \/ t.state = "escalated"
      \/ t.state = "validating" /\ t.cumulative <= s.budget
      \/ /\ t.state = "correction_required" /\ t.cumulative <= s.budget
         /\ Len(t.attempts) < 3
  BY <1>2, <1>3, <1>5, <1>6 DEF LeftByCorrection, MaxCompactCorrectionAttempts
<1>8. Attempts(s, t)
  BY <1>3, <1>5, <1>6, <1>7 DEF Attempts, Shown
<1> QED BY <1>4, <1>8, MovesAreAbstract

(* Each step of a review is one of the lifecycle, or hidden from it.       *)
LEMMA StepsAreAbstract ==
    ReviewIInv /\ [Next]_vars => [Lifecycle!Next]_Lifecycle!vars
<1> SUFFICES ASSUME ReviewIInv, [Next]_vars
             PROVE  [Lifecycle!Next]_Lifecycle!vars
  OBVIOUS
<1>0. ASSUME NEW s \in review
      PROVE  /\ review = {s} /\ Shaped(s) /\ RecordInv(s)
             /\ s.state \in States
  BY TypedByGroups DEF ReviewIInv, RecordInv
<1>1. CASE Start
  <2>1. PICK target \in StartTargets, kind \in {"current-changes", "base-diff"},
             lenses \in SUBSET Lenses :
             Becomes(NewCompactState(Lineage, 1, kind, target[1], target[2], lenses))
    BY <1>1 DEF Start
  <2> DEFINE t == NewCompactState(Lineage, 1, kind, target[1], target[2], lenses)
  <2>2. review = {} /\ review' = {t}
    BY <1>1, <2>1 DEF Start, Becomes
  <2>3. RecordInv(t)
    BY <2>1, StartKeeps DEF Becomes
  <2>4. t.state = "reviewing" /\ t.cumulative = 0 /\ Len(t.attempts) = 0
    BY DEF NewCompactState
  <2>5. t.budget \in Nat
    BY <2>3, TypedByGroups DEF RecordInv, ScopeTyped
  <2> HIDE DEF t
  <2>6. Lifecycle!Freeze
    BY <2>2, <2>4, <2>5, SeenBefore, SeenNext DEF Lifecycle!Freeze, Shown
  <2> QED BY <2>6 DEF Lifecycle!Next
<1>2. CASE CompleteReview
  <2>1. PICK s \in review : \E in \in ReviewInput(s.lenses) :
             CompleteReviewAllowed(s, in) /\ Becomes(ReviewCompleted(s, in))
    BY <1>2 DEF CompleteReview
  <2>2. PICK in \in ReviewInput(s.lenses) :
             CompleteReviewAllowed(s, in) /\ Becomes(ReviewCompleted(s, in))
    BY <2>1
  <2> DEFINE t == ReviewCompleted(s, in)
  <2>3. /\ KeepsScope(s, t) /\ SameAttempts(s, t) /\ review' = {t}
        /\ t.state \in {"escalated", "correction_required", "validating"}
    BY <1>0, <2>2, ReviewEffect DEF Becomes
  <2> HIDE DEF t
  <2>4. Decides(s, t)
    BY <2>2, <2>3 DEF Decides, Shown, KeepsScope, SameAttempts, CompleteReviewAllowed
  <2> QED BY <1>0, <2>3, <2>4, MovesAreAbstract
<1>3. CASE Invalidate
  <2>1. PICK s \in review, reason \in Reasons :
             PristineReviewing(s) /\ review' = {Invalidated(s, reason)}
    BY <1>3 DEF Invalidate
  <2> DEFINE t == Invalidated(s, reason)
  <2>2. KeepsScope(s, t) /\ SameAttempts(s, t) /\ t.state = "invalidated"
    BY <1>0, WithdrawalEffect
  <2> HIDE DEF t
  <2>3. Decides(s, t)
    BY <2>1, <2>2 DEF Decides, Shown, KeepsScope, SameAttempts, PristineReviewing
  <2> QED BY <1>0, <2>1, <2>3, MovesAreAbstract DEF t
<1>4. CASE BeginCorrection
  <2>1. PICK s \in review, lines \in Forecasts :
             BeginCorrectionAllowed(s, lines) /\ Becomes(CorrectionBegun(s, lines))
    BY <1>4 DEF BeginCorrection
  <2> DEFINE t == CorrectionBegun(s, lines)
  <2>2. /\ KeepsScope(s, t) /\ SameAttempts(s, t) /\ review' = {t}
        /\ t.state \in {"escalated", s.state}
    BY <1>0, <2>1, ForecastEffect DEF Becomes
  <2> HIDE DEF t
  <2>3. Decides(s, t)
    BY <2>1, <2>2 DEF Decides, Shown, KeepsScope, SameAttempts, BeginCorrectionAllowed
  <2> QED BY <1>0, <2>2, <2>3, MovesAreAbstract
<1>5. CASE CompleteCorrection
  <2>1. PICK s \in review, tree \in Trees, original \in BOOLEAN, regression \in BOOLEAN :
             LET snapshot == SnapshotOf("fix-diff", s.current.tree, tree, s.fix) IN
             /\ CompleteCorrectionAllowed(s, snapshot)
             /\ Becomes(CorrectionCompleted(s, snapshot, original, regression))
    BY <1>5 DEF CompleteCorrection
  <2> QED BY <1>0, <2>1, CorrectionIsAbstract DEF Becomes, CompleteCorrectionAllowed
<1>6. CASE CompleteVerification
  <2>1. PICK s \in review, payload \in EvidencePayloads, approved \in BOOLEAN :
             s.state = "validating" /\ Becomes(Verified(s, payload, approved))
    BY <1>6 DEF CompleteVerification
  <2> DEFINE t == Verified(s, payload, approved)
  <2>2. /\ KeepsScope(s, t) /\ SameAttempts(s, t) /\ review' = {t}
        /\ t.state \in {"approved", "escalated"}
    BY <1>0, <2>1, VerificationEffect DEF Becomes
  <2> HIDE DEF t
  <2>3. Decides(s, t)
    BY <2>1, <2>2 DEF Decides, Shown, KeepsScope, SameAttempts
  <2> QED BY <1>0, <2>2, <2>3, MovesAreAbstract
<1>7. CASE Finished \/ UNCHANGED vars
  <2>1. review' = review
    BY <1>7 DEF Finished, vars
  <2>2. ASSUME NEW s \in review PROVE [Lifecycle!Next]_Lifecycle!vars
    <3>1. Decides(s, s)
      BY DEF Decides
    <3> QED BY <1>0, <2>1, <3>1, MovesAreAbstract
  <2>3. ASSUME review = {} PROVE [Lifecycle!Next]_Lifecycle!vars
    <3>1. /\ Status = "absent" /\ Budget = 0 /\ Spent = 0 /\ AttemptsMade = 0
      BY <2>3, SeenBefore
    <3>2. /\ Status' = "absent" /\ Budget' = 0 /\ Spent' = 0 /\ AttemptsMade' = 0
      BY <2>1, <2>3 DEF Status, Budget, Spent, AttemptsMade, Field
    <3> QED BY <3>1, <3>2 DEF Lifecycle!vars
  <2> QED BY <2>2, <2>3
<1> QED BY <1>1, <1>2, <1>3, <1>4, <1>5, <1>6, <1>7 DEF Next

(* The bookkeeping implements the lifecycle: at most three attempts, in    *)
(* one budget fixed at the start, and a final verdict, whatever reviewers, *)
(* operators and the working tree do.                                      *)
THEOREM LifecycleRefinement == Spec => ImplementsLifecycle
<1>1. Init => Lifecycle!Init
  BY SeenBefore DEF Init, Lifecycle!Init
<1> QED BY <1>1, StepsAreAbstract, ReviewInvariance, PTL
        DEF Spec, ImplementsLifecycle, Lifecycle!Spec

---------------------------------------------------------------------------
(* The validator accepts what the handlers allow. *)

(* CompleteReview, unless two lenses report the same finding.              *)
LEMMA ReviewMeets ==
    ASSUME NEW s, RecordInv(s), NEW in \in ReviewInput(s.lenses),
           CompleteReviewAllowed(s, in),
           \A l, m \in s.lenses : l # m => in.reports[l] \cap in.reports[m] = {}
    PROVE  Valid(ReviewCompleted(s, in))
<1> DEFINE t == ReviewCompleted(s, in)
<1>1. /\ Shaped(s) /\ ScopeTyped(s) /\ Valid(s) /\ Untouched(s)
      /\ DOMAIN in.reports = s.lenses
  BY TypedByGroups DEF RecordInv, CompleteReviewAllowed
<1>2. /\ KeepsScope(s, t) /\ SameAttempts(s, t) /\ SameDecision(s, t)
      /\ t.proposed = s.proposed
      /\ t.reports = in.reports /\ t.severe = in.severe
      /\ t.classifications = in.evidence
      /\ t.outcomes = [f \in Findings(in.reports) |-> Routed(in, f)]
      /\ t.fix = {f \in in.severe : t.outcomes[f] = "corroborated"}
      /\ t.followUps = {f \in in.severe : t.outcomes[f] = "info"}
      /\ t.state = CASE \E f \in in.severe : t.outcomes[f] = "inconclusive"
                           -> "escalated"
                     [] t.fix # {}
                        /\ ~ \E f \in in.severe : t.outcomes[f] = "inconclusive"
                           -> "correction_required"
                     [] OTHER -> "validating"
  BY <1>1, ReviewEffect
<1> HIDE DEF t
<1>3. \/ /\ t.state = "escalated"
         /\ \E f \in in.severe : t.outcomes[f] = "inconclusive"
      \/ /\ t.state = "correction_required" /\ t.fix # {}
         /\ \A f \in in.severe : t.outcomes[f] # "inconclusive"
      \/ /\ t.state = "validating" /\ t.fix = {}
         /\ \A f \in in.severe : t.outcomes[f] # "inconclusive"
  BY <1>2
<1>4. /\ \A f \in Findings(in.reports) : t.outcomes[f] = Routed(in, f)
      /\ DOMAIN t.outcomes = Findings(in.reports)
      /\ in.severe \subseteq Findings(in.reports)
  BY <1>2 DEF CompleteReviewAllowed
<1>5. ValidIdentity(t)
  BY <1>1, <1>2 DEF Valid, ValidIdentity, KeepsScope
<1>6. ValidScope(t)
  BY <1>1, <1>2 DEF Valid, ValidScope, KeepsScope, SameAttempts, GenesisPaths
<1>7. ValidFindings(t)
  <2>1. \A f \in Findings(in.reports) \ in.severe : t.outcomes[f] = "info"
    BY <1>4, RoutedFits
  <2>2. ASSUME NEW f \in in.severe
        PROVE  OutcomeFits(in.evidence[f], t.outcomes[f], f \in t.followUps)
    <3>1. t.outcomes[f] = Routed(in, f)
      BY <1>4
    <3>2. Routed(in, f) = "info" => f \in t.followUps
      BY <1>2, <3>1
    <3>3. OutcomeFits(in.evidence[f], Routed(in, f), f \in t.followUps)
      BY <3>2, RoutedFits
    <3> QED BY <3>1, <3>3
  <2>3. DOMAIN in.evidence = in.severe
    BY DEF ReviewInput
  <2> QED BY <1>1, <1>2, <1>3, <1>4, <2>1, <2>2, <2>3 DEF ValidFindings, KeepsScope
<1>8. ValidLines(t)
  BY <1>1, <1>2 DEF ValidLines, KeepsScope, SameAttempts, Untouched, ScopeTyped, Nil
<1>9. ValidCorrection(t)
  <2>1. t.attempts = <<>> /\ t.cumulative = 0 /\ t.proposed = Nil /\ ~ Corrected(t)
    BY <1>1, <1>2 DEF KeepsScope, SameAttempts, Untouched, Corrected
  <2>2. ValidUncorrected(t) /\ ValidAttempts(t)
    BY <1>3, <2>1 DEF ValidUncorrected, ValidAttempts
  <2> QED BY <2>1, <2>2 DEF ValidCorrection
<1>10. ValidByState(t)
  BY <1>1, <1>2, <1>3 DEF ValidByState, KeepsScope, SameDecision, Untouched
<1> QED BY <1>5, <1>6, <1>7, <1>8, <1>9, <1>10 DEF Valid, t

(* What an open correction has on it. *)
LEMMA OpenCorrection ==
    ASSUME NEW s, RecordInv(s), s.state = "correction_required"
    PROVE  /\ s.fix # {} /\ s.evidence = {} /\ DOMAIN s.reports = s.lenses
           /\ s.actual = Nil /\ s.fixDelta = {} /\ s.checks = {}
           /\ s.cumulative \in Nat /\ s.budget \in Nat /\ s.proposed \in Nat \cup {Nil}
           /\ s.proposed # Nil => s.proposed > 0 /\ s.proposed <= s.budget
           /\ s.attempts = <<>> => s.cumulative = 0 /\ s.current = s.initial
           /\ ~ (s.cumulative > s.budget)
           /\ s.proposed # Nil /\ s.attempts # <<>> => s.cumulative + s.proposed <= s.budget
<1>1. /\ Valid(s) /\ Tries(s) /\ ScopeTyped(s) /\ AttemptsTyped(s)
      /\ s.proposed \in Nat \cup {Nil}
  BY TypedByGroups DEF RecordInv
<1>2. s.fix # {} /\ s.evidence = {} /\ DOMAIN s.reports = s.lenses
  BY <1>1 DEF Valid, ValidByState
<1>3. CASE s.attempts = <<>>
  <2>1. ~ Corrected(s)
    BY <1>1, <1>3 DEF Tries
  <2>2. s.cumulative = 0
    BY <1>1, <1>3 DEF Valid, ValidCorrection, ValidAttempts
  <2>3. s.proposed # Nil => s.proposed > 0 /\ s.proposed <= s.budget
    BY <1>1 DEF Valid, ValidLines, ScopeTyped, Nil
  <2> QED BY <1>1, <1>2, <1>3, <2>1, <2>2, <2>3 DEF Corrected, ScopeTyped, AttemptsTyped
<1>4. CASE s.attempts # <<>>
  <2>1. OpenBetweenAttempts(s) /\ ~ (s.cumulative > s.budget)
    BY <1>1, <1>4 DEF Valid, ValidCorrection, ValidAttempts, EscalatedBetweenAttempts
  <2>2. s.proposed # Nil => s.proposed > 0 /\ s.proposed <= s.budget
    BY <1>1 DEF Valid, ValidLines, ScopeTyped, Nil
  <2> QED BY <1>1, <1>2, <1>4, <2>1, <2>2 DEF OpenBetweenAttempts, ScopeTyped,
                                              AttemptsTyped
<1> QED BY <1>3, <1>4

(* The findings of a record stay valid while the findings do, unless a     *)
(* finding without a conclusion meets a state other than escalated.        *)
LEMMA FindingsStayValid ==
    ASSUME NEW s, NEW t, ValidFindings(s), SameFindings(s, t), KeepsScope(s, t),
           s.state \in {"correction_required", "validating"}
    PROVE  ValidFindings(t)
<1>1. \A f \in s.severe : s.outcomes[f] # "inconclusive"
  BY DEF ValidFindings
<1> QED BY <1>1 DEF ValidFindings, SameFindings, KeepsScope

(* A forecast. *)
LEMMA ForecastMeets ==
    ASSUME NEW s, RecordInv(s), NEW lines \in Int, BeginCorrectionAllowed(s, lines)
    PROVE  Valid(CorrectionBegun(s, lines))
<1> DEFINE t == CorrectionBegun(s, lines)
<1>1. /\ Shaped(s) /\ Valid(s) /\ s.state = "correction_required" /\ lines > 0
      /\ s.lines \in Nat
  BY TypedByGroups DEF RecordInv, BeginCorrectionAllowed, ScopeTyped
<1>2. /\ KeepsScope(s, t) /\ SameFindings(s, t) /\ SameAttempts(s, t)
      /\ SameDecision(s, t) /\ t.proposed = lines
      /\ t.state = IF s.cumulative + lines > s.budget THEN "escalated" ELSE s.state
  BY <1>1, ForecastEffect
<1> HIDE DEF t
<1>3. /\ s.fix # {} /\ s.evidence = {} /\ DOMAIN s.reports = s.lenses
      /\ s.actual = Nil /\ s.fixDelta = {} /\ s.checks = {}
      /\ s.cumulative \in Nat /\ s.budget \in Nat
      /\ s.attempts = <<>> => s.cumulative = 0 /\ s.current = s.initial
      /\ ~ (s.cumulative > s.budget)
  BY <1>1, OpenCorrection
<1>4. \/ t.state = "escalated" /\ s.cumulative + lines > s.budget
      \/ t.state = "correction_required" /\ s.cumulative + lines <= s.budget
  BY <1>1, <1>2, <1>3
<1>5. ValidIdentity(t) /\ ValidScope(t) /\ ValidFindings(t)
  BY <1>1, <1>2, FindingsStayValid
     DEF Valid, ValidIdentity, ValidScope, KeepsScope, SameFindings, SameAttempts, GenesisPaths
<1>6. ValidLines(t)
  BY <1>1, <1>2, <1>3, <1>4 DEF ValidLines, KeepsScope, SameAttempts, Nil
<1>7. ValidAttempts(t)
  <2>1. \A i : AttemptBase(t, i) = AttemptBase(s, i)
    BY <1>2 DEF AttemptBase, KeepsScope, SameAttempts
  <2> QED BY <1>1, <1>2, <1>3, <2>1
          DEF Valid, ValidCorrection, ValidAttempts, KeepsScope, SameAttempts, SameFindings,
              GenesisPaths
<1>8. ValidCorrection(t)
  <2>1. CASE s.attempts = <<>>
    <3>1. ~ Corrected(t) /\ ValidUncorrected(t) /\ t.attempts = <<>>
      BY <1>1, <1>2, <1>3, <1>4, <2>1
         DEF Corrected, ValidUncorrected, KeepsScope, SameAttempts, SameFindings
    <3> QED BY <1>7, <3>1 DEF ValidCorrection
  <2>2. CASE s.attempts # <<>>
    <3>1. t.state = "correction_required" => OpenBetweenAttempts(t)
      BY <1>1, <1>2, <1>3, <1>4 DEF OpenBetweenAttempts, KeepsScope, SameAttempts
    <3>2. t.state = "escalated" => EscalatedBetweenAttempts(t)
      BY <1>1, <1>2, <1>3, <1>4 DEF EscalatedBetweenAttempts, KeepsScope, SameAttempts, Nil
    <3>3. t.attempts # <<>>
      BY <1>2, <2>2 DEF SameAttempts
    <3> QED BY <1>4, <1>7, <3>1, <3>2, <3>3 DEF ValidCorrection, EscalatedBetweenAttempts
  <2> QED BY <2>1, <2>2
<1>9. ValidByState(t)
  BY <1>2, <1>3, <1>4 DEF ValidByState, KeepsScope, SameFindings, SameDecision
<1> QED BY <1>5, <1>6, <1>8, <1>9 DEF Valid, t

(* The final verification. *)
LEMMA VerificationMeets ==
    ASSUME NEW s, RecordInv(s), s.state = "validating", NEW payload,
           NEW approved \in BOOLEAN
    PROVE  Valid(Verified(s, payload, approved))
<1> DEFINE t == Verified(s, payload, approved)
<1>1. Shaped(s) /\ Valid(s) /\ s.budget \in Nat /\ s.proposed \in Nat \cup {Nil}
  BY TypedByGroups DEF RecordInv, ScopeTyped
<1>2. /\ KeepsScope(s, t) /\ SameFindings(s, t) /\ SameAttempts(s, t)
      /\ t.proposed = s.proposed /\ t.reason = s.reason /\ t.evidence = {payload}
      /\ t.state \in {"approved", "escalated"}
  BY <1>1, VerificationEffect
<1> HIDE DEF t
<1>3. ValidIdentity(t) /\ ValidScope(t) /\ ValidFindings(t)
  BY <1>1, <1>2, FindingsStayValid
     DEF Valid, ValidIdentity, ValidScope, KeepsScope, SameFindings, SameAttempts, GenesisPaths
<1>4. ValidLines(t)
  BY <1>1, <1>2 DEF Valid, ValidLines, KeepsScope, SameAttempts
<1>5. ValidAttempts(t)
  <2>1. \A i : AttemptBase(t, i) = AttemptBase(s, i)
    BY <1>2 DEF AttemptBase, KeepsScope, SameAttempts
  <2> QED BY <1>1, <1>2, <2>1
          DEF Valid, ValidCorrection, ValidAttempts, KeepsScope, SameAttempts, SameFindings,
              GenesisPaths
<1>6. Corrected(t) <=> Corrected(s)
  BY <1>2 DEF SameAttempts, KeepsScope, Corrected
<1>7. IF Corrected(s) THEN ValidCorrected(s) ELSE ValidUncorrected(s)
  BY <1>1 DEF Valid, ValidCorrection, EscalatedBetweenAttempts
<1>8. CASE Corrected(s)
  <2>1. ValidCorrected(t)
    BY <1>2, <1>7, <1>8 DEF ValidCorrected, KeepsScope, SameAttempts, SameFindings
  <2>2. ValidCorrection(t)
    BY <1>2, <1>5, <1>6, <1>8, <2>1 DEF ValidCorrection
  <2> QED BY <1>2, <1>3, <1>4, <2>2 DEF Valid, ValidByState, t
<1>9. CASE ~ Corrected(s)
  <2>1. ValidUncorrected(t)
    BY <1>2, <1>7, <1>9 DEF ValidUncorrected, KeepsScope, SameFindings
  <2>2. ValidCorrection(t)
    BY <1>2, <1>5, <1>6, <1>9, <2>1 DEF ValidCorrection
  <2> QED BY <1>2, <1>3, <1>4, <2>2 DEF Valid, ValidByState, t
<1> QED BY <1>8, <1>9

(* The attempts stay a chain of fix diffs, from the reviewed candidate to  *)
(* the current tree, and the charge their sum.                             *)
LEMMA ChainMeets ==
    ASSUME NEW s, RecordInv(s), s.state = "correction_required", NEW t,
           NEW snapshot \in Snapshot, NEW original \in BOOLEAN, NEW regression \in BOOLEAN,
           CompleteCorrectionAllowed(s, snapshot),
           LeftByCorrection(s, t, snapshot, original, regression)
    PROVE  ValidAttempts(t)
<1> DEFINE tried == Tried(s, snapshot, original, regression)
           n == Len(s.attempts)
<1>1. /\ s.attempts \in Seq(Attempt) /\ Len(s.attempts) < 3
      /\ s.cumulative \in Nat /\ s.budget \in Nat
      /\ ValidAttempts(s) /\ s.proposed \in Nat \cup {Nil}
  BY TypedByGroups DEF RecordInv, Tries, MaxCompactCorrectionAttempts, AttemptsTyped,
                       ScopeTyped, Valid, ValidCorrection
<1>2. /\ s.proposed > 0 /\ s.proposed \in Nat
      /\ s.attempts = <<>> => s.cumulative = 0 /\ s.current = s.initial
  BY <1>1, OpenCorrection DEF CompleteCorrectionAllowed, Nil
<1>3. /\ snapshot.kind = "fix-diff" /\ snapshot.base = s.current.tree
      /\ snapshot.ledger = s.fix /\ snapshot.paths \subseteq GenesisPaths(s)
  BY DEF CompleteCorrectionAllowed
<1>4. DiffLines(snapshot.base, snapshot.tree) \in Nat
  BY DiffLinesAssumption DEF Snapshot
<1>5. /\ tried \in Attempt /\ tried.snapshot = snapshot /\ tried.proposed = s.proposed
      /\ tried.actual = DiffLines(snapshot.base, snapshot.tree)
  BY <1>2, <1>4 DEF Tried, Attempt
<1>6. /\ t.attempts = Append(s.attempts, tried) /\ t.current = snapshot
      /\ t.cumulative = s.cumulative + tried.actual
      /\ t.fix = s.fix /\ t.initial = s.initial /\ t.budget = s.budget
      /\ t.cumulative > s.budget => t.state = "escalated"
  BY <1>5 DEF LeftByCorrection, SameFindings, KeepsScope
<1> HIDE DEF tried
<1>7. /\ n \in Nat /\ t.attempts \in Seq(Attempt) /\ Len(t.attempts) = n + 1
      /\ t.attempts[n + 1] = tried /\ \A i \in 1 .. n : t.attempts[i] = s.attempts[i]
      /\ DOMAIN t.attempts = 1 .. n + 1 /\ DOMAIN s.attempts = 1 .. n
      /\ t.attempts # <<>> /\ (n = 0 <=> s.attempts = <<>>)
  BY <1>1, <1>5, <1>6, LenProperties, AppendProperties, EmptySeq
<1>8. \A i \in 1 .. n : s.attempts[i].actual \in Nat
  <2>1. \A i \in 1 .. n : s.attempts[i] \in Attempt
    BY <1>1, <1>7, ElementOfSeq
  <2>2. \A attempt \in Attempt : attempt.actual \in Nat
    BY DEF Attempt
  <2> QED BY <2>1, <2>2
<1>9. t.cumulative = LinesCharged(t.attempts)
  <2>1. s.cumulative = LinesCharged(s.attempts)
    <3>1. CASE s.attempts # <<>>
      BY <1>1, <3>1 DEF ValidAttempts
    <3>2. CASE s.attempts = <<>>
      <4>1. n = 0 /\ Len(s.attempts) <= 3
        BY <1>1, <1>7, <3>2
      <4>2. LinesCharged(s.attempts) = 0
        BY <1>1, <1>8, <4>1, ThreeCharges
      <4> QED BY <1>2, <3>2, <4>2
    <3> QED BY <3>1, <3>2
  <2>2. LinesCharged(t.attempts) = LinesCharged(s.attempts) + tried.actual
    BY <1>1, <1>4, <1>5, <1>6, <1>8, AppendedCharge
  <2> QED BY <1>6, <2>1, <2>2
<1> HIDE DEF n
<1>10. ASSUME NEW i \in 1 .. n + 1
       PROVE  LET attempt == t.attempts[i] IN
              /\ attempt.proposed > 0 /\ attempt.actual >= 0
              /\ attempt.snapshot.kind = "fix-diff"
              /\ attempt.snapshot.base = AttemptBase(t, i)
              /\ attempt.snapshot.ledger = t.fix
              /\ attempt.snapshot.paths \subseteq GenesisPaths(t)
  <2>1. CASE i \in 1 .. n
    <3>1. t.attempts[i] = s.attempts[i] /\ s.attempts # <<>>
      BY <1>7, <2>1
    <3>2. i = 1 \/ t.attempts[i - 1] = s.attempts[i - 1]
      BY <1>7, <2>1
    <3>3. AttemptBase(t, i) = AttemptBase(s, i)
      BY <1>6, <3>2 DEF AttemptBase
    <3> QED BY <1>1, <1>6, <1>7, <2>1, <3>1, <3>3 DEF ValidAttempts, GenesisPaths
  <2>2. CASE i = n + 1
    <3>1. AttemptBase(t, i) = s.current.tree
      <4>1. CASE n = 0
        BY <1>2, <1>6, <1>7, <2>2, <4>1 DEF AttemptBase
      <4>2. CASE n # 0
        <5>1. s.current = s.attempts[n].snapshot
          BY <1>1, <1>7, <4>2 DEF ValidAttempts, n
        <5>2. i # 1 /\ i - 1 = n /\ t.attempts[n] = s.attempts[n]
          BY <1>7, <2>2, <4>2
        <5> QED BY <5>1, <5>2 DEF AttemptBase
      <4> QED BY <4>1, <4>2
    <3> QED BY <1>2, <1>3, <1>4, <1>5, <1>6, <1>7, <2>2, <3>1 DEF GenesisPaths
  <2> QED BY <1>7, <2>1, <2>2
<1>11. t.current = t.attempts[Len(t.attempts)].snapshot
  BY <1>5, <1>6, <1>7
<1> QED BY <1>6, <1>7, <1>9, <1>10, <1>11 DEF ValidAttempts

(* An attempt. *)
LEMMA CorrectionMeets ==
    ASSUME NEW s, RecordInv(s), s.state = "correction_required",
           NEW snapshot \in Snapshot, NEW original \in BOOLEAN, NEW regression \in BOOLEAN,
           CompleteCorrectionAllowed(s, snapshot)
    PROVE  Valid(CorrectionCompleted(s, snapshot, original, regression))
<1> DEFINE t == CorrectionCompleted(s, snapshot, original, regression)
           lines == DiffLines(snapshot.base, snapshot.tree)
<1>1. Shaped(s) /\ Valid(s) /\ s.attempts \in Seq(Attempt) /\ s.lines \in Nat
  BY TypedByGroups DEF RecordInv, AttemptsTyped, ScopeTyped
<1>2. LeftByCorrection(s, t, snapshot, original, regression)
  BY <1>1, CorrectionEffect
<1> HIDE DEF t
<1>3. ValidAttempts(t)
  BY <1>2, ChainMeets
<1>4. /\ s.fix # {} /\ s.evidence = {} /\ DOMAIN s.reports = s.lenses
      /\ s.cumulative \in Nat /\ s.budget \in Nat /\ s.proposed \in Nat
      /\ s.proposed > 0 /\ s.proposed <= s.budget /\ s.proposed # Nil
  BY OpenCorrection DEF CompleteCorrectionAllowed, Nil
<1>5. lines \in Nat /\ snapshot.kind = "fix-diff" /\ snapshot.ledger = s.fix
      /\ snapshot.paths \subseteq GenesisPaths(s)
  BY DiffLinesAssumption DEF Snapshot, CompleteCorrectionAllowed
<1>6. /\ KeepsScope(s, t) /\ SameFindings(s, t) /\ SameDecision(s, t)
      /\ t.current = snapshot /\ t.cumulative = s.cumulative + lines
      /\ t.attempts = Append(s.attempts, Tried(s, snapshot, original, regression))
  BY <1>2 DEF LeftByCorrection
<1>7. t.attempts # <<>>
  BY <1>1, <1>6, LenProperties, AppendProperties, EmptySeq
<1>8. \/ /\ t.cumulative > s.budget /\ t.state = "escalated"
         /\ Measured(s, t, snapshot, original, regression)
      \/ /\ ~ (t.cumulative > s.budget) /\ t.state = "validating"
         /\ t.checks = {<<TRUE, TRUE>>}
         /\ Measured(s, t, snapshot, original, regression)
      \/ /\ \/ t.state = "correction_required"
            \/ t.state = "escalated" /\ Len(t.attempts) >= MaxCompactCorrectionAttempts
         /\ t.proposed = Nil /\ t.actual = Nil /\ t.fixDelta = {} /\ t.checks = {}
  <2>1. original /\ regression => {<<original, regression>>} = {<<TRUE, TRUE>>}
    OBVIOUS
  <2> QED BY <1>2, <2>1 DEF LeftByCorrection, Measured
<1>9. ValidIdentity(t) /\ ValidScope(t) /\ ValidFindings(t)
  <2>1. ValidIdentity(t)
    BY <1>1, <1>6 DEF Valid, ValidIdentity, KeepsScope
  <2>2. ValidScope(t)
    BY <1>1, <1>5, <1>6 DEF Valid, ValidScope, KeepsScope, SameFindings, GenesisPaths
  <2>3. ValidFindings(t)
    BY <1>1, <1>6, FindingsStayValid DEF Valid
  <2> QED BY <2>1, <2>2, <2>3
<1>10. ValidLines(t)
  <2>1. t.proposed = Nil \/ t.proposed = s.proposed
    BY <1>8 DEF Measured
  <2>2. \/ t.state = "escalated" /\ t.actual = lines
        \/ ~ (t.cumulative > s.budget) /\ t.actual = lines
        \/ t.actual = Nil
    BY <1>8 DEF Measured
  <2> HIDE DEF lines
  <2>3. t.actual > s.budget => t.state = "escalated"
    BY <1>4, <1>5, <1>6, <2>2 DEF Nil
  <2> QED BY <1>4, <1>5, <1>6, <2>1, <2>2, <2>3 DEF ValidLines, KeepsScope, Nil
<1>11. ValidCorrection(t)
  <2>1. CASE Measured(s, t, snapshot, original, regression)
             /\ \/ t.state = "escalated"
                \/ t.state = "validating" /\ t.checks = {<<TRUE, TRUE>>}
    <3>1. t.actual # Nil /\ t.proposed # Nil /\ t.fixDelta = {snapshot} /\ t.checks # {}
      BY <1>4, <1>5, <2>1 DEF Measured, Nil
    <3>2. Corrected(t) /\ ~ EscalatedBetweenAttempts(t)
      BY <3>1 DEF Corrected, EscalatedBetweenAttempts
    <3>3. t.proposed <= t.budget /\ t.fix # {} /\ t.fix = s.fix
      BY <1>4, <1>6, <2>1 DEF Measured, KeepsScope, SameFindings
    <3>4. ValidCorrected(t)
      BY <1>5, <1>6, <1>7, <2>1, <3>1, <3>3 DEF ValidCorrected
    <3> QED BY <1>3, <2>1, <3>2, <3>4 DEF ValidCorrection
  <2>2. CASE t.state = "correction_required" /\ t.proposed = Nil /\ t.actual = Nil
             /\ t.fixDelta = {} /\ t.checks = {}
    BY <1>3, <1>7, <2>2 DEF ValidCorrection, OpenBetweenAttempts, EscalatedBetweenAttempts
  <2>3. CASE t.state = "escalated" /\ Len(t.attempts) >= MaxCompactCorrectionAttempts
             /\ t.actual = Nil
    BY <1>3, <1>7, <2>3 DEF ValidCorrection, EscalatedBetweenAttempts
  <2> QED BY <1>8, <2>1, <2>2, <2>3
<1>12. ValidByState(t)
  BY <1>4, <1>6, <1>8 DEF ValidByState, KeepsScope, SameFindings, SameDecision
<1> QED BY <1>9, <1>10, <1>11, <1>12 DEF Valid, t

(* A move whose own checks pass is never refused by the validator: the     *)
(* bookkeeping cannot wedge a review, whatever its inputs are.             *)
THEOREM NoWedge == Spec => []HandlersMeetValidate
<1>1. ReviewIInv => HandlersMeetValidate
  <2> SUFFICES ASSUME ReviewIInv, NEW s \in review
      PROVE  /\ s.state = "reviewing" => \A in \in ReviewInput(s.lenses) :
                   (/\ CompleteReviewAllowed(s, in)
                    /\ \A l, m \in s.lenses :
                          l # m => in.reports[l] \cap in.reports[m] = {})
                   => Valid(ReviewCompleted(s, in))
             /\ \A reason \in Reasons :
                   PristineReviewing(s) => Valid(Invalidated(s, reason))
             /\ \A lines \in Forecasts :
                   BeginCorrectionAllowed(s, lines) => Valid(CorrectionBegun(s, lines))
             /\ s.state = "correction_required" =>
                   \A tree \in Trees, original, regression \in BOOLEAN :
                   LET snapshot == SnapshotOf("fix-diff", s.current.tree, tree, s.fix) IN
                   CompleteCorrectionAllowed(s, snapshot)
                   => Valid(CorrectionCompleted(s, snapshot, original, regression))
             /\ \A payload \in EvidencePayloads, approved \in BOOLEAN :
                   s.state = "validating" => Valid(Verified(s, payload, approved))
    BY DEF HandlersMeetValidate
  <2>1. RecordInv(s) /\ Shaped(s) /\ Valid(s)
        /\ s.current.tree \in Trees /\ s.fix \in SUBSET FindingIds
    BY TypedByGroups DEF ReviewIInv, RecordInv, AttemptsTyped, FindingsTyped, Snapshot
  <2>2. ASSUME NEW in \in ReviewInput(s.lenses), CompleteReviewAllowed(s, in),
               \A l, m \in s.lenses : l # m => in.reports[l] \cap in.reports[m] = {}
        PROVE  Valid(ReviewCompleted(s, in))
    BY <2>1, <2>2, ReviewMeets
  <2>3. ASSUME NEW reason \in Reasons, PristineReviewing(s)
        PROVE  Valid(Invalidated(s, reason))
    BY <2>1, <2>3, WithdrawnIsValid
  <2>4. ASSUME NEW lines \in Forecasts, BeginCorrectionAllowed(s, lines)
        PROVE  Valid(CorrectionBegun(s, lines))
    BY <2>1, <2>4, ForecastsAssumption, ForecastMeets
  <2>5. ASSUME s.state = "correction_required", NEW tree \in Trees,
               NEW original \in BOOLEAN, NEW regression \in BOOLEAN,
               CompleteCorrectionAllowed(s, SnapshotOf("fix-diff", s.current.tree, tree,
                                                       s.fix))
        PROVE  Valid(CorrectionCompleted(s, SnapshotOf("fix-diff", s.current.tree, tree,
                                                       s.fix), original, regression))
    <3>1. SnapshotOf("fix-diff", s.current.tree, tree, s.fix) \in Snapshot
      BY <2>1, SnapshotTyped DEF SnapshotKinds
    <3> QED BY <2>1, <2>5, <3>1, CorrectionMeets
  <2>6. ASSUME NEW payload \in EvidencePayloads, NEW approved \in BOOLEAN,
               s.state = "validating"
        PROVE  Valid(Verified(s, payload, approved))
    BY <2>1, <2>6, VerificationMeets
  <2> QED BY <2>2, <2>3, <2>4, <2>5, <2>6
<1> QED BY <1>1, ReviewInvariance, PTL

---------------------------------------------------------------------------
(* The chains of schema v1. *)

(* A chain that replays, wherever its events are.                          *)
Replays(chain) ==
    /\ chain \in Seq(ToSet(chain)) /\ chain # <<>>
    /\ chain[1] = <<"start", Started(chain[1][2].start)>>
    /\ \A i \in 2 .. Len(chain) :
          SucceedsAsPersisted(chain[i - 1][2], chain[i][2], chain[i][1])

Held(c, chain) == Histories(chain) \subseteq events[c]

(* What a session has prepared is one more event on what it expects.       *)
Prepared(s) ==
    LET local == session[s]
    IN  /\ local.clone \in Clones
        /\ \/ local.expected = <<>>
           \/ Replays(local.expected)
        /\ local.goal = Append(local.expected, Last(local.goal))
        /\ local.expected = <<>> => Replays(local.goal)

SessionOK(s) ==
    LET local == session[s]
    IN  /\ local.pc \in {"idle", "ready", "linked", "installing"}
        /\ local.pc \in {"ready", "linked"} =>
              /\ Prepared(s)
              /\ local = [pc |-> local.pc, clone |-> local.clone, expected |-> local.expected,
                          goal |-> local.goal]
        /\ local.pc = "linked" =>
              /\ head[local.clone] = local.expected
              /\ Replays(local.goal) /\ Held(local.clone, local.goal)
        /\ local.pc = "installing" =>
              /\ local.clone \in Clones /\ head[local.clone] = <<>>
              /\ Replays(local.goal)

ChainIInv ==
    /\ events = [c \in Clones |-> events[c]]
    /\ head = [c \in Clones |-> head[c]]
    /\ session = [s \in Sessions |-> session[s]]
    /\ \A c \in Clones : head[c] = <<>> \/ (Replays(head[c]) /\ Held(c, head[c]))
    /\ bundle = <<>> \/ Replays(bundle)
    /\ \A s \in Sessions : SessionOK(s)
    /\ \A c \in Clones : \A s, t \in Locking(c) : s = t

LEMMA Appended ==
    ASSUME NEW S, NEW chain \in Seq(S), NEW next
    PROVE  /\ Append(chain, next) \in Seq(ToSet(Append(chain, next)))
           /\ Append(chain, next) # <<>>
           /\ Len(Append(chain, next)) = Len(chain) + 1
           /\ Append(chain, next)[Len(chain) + 1] = next
           /\ \A i \in 1 .. Len(chain) : Append(chain, next)[i] = chain[i]
           /\ Histories(Append(chain, next)) = Histories(chain) \cup {Append(chain, next)}
           /\ IsPrefix(chain, Append(chain, next))
<1> DEFINE T == S \cup {next}
           longer == Append(chain, next)
<1>1. chain \in Seq(T) /\ longer \in Seq(T)
  OBVIOUS
<1>2. /\ Len(longer) = Len(chain) + 1 /\ longer[Len(chain) + 1] = next
      /\ \A i \in 1 .. Len(chain) : longer[i] = chain[i]
  BY <1>1
<1>3. longer \in Seq(ToSet(longer))
  BY <1>1 DEF ToSet
<1>4. \A n \in 0 .. Len(chain) : SubSeq(longer, 1, n) = SubSeq(chain, 1, n)
  BY <1>1
<1>5. SubSeq(longer, 1, Len(chain) + 1) = longer /\ SubSeq(chain, 1, Len(chain)) = chain
  BY <1>1
<1>6. Prefixes(longer) = Prefixes(chain) \cup {longer}
  <2>1. 0 .. Len(longer) = (0 .. Len(chain)) \cup {Len(chain) + 1}
    BY <1>1, <1>2
  <2> QED BY <1>2, <1>4, <1>5, <2>1 DEF Prefixes
<1>7. longer # <<>>
  BY <1>1
<1>8. IsPrefix(chain, longer)
  BY <1>1, <1>2, <1>4, <1>5 DEF IsPrefix
<1> QED BY <1>2, <1>3, <1>6, <1>7, <1>8 DEF Histories

LEMMA Whole ==
    ASSUME NEW S, NEW chain \in Seq(S), chain # <<>>
    PROVE  chain \in Histories(chain) /\ IsPrefix(chain, chain) /\ IsPrefix(<<>>, chain)
<1>1. SubSeq(chain, 1, Len(chain)) = chain /\ Len(chain) \in 0 .. Len(chain) /\ Len(chain) \in Nat
  OBVIOUS
<1>2. SubSeq(chain, 1, 0) = <<>> /\ Len(<<>>) = 0
  OBVIOUS
<1>3. SubSeq(<<>>, 1, 0) = <<>>
  OBVIOUS
<1>4. IsPrefix(<<>>, chain)
  BY <1>1, <1>2, <1>3 DEF IsPrefix
<1>5. chain \in Prefixes(chain)
  BY <1>1 DEF Prefixes
<1>6. IsPrefix(chain, chain)
  BY <1>1 DEF IsPrefix
<1> QED BY <1>4, <1>5, <1>6 DEF Histories

LEMMA Grown ==
    ASSUME NEW chain, Replays(chain), NEW next,
           SucceedsAsPersisted(Current(chain), next[2], next[1])
    PROVE  Replays(Append(chain, next))
<1> DEFINE longer == Append(chain, next)
<1>1. chain \in Seq(ToSet(chain)) /\ Len(chain) \in Nat \ {0}
  BY DEF Replays
<1>2. /\ longer \in Seq(ToSet(longer)) /\ longer # <<>> /\ Len(longer) = Len(chain) + 1
      /\ longer[Len(chain) + 1] = next
      /\ \A i \in 1 .. Len(chain) : longer[i] = chain[i]
  BY <1>1, Appended
<1> HIDE DEF longer
<1>3. longer[1] = chain[1]
  BY <1>1, <1>2
<1>4. ASSUME NEW i \in 2 .. Len(longer)
      PROVE  SucceedsAsPersisted(longer[i - 1][2], longer[i][2], longer[i][1])
  <2>1. CASE i = Len(chain) + 1
    <3>1. longer[i - 1] = chain[Len(chain)] /\ longer[i] = next
      BY <1>1, <1>2, <2>1
    <3> QED BY <3>1 DEF Current, Last
  <2>2. CASE i \in 2 .. Len(chain)
    <3>1. longer[i - 1] = chain[i - 1] /\ longer[i] = chain[i]
      BY <1>1, <1>2, <2>2
    <3> QED BY <2>2, <3>1 DEF Replays
  <2> QED BY <1>1, <1>2, <2>1, <2>2
<1>5. longer[1] = <<"start", Started(longer[1][2].start)>>
  BY <1>3 DEF Replays
<1>6. Replays(longer)
  BY <1>2, <1>4, <1>5 DEF Replays
<1> QED BY <1>6 DEF longer

LEMMA Begun ==
    ASSUME NEW start
    PROVE  Replays(Append(<<>>, <<"start", Started(start)>>))
<1> DEFINE first == <<"start", Started(start)>>
           chain == Append(<<>>, first)
<1>1. Started(start).start = start
  BY DEF Started
<1>2. <<>> \in Seq({}) /\ Len(<<>>) = 0
  OBVIOUS
<1>3. /\ chain \in Seq(ToSet(chain)) /\ chain # <<>> /\ Len(chain) = 1 /\ chain[1] = first
  <2>1. \A x : Append(<<>>, x) = <<x>>
    OBVIOUS
  <2>2. \A x : <<x>> \in Seq({x}) /\ Len(<<x>>) = 1 /\ <<x>>[1] = x /\ ToSet(<<x>>) = {x}
    BY DEF ToSet
  <2>3. \A x : <<x>> # <<>>
    OBVIOUS
  <2> HIDE DEF first
  <2> QED BY <2>1, <2>2, <2>3
<1>4. chain[1] = <<"start", Started(chain[1][2].start)>>
  BY <1>1, <1>3
<1> HIDE DEF chain
<1>5. Replays(chain)
  BY <1>3, <1>4 DEF Replays
<1> QED BY <1>5 DEF chain

LEMMA ChainStarts == ChainInit => ChainIInv
BY DEF ChainInit, ChainIInv, NoSession, Locking, SessionOK

(* Steps that leave every HEAD alone, and lose no event.                   *)
LEMMA OthersKeep ==
    ASSUME ChainIInv, NEW s \in Sessions, NEW local,
           session' = [session EXCEPT ![s] = local], head' = head,
           \A c \in Clones : events[c] \subseteq events'[c],
           events' = [c \in Clones |-> events'[c]],
           bundle' = bundle,
           local.pc \in {"linked", "installing"} =>
               \/ session[s].pc \in {"linked", "installing"} /\ session[s].clone = local.clone
               \/ LockFree(local.clone),
           SessionOK(s)'
    PROVE  ChainIInv'
<1>1. session' = [t \in Sessions |-> IF t = s THEN local ELSE session[t]]
  BY DEF ChainIInv
<1>2. \A c \in Clones : \A chain : Held(c, chain) => Held(c, chain)'
  BY DEF Held
<1>3. ASSUME NEW t \in Sessions, t # s PROVE SessionOK(t)'
  <2>1. session'[t] = session[t] /\ SessionOK(t)
    BY <1>1, <1>3 DEF ChainIInv
  <2> QED BY <2>1, <1>2 DEF SessionOK, Prepared
<1>4. ASSUME NEW c \in Clones, NEW t \in Locking(c)', NEW u \in Locking(c)' PROVE t = u
  BY <1>1, <1>4 DEF ChainIInv, Locking, LockFree
<1> QED BY <1>1, <1>2, <1>3, <1>4 DEF ChainIInv

LEMMA PrepareKeeps ==
    ASSUME ChainIInv, NEW s \in Sessions, NEW c \in Clones, Prepare(s, c)
    PROVE  ChainIInv'
<1>1. PICK next : /\ head[c] = <<>> => \E start \in Starts : next = <<"start", Started(start)>>
                  /\ Go(s, [pc |-> "ready", clone |-> c, expected |-> head[c],
                            goal |-> Append(head[c], next)])
  BY DEF Prepare
<1> DEFINE local == [pc |-> "ready", clone |-> c, expected |-> head[c],
                     goal |-> Append(head[c], next)]
<1>2. session' = [session EXCEPT ![s] = local]
  BY <1>1 DEF Go
<1>3. session'[s] = local /\ UNCHANGED <<events, head, bundle>>
  BY <1>2 DEF ChainIInv, Prepare
<1>4. local.goal = Append(local.expected, Last(local.goal))
  <2>1. PICK S : head[c] \in Seq(S)
    <3>1. <<>> \in Seq({})
      OBVIOUS
    <3> QED BY <3>1 DEF ChainIInv, Replays
  <2>2. Last(Append(head[c], next)) = next
    BY <2>1, Appended DEF Last
  <2> QED BY <2>2
<1>5. head[c] = <<>> => Replays(local.goal)
  BY <1>1, Begun
<1>6. SessionOK(s)'
  <2> HIDE DEF local
  <2>1. local = [pc |-> "ready", clone |-> c, expected |-> head[c], goal |-> local.goal]
    BY DEF local
  <2> QED BY <1>3, <1>4, <1>5, <2>1 DEF SessionOK, Prepared, ChainIInv
<1> QED BY <1>2, <1>3, <1>6, OthersKeep DEF ChainIInv

LEMMA LinkKeeps ==
    ASSUME ChainIInv, NEW s \in Sessions, LinkEvent(s)
    PROVE  ChainIInv'
<1> DEFINE c == session[s].clone
           goal == session[s].goal
           local == [session[s] EXCEPT !.pc = "linked"]
<1>1. /\ c \in Clones /\ Prepared(s) /\ session[s].pc = "ready" /\ LockFree(c)
      /\ head[c] = session[s].expected
      /\ session[s] = [pc |-> "ready", clone |-> c, expected |-> head[c], goal |-> goal]
  BY DEF LinkEvent, MayLink, At, ChainIInv, SessionOK, Prepared
<1>2. /\ session' = [session EXCEPT ![s] = local] /\ UNCHANGED <<head, bundle>>
      /\ events' = [events EXCEPT ![c] = @ \cup {goal}]
      /\ Len(goal) > 1 => SucceedsAsPersisted(Current(head[c]), Current(goal), Last(goal)[1])
  BY DEF LinkEvent, Go
<1>3. local = [pc |-> "linked", clone |-> c, expected |-> head[c], goal |-> goal]
  BY <1>1
<1>4. events' = [d \in Clones |-> IF d = c THEN events[c] \cup {goal} ELSE events[d]]
  BY <1>2 DEF ChainIInv
<1>5. goal = Append(head[c], Last(goal)) /\ (head[c] = <<>> => Replays(goal))
  BY <1>1 DEF Prepared
<1>6. PICK S : head[c] \in Seq(S)
  <2>1. <<>> \in Seq({})
    OBVIOUS
  <2> QED BY <1>1, <2>1 DEF ChainIInv, Replays
<1>7. /\ Len(goal) = Len(head[c]) + 1 /\ Histories(goal) = Histories(head[c]) \cup {goal}
  <2> DEFINE last == Last(goal)
  <2>1. goal = Append(head[c], last)
    BY <1>5
  <2> HIDE DEF last, goal, c
  <2> QED BY <1>6, <2>1, Appended
<1>8. Replays(goal)
  <2>1. CASE head[c] # <<>>
    <3>1. Replays(head[c]) /\ Len(goal) > 1
      BY <1>1, <1>6, <1>7, <2>1 DEF ChainIInv
    <3>2. SucceedsAsPersisted(Current(head[c]), Last(goal)[2], Last(goal)[1])
      BY <1>2, <3>1 DEF Current
    <3> QED BY <1>5, <3>1, <3>2, Grown
  <2> QED BY <1>5, <2>1
<1>9. Histories(goal) \subseteq events'[c]
  <2>1. Histories(head[c]) \subseteq events[c]
    <3>1. CASE head[c] = <<>>
      BY <3>1 DEF Histories, Prefixes
    <3>2. CASE head[c] # <<>>
      BY <1>1, <3>2 DEF ChainIInv, Held
    <3> QED BY <3>1, <3>2
  <2>2. events'[c] = events[c] \cup {goal}
    BY <1>1, <1>4
  <2> QED BY <1>7, <2>1, <2>2 DEF Held
<1>10. session'[s] = local
  BY <1>2 DEF ChainIInv
<1>11. SessionOK(s)'
  BY <1>1, <1>2, <1>3, <1>5, <1>8, <1>9, <1>10 DEF SessionOK, Prepared, Held
<1> QED BY <1>1, <1>2, <1>3, <1>4, <1>11, OthersKeep

LEMMA ImportKeeps ==
    ASSUME ChainIInv, NEW s \in Sessions, NEW c \in Clones, StartImport(s, c)
    PROVE  ChainIInv'
<1> DEFINE local == [pc |-> "installing", clone |-> c, expected |-> <<>>, goal |-> bundle]
<1>1. session' = [session EXCEPT ![s] = local] /\ UNCHANGED <<events, head, bundle>>
  BY DEF StartImport, Go
<1>2. session'[s] = local /\ Replays(bundle) /\ LockFree(c) /\ head[c] = <<>>
  BY <1>1 DEF ChainIInv, StartImport
<1>3. SessionOK(s)'
  BY <1>1, <1>2 DEF SessionOK
<1> QED BY <1>1, <1>2, <1>3, OthersKeep DEF ChainIInv

LEMMA InstallKeeps ==
    ASSUME ChainIInv, NEW s \in Sessions, InstallEvent(s)
    PROVE  ChainIInv'
<1>1. session[s].clone \in Clones /\ UNCHANGED <<head, bundle, session>>
  BY DEF ChainIInv, SessionOK, InstallEvent, At
<1>2. PICK chain : events' = [events EXCEPT ![session[s].clone] = @ \cup {chain}]
  BY DEF InstallEvent
<1>3. /\ events' = [c \in Clones |-> events'[c]]
      /\ \A c \in Clones : events[c] \subseteq events'[c]
  BY <1>1, <1>2 DEF ChainIInv
<1>4. \A c \in Clones : \A h : Held(c, h) => Held(c, h)'
  BY <1>3 DEF Held
<1> QED BY <1>1, <1>3, <1>4 DEF ChainIInv, SessionOK, Prepared, Locking

LEMMA GiveUpKeeps ==
    ASSUME ChainIInv, NEW s \in Sessions, GiveUp(s)
    PROVE  ChainIInv'
<1>1. session' = [session EXCEPT ![s] = NoSession] /\ UNCHANGED <<events, head, bundle>>
  BY DEF GiveUp, Go
<1>2. session'[s] = NoSession
  BY <1>1 DEF ChainIInv
<1>3. SessionOK(s)'
  BY <1>2 DEF SessionOK, NoSession
<1> QED BY <1>1, <1>3, OthersKeep DEF ChainIInv, NoSession

(* HEAD moves to a chain that is there and replays, and was its end.       *)
LEMMA SetHeadGrows ==
    ASSUME ChainIInv, NEW s \in Sessions, SetHead(s)
    PROVE  LET c == session[s].clone
               goal == session[s].goal
           IN  /\ c \in Clones /\ s \in Locking(c)
               /\ Replays(goal) /\ Held(c, goal) /\ IsPrefix(head[c], goal)
<1> DEFINE c == session[s].clone
           goal == session[s].goal
<1>1. CASE At(s, "linked")
  <2>1. /\ c \in Clones /\ goal = Append(head[c], Last(goal)) /\ Replays(goal) /\ Held(c, goal)
        /\ head[c] = <<>> \/ Replays(head[c])
    BY <1>1 DEF ChainIInv, SessionOK, Prepared, At
  <2>2. PICK S : head[c] \in Seq(S)
    <3>1. <<>> \in Seq({})
      OBVIOUS
    <3> QED BY <2>1, <3>1 DEF Replays
  <2>3. IsPrefix(head[c], goal)
    BY <2>1, <2>2, Appended
  <2> QED BY <1>1, <2>1, <2>3 DEF Locking, At
<1>2. CASE At(s, "installing") /\ Histories(goal) \subseteq events[c]
  <2>1. c \in Clones /\ head[c] = <<>> /\ Replays(goal)
    BY <1>2 DEF ChainIInv, SessionOK, At
  <2>2. IsPrefix(<<>>, goal)
    BY <2>1, Whole DEF Replays
  <2> QED BY <1>2, <2>1, <2>2 DEF Locking, At, Held
<1> QED BY <1>1, <1>2 DEF SetHead, MaySetHead

LEMMA SetHeadKeeps ==
    ASSUME ChainIInv, NEW s \in Sessions, SetHead(s)
    PROVE  ChainIInv'
<1> DEFINE c == session[s].clone
           goal == session[s].goal
<1>1. c \in Clones /\ s \in Locking(c) /\ Replays(goal) /\ Held(c, goal)
  BY SetHeadGrows
<1>2. /\ head' = [d \in Clones |-> IF d = c THEN goal ELSE head[d]]
      /\ session' = [t \in Sessions |-> IF t = s THEN NoSession ELSE session[t]]
      /\ UNCHANGED <<events, bundle>>
  BY DEF SetHead, Go, ChainIInv
<1>3. ASSUME NEW t \in Sessions PROVE SessionOK(t)'
  <2>1. CASE t = s
    BY <1>2, <2>1 DEF SessionOK, NoSession
  <2>2. CASE t # s /\ session[t].pc \in {"linked", "installing"}
    <3>1. session[t].clone # c /\ session[t].clone \in Clones
      BY <1>1, <2>2 DEF ChainIInv, Locking, SessionOK, Prepared
    <3>2. session'[t] = session[t] /\ head'[session[t].clone] = head[session[t].clone]
      BY <1>2, <2>2, <3>1
    <3> QED BY <1>2, <3>2 DEF ChainIInv, SessionOK, Prepared, Held
  <2>3. CASE t # s /\ session[t].pc \notin {"linked", "installing"}
    <3>1. session'[t] = session[t]
      BY <1>2, <2>3
    <3> QED BY <2>3, <3>1 DEF ChainIInv, SessionOK, Prepared
  <2> QED BY <2>1, <2>2, <2>3
<1>4. \A d \in Clones : Locking(d)' \subseteq Locking(d)
  BY <1>2 DEF Locking, NoSession
<1>5. \A d \in Clones : head'[d] = <<>> \/ (Replays(head'[d]) /\ Held(d, head[d])')
  BY <1>1, <1>2 DEF ChainIInv, Held
<1> QED BY <1>2, <1>3, <1>4, <1>5 DEF ChainIInv

LEMMA ExportKeeps ==
    ASSUME ChainIInv, NEW c \in Clones, ExportBundle(c)
    PROVE  ChainIInv'
BY DEF ChainIInv, ExportBundle, SessionOK, Prepared, Locking, Held

LEMMA ChainKeeps == ChainIInv /\ [ChainNext]_chainVars => ChainIInv'
<1> SUFFICES ASSUME ChainIInv, [ChainNext]_chainVars PROVE ChainIInv'
  OBVIOUS
<1>1. CASE UNCHANGED chainVars
  BY <1>1 DEF chainVars, ChainIInv, SessionOK, Prepared, Locking, Held
<1>2. CASE ChainNext
  BY <1>2, PrepareKeeps, LinkKeeps, ImportKeeps, InstallKeeps, SetHeadKeeps, GiveUpKeeps,
     ExportKeeps DEF ChainNext
<1> QED BY <1>1, <1>2

(* What every reachable state of the clones satisfies: each HEAD, each     *)
(* bundle and what each session is about to link or install replays, and   *)
(* only the holder of a lock is between an event and its HEAD.             *)
THEOREM ChainInvariance == ChainSpec => []ChainIInv
BY ChainStarts, ChainKeeps, PTL DEF ChainSpec

(* Whoever appends, imports, invalidates or is killed, a chain that was    *)
(* there is kept and grows, and what HEAD names loads.                     *)
THEOREM ChainSafety == ChainSpec => ChainsOnlyGrow
<1>1. ASSUME ChainIInv, ChainIInv', [ChainNext]_chainVars PROVE [ChainStep]_chainVars
  <2> SUFFICES ASSUME NEW c \in Clones, ~ UNCHANGED chainVars
               PROVE  /\ IsPrefix(head[c], head'[c])
                      /\ head'[c] # <<>> => Loads(c, head[c])'
    BY DEF ChainStep
  <2>1. head'[c] = <<>> \/ (Replays(head'[c]) /\ Held(c, head[c])')
    BY <1>1 DEF ChainIInv
  <2>2. head'[c] # <<>> => Loads(c, head[c])'
    BY <2>1 DEF Replays, Held, Loads
  <2>3. CASE head'[c] = head[c]
    <3>1. PICK S : head[c] \in Seq(S)
      <4>1. <<>> \in Seq({})
        OBVIOUS
      <4> QED BY <2>1, <2>3, <4>1 DEF Replays
    <3> QED BY <2>2, <2>3, <3>1 DEF IsPrefix
  <2>4. CASE head'[c] # head[c]
    <3>1. PICK s \in Sessions : SetHead(s)
      BY <1>1, <2>4 DEF ChainNext, Prepare, StartImport, LinkEvent, InstallEvent, GiveUp,
                        ExportBundle, chainVars
    <3>2. c = session[s].clone /\ head'[c] = session[s].goal
      BY <1>1, <2>4, <3>1, SetHeadGrows DEF SetHead, ChainIInv
    <3> QED BY <1>1, <2>2, <3>1, <3>2, SetHeadGrows
  <2> QED BY <2>3, <2>4
<1> QED BY <1>1, ChainInvariance, PTL DEF ChainSpec, ChainsOnlyGrow

---------------------------------------------------------------------------
(* The gate of schema v1. *)

(* A merge that changes nothing of what was reviewed.                      *)
Carried(request, reviewed, target) ==
    /\ request.gate = "pre-pr"
    /\ Changed(reviewed.base, reviewed.final) = reviewed.paths /\ target.tree = reviewed.final
    /\ reviewed.paths \cap Changed(reviewed.base, target.base) = {}

(* What has been decided of a target stands whatever the repository does.  *)
Judged(request, target) ==
    LET reviewed == ReviewOf(request.lineage)
    IN  /\ reviewed.terminal # "escalated"
        /\ \/ target.tree = reviewed.final /\ target.base = reviewed.base /\ target.paths = reviewed.paths
           \/ Carried(request, reviewed, target)

LegacyGateIInv ==
    /\ validator.pc \in {"requested", "decided", "allowed"} =>
          /\ validator.request.gate \in Gates
          /\ \E reviewed \in Reviews : reviewed.lineage = validator.request.lineage
    /\ validator.pc = "decided" =>
          /\ Judged(validator.request, validator.target)
          /\ validator = [pc |-> "decided", request |-> validator.request, target |-> validator.target]
    /\ \A request \in saved : /\ request.gate \in Gates
                              /\ \E reviewed \in Reviews : reviewed.lineage = request.lineage

LEMMA ReviewKnown ==
    ASSUME NEW lineage, \E reviewed \in Reviews : reviewed.lineage = lineage
    PROVE  ReviewOf(lineage) \in Reviews
BY DEF ReviewOf

(* An allow of validateDerivedGate says all that Judged keeps.             *)
LEMMA VerdictJudges ==
    ASSUME NEW request, NEW target, NEW read,
           Verdict(request, ReviewOf(request.lineage), target, read) = "allow"
    PROVE  Judged(request, target)
<1> DEFINE reviewed == ReviewOf(request.lineage)
           compatible == CompatibleAdvance(request, reviewed, target)
           inScope == target.tree = reviewed.final /\ target.paths = reviewed.paths
<1>1. reviewed.terminal # "escalated"
  BY DEF Verdict
<1>2. inScope \/ compatible
  BY <1>1 DEF Verdict
<1>3. target.base = reviewed.base \/ compatible
  BY <1>1, <1>2 DEF Verdict
<1>4. compatible => Carried(request, reviewed, target)
  BY DEF CompatibleAdvance, Carried
<1> QED BY <1>1, <1>2, <1>3, <1>4 DEF Judged

LEMMA GateStarts == GateInit => LegacyGateIInv
BY DEF GateInit, LegacyGateIInv, Idle

LEMMA GateStep == LegacyGateIInv /\ [GateNext]_gateState => LegacyGateIInv'
<1> SUFFICES ASSUME LegacyGateIInv, [GateNext]_gateState PROVE LegacyGateIInv'
  OBVIOUS
<1> USE DEF LegacyGateIInv
<1>1. ASSUME UNCHANGED <<validator, saved>> PROVE LegacyGateIInv'
  BY <1>1 DEF Judged, Carried, ReviewOf, Changed
<1>2. CASE UNCHANGED gateState
  BY <1>1, <1>2 DEF gateState
<1>3. CASE Build
  BY <1>3 DEF Build, Goes
<1>4. CASE Load
  BY <1>4 DEF Load, Goes
<1>5. CASE Decide
  <2>1. saved' = saved /\ validator.pc = "requested"
    BY <1>5 DEF Decide
  <2>2. CASE \E target :
                /\ Verdict(validator.request, ReviewOf(validator.request.lineage), target,
                           validator.read) = "allow"
                /\ Goes([pc |-> "decided", request |-> validator.request, target |-> target])
    <3>1. PICK target :
                /\ Verdict(validator.request, ReviewOf(validator.request.lineage), target,
                           validator.read) = "allow"
                /\ Goes([pc |-> "decided", request |-> validator.request, target |-> target])
      BY <2>2
    <3>2. Judged(validator.request, target)
      BY <3>1, VerdictJudges
    <3>3. validator' = [pc |-> "decided", request |-> validator.request, target |-> target]
      BY <3>1 DEF Goes
    <3>4. Judged(validator.request, target)'
      BY <3>2, <3>3 DEF Judged, Carried, ReviewOf, Changed
    <3> QED BY <2>1, <3>2, <3>3 DEF Judged, Carried, ReviewOf, Changed
  <2>3. CASE Deny
    BY <2>1, <2>3 DEF Deny, Goes, Idle
  <2> QED BY <1>5, <2>2, <2>3 DEF Decide
<1>6. CASE Authorize
  <2>1. CASE Goes([validator EXCEPT !.pc = "allowed"])
    <3>1. validator' = [pc |-> "allowed", request |-> validator.request, target |-> validator.target]
      BY <1>6, <2>1 DEF Authorize, Goes
    <3> QED BY <1>6, <3>1 DEF Authorize
  <2>2. CASE Deny
    BY <1>6, <2>2 DEF Authorize, Deny, Goes, Idle
  <2> QED BY <1>6, <2>1, <2>2 DEF Authorize
<1>7. CASE Return
  BY <1>7 DEF Return, Goes, Idle
<1>8. CASE Edit \/ Commit \/ Uncommit \/ Advance \/ Configure \/ RewritePolicy
  BY <1>1, <1>8 DEF Edit, Commit, Uncommit, Advance, Configure, RewritePolicy, Moves
<1> QED BY <1>2, <1>3, <1>4, <1>5, <1>6, <1>7, <1>8 DEF GateNext, Validate

(* What every reachable state of a validator satisfies: its request is of  *)
(* a review, and what it has decided is the reviewed change.               *)
THEOREM LegacyGateInvariance == GateSpec => []LegacyGateIInv
BY GateStarts, GateStep, PTL DEF GateSpec

(* What the second derivation finds, it finds of the repository that is.   *)
LEMMA PublishesStill ==
    ASSUME NEW request, NEW reviewed, Stands(request, reviewed),
           request.gate \in {"pre-push", "pre-pr"}
    PROVE  /\ request.publication.destination \in Destination
           /\ request.publication.boundary \in Selected(request.gate, request.selector)
<1>1. CASE request.gate = "pre-push"
  BY <1>1 DEF Stands, Publication, OfWorktree
<1>2. CASE request.gate = "pre-pr"
  BY <1>2 DEF Stands, Publication, OfWorktree
<1> QED BY <1>1, <1>2

(* What a gate derives is the event it allows.  A pull request is merged.  *)
LEMMA EventIsTarget ==
    ASSUME NEW request, NEW reviewed, NEW target \in Derived(request, reviewed),
           request.gate \in Gates
    PROVE  /\ Stands(request, reviewed)
           /\ target.paths = Changed(target.base, target.tree)
           /\ request.gate # "pre-pr" => Event(request) = <<target.base, target.tree>>
           /\ request.gate = "pre-pr" =>
                 /\ target.base = request.publication.boundary.tip.tree
                 /\ target.tree = HeadTree
<1>0. Stands(request, reviewed)
  BY DEF Derived
<1> DEFINE T(b, t) == [base |-> b, tree |-> t, paths |-> Changed(b, t), head |-> <<>>]
<1>1. CASE request.gate \in OfWorktree
  <2>1. target = T(HeadTree, repo.worktree)
    BY <1>0, <1>1 DEF Derived, OfWorktree
  <2> QED BY <1>0, <1>1, <2>1 DEF Event, OfWorktree
<1>2. CASE request.gate = "pre-push"
  <2>1. target = [T(Last(request.publication.base), HeadTree) EXCEPT !.head = repo.commits]
    BY <1>0, <1>2 DEF Derived, OfWorktree
  <2> QED BY <1>0, <1>2, <2>1 DEF Event, OfWorktree
<1>3. CASE request.gate = "pre-pr"
  <2>1. target = [T(request.publication.boundary.tip.tree, HeadTree) EXCEPT !.head = repo.commits]
    BY <1>0, <1>3 DEF Derived, OfWorktree
  <2> QED BY <1>0, <1>3, <2>1 DEF Event, OfWorktree
<1>4. CASE request.gate = "release"
  <2>1. target = T(repo.commits[Len(repo.commits) - 1], HeadTree)
    BY <1>0, <1>4 DEF Derived, OfWorktree
  <2> QED BY <1>0, <1>4, <2>1 DEF Event, OfWorktree
<1> QED BY <1>1, <1>2, <1>3, <1>4 DEF Gates, OfWorktree

(* A target that was judged takes the reviewed paths, and only those, from *)
(* their reviewed to their final contents.                                 *)
LEMMA JudgedIsCarried ==
    ASSUME NEW request, NEW target \in Derived(request, ReviewOf(request.lineage)),
           Judged(request, target), request.gate \in Gates,
           request.gate = "pre-pr" =>
               Last(UpTo(request.publication.boundary.tip.fork)) = ReviewOf(request.lineage).base
    PROVE  LET reviewed == ReviewOf(request.lineage)
               event == Event(request)
           IN  /\ Changed(event[1], event[2]) = reviewed.paths
               /\ \A p \in reviewed.paths :
                     event[1][p] = reviewed.base[p] /\ event[2][p] = reviewed.final[p]
<1> DEFINE reviewed == ReviewOf(request.lineage)
<1>1. /\ target.paths = Changed(target.base, target.tree)
      /\ request.gate # "pre-pr" => Event(request) = <<target.base, target.tree>>
      /\ request.gate = "pre-pr" =>
             /\ target.base = request.publication.boundary.tip.tree
             /\ target.tree = HeadTree
  BY EventIsTarget
<1>2. CASE request.gate # "pre-pr"
  <2>1. target.tree = reviewed.final /\ target.base = reviewed.base /\ target.paths = reviewed.paths
    BY <1>2 DEF Judged, Carried
  <2> QED BY <1>1, <1>2, <2>1
<1>3. CASE request.gate = "pre-pr"
  <2> DEFINE merged == [p \in TreePaths |-> IF target.tree[p] # reviewed.base[p] THEN target.tree[p]
                                       ELSE target.base[p]]
  <2>1. Event(request) = <<target.base, merged>>
    BY <1>1, <1>3 DEF Event, OfWorktree, Merged
  <2>2. target.tree = reviewed.final /\ Changed(reviewed.base, reviewed.final) = reviewed.paths
    BY <1>1 DEF Judged, Carried
  <2>3. \A p \in reviewed.paths : target.base[p] = reviewed.base[p]
    BY <1>1, <2>2 DEF Judged, Carried, Changed
  <2>4. Changed(target.base, merged) = reviewed.paths
    BY <2>2, <2>3 DEF Changed
  <2>5. \A p \in reviewed.paths : merged[p] = reviewed.final[p]
    BY <2>2 DEF Changed
  <2> HIDE DEF merged
  <2> QED BY <2>1, <2>3, <2>4, <2>5
<1> QED BY <1>2, <1>3

(* What a v1 receipt allows is what was reviewed, and goes where it was    *)
(* asked to, whatever changed since the request was made.                  *)
THEOREM LegacyDeliverySafety == GateSpec => AllowIsReviewed
<1>1. ASSUME LegacyGateIInv, LegacyGateIInv', [GateNext]_gateState,
             validator.pc = "decided", validator'.pc = "allowed"
      PROVE  LET request == validator.request
                 reviewed == ReviewOf(request.lineage)
                 event == Event(request)
             IN  /\ reviewed.terminal = "approved"
                 /\ request.gate \in {"pre-push", "pre-pr"} =>
                       /\ request.publication.destination \in Destination
                       /\ request.publication.boundary \in Selected(request.gate, request.selector)
                 /\ (request.gate = "pre-pr"
                     => Last(UpTo(request.publication.boundary.tip.fork)) = reviewed.base)
                    => /\ Changed(event[1], event[2]) = reviewed.paths
                       /\ \A p \in reviewed.paths :
                             event[1][p] = reviewed.base[p] /\ event[2][p] = reviewed.final[p]
  <2> DEFINE request == validator.request
             reviewed == ReviewOf(request.lineage)
  <2>1. /\ request.gate \in Gates /\ Judged(request, validator.target)
        /\ \E r \in Reviews : r.lineage = request.lineage
    BY <1>1 DEF LegacyGateIInv
  <2>2. Authorize
    <3>1. validator' # validator /\ validator # Idle
      BY <1>1 DEF Idle
    <3>2. CASE Build \/ Load \/ Decide \/ Return
      BY <1>1, <3>2 DEF Build, Load, Decide, Return, Idle
    <3>3. CASE Edit \/ Commit \/ Uncommit \/ Advance \/ Configure \/ RewritePolicy
      BY <3>1, <3>3 DEF Edit, Commit, Uncommit, Advance, Configure, RewritePolicy, Moves
    <3> QED BY <1>1, <3>1, <3>2, <3>3 DEF GateNext, Validate, gateState
  <2>3. validator.target \in Derived(request, reviewed)
    BY <1>1, <2>2 DEF Authorize, Deny, Goes, Idle
  <2>4. reviewed.terminal = "approved"
    BY <2>1, ReviewKnown, ReviewsAssumption DEF Judged
  <2>5. Stands(request, reviewed)
    BY <2>1, <2>3, EventIsTarget
  <2>6. request.gate \in {"pre-push", "pre-pr"} =>
          /\ request.publication.destination \in Destination
          /\ request.publication.boundary \in Selected(request.gate, request.selector)
    BY <2>5, PublishesStill
  <2>7. (request.gate = "pre-pr" => Last(UpTo(request.publication.boundary.tip.fork)) = reviewed.base)
         => /\ Changed(Event(request)[1], Event(request)[2]) = reviewed.paths
            /\ \A p \in reviewed.paths : /\ Event(request)[1][p] = reviewed.base[p]
                                       /\ Event(request)[2][p] = reviewed.final[p]
    <3> HIDE DEF request
    <3> QED BY <2>1, <2>3, JudgedIsCarried
  <2> QED BY <2>4, <2>6, <2>7
<1> QED BY <1>1, LegacyGateInvariance, PTL DEF GateSpec, AllowIsReviewed

---------------------------------------------------------------------------
(* A transaction of schema v1. *)

Defects == UNION {[S -> BOOLEAN] : S \in SUBSET DefectIds}

TransactionFields ==
    {"start", "state", "snapshot", "final", "fixDelta", "ledger", "evidence", "proofs", "release",
     "failedEvidence", "counters", "results", "findings", "classes", "outcomes", "fixIds",
     "pending", "fixCaused", "followUps", "checks", "proposed", "actual"}
CounterFields ==
    {"fullReviews", "refuterBatches", "fixBatches", "scopedValidations", "finalVerifications",
     "fixRounds", "scopedRejudgments", "judgeExecutions", "lensExecutions"}

(* t has exactly the fields of a transaction, and c those of its counters. *)
HasFields(t) ==
    t \in [start : {t.start}, state : {t.state}, snapshot : {t.snapshot}, final : {t.final},
           fixDelta : {t.fixDelta}, ledger : {t.ledger}, evidence : {t.evidence},
           proofs : {t.proofs}, release : {t.release}, failedEvidence : {t.failedEvidence},
           counters : {t.counters}, results : {t.results}, findings : {t.findings},
           classes : {t.classes}, outcomes : {t.outcomes}, fixIds : {t.fixIds},
           pending : {t.pending}, fixCaused : {t.fixCaused}, followUps : {t.followUps},
           checks : {t.checks}, proposed : {t.proposed}, actual : {t.actual}]

HasCounters(c) ==
    c \in [fullReviews : Nat, refuterBatches : Nat, fixBatches : Nat, scopedValidations : Nat,
           finalVerifications : Nat, fixRounds : Nat, scopedRejudgments : Nat,
           judgeExecutions : Nat, lensExecutions : {c.lensExecutions}]

IsTransaction(t) ==
    /\ HasFields(t) /\ HasCounters(t.counters)
    /\ t.start \in Starts
    /\ t.results \in Seq(Reports) /\ t.fixCaused \in Seq(Defects)
    /\ t.findings \in Reports
    /\ t.classes = [f \in DOMAIN t.classes |-> t.classes[f]]
    /\ t.outcomes = [f \in DOMAIN t.outcomes |-> t.outcomes[f]]
    /\ \A f \in DOMAIN t.classes : t.classes[f] \in Evidences

LEMMA EmptyReport == <<>> \in Reports /\ <<>> \in Seq(Reports) /\ <<>> \in Seq(Defects)
                     /\ DOMAIN <<>> = {}
<1>1. <<>> \in [{} -> BOOLEAN] /\ DOMAIN <<>> = {}
  OBVIOUS
<1>2. {} \in SUBSET LedgerIds
  OBVIOUS
<1> QED BY <1>1, <1>2 DEF Reports

LEMMA StartedIsTransaction ==
    ASSUME NEW start \in Starts
    PROVE  IsTransaction(Started(start))
<1>1. DOMAIN <<>> = {} /\ <<>> = [f \in {} |-> <<>>[f]]
  OBVIOUS
<1> QED BY EmptyReport, <1>1 DEF IsTransaction, HasFields, HasCounters, Started, NoCounters

(* n differs from t in these fields only. *)
SameBut(fields, t, n) == \A x \in TransactionFields \ fields : n[x] = t[x]
SameCountersBut(fields, t, n) ==
    \A x \in CounterFields \ fields : n.counters[x] = t.counters[x]

(* RecordLensResult. *)
LEMMA LensEffect ==
    ASSUME NEW t, IsTransaction(t), NEW report \in Reports
    PROVE  LET n == WithLensResult(t, report) IN
           /\ IsTransaction(n) /\ SameBut({"results", "counters"}, t, n)
           /\ SameCountersBut({"lensExecutions"}, t, n)
           /\ n.counters.lensExecutions = t.counters.lensExecutions \cup {t.start.lenses[Len(t.results) + 1]}
           /\ n.results = Append(t.results, report)
<1> DEFINE n == WithLensResult(t, report)
           c == [t.counters EXCEPT !.lensExecutions =
                    @ \cup {t.start.lenses[Len(t.results) + 1]}]
<1>1. Append(t.results, report) \in Seq(Reports)
  BY DEF IsTransaction
<1>2. /\ HasCounters(c)
      /\ c.lensExecutions = t.counters.lensExecutions \cup {t.start.lenses[Len(t.results) + 1]}
      /\ \A x \in CounterFields \ {"lensExecutions"} : c[x] = t.counters[x]
  BY DEF IsTransaction, HasCounters, CounterFields
<1>3. n = [t EXCEPT !.results = Append(@, report), !.counters = c]
  BY DEF WithLensResult
<1> HIDE DEF c, n
<1>4. /\ HasFields(n) /\ SameBut({"results", "counters"}, t, n) /\ n.counters = c
      /\ n.results = Append(t.results, report)
  BY <1>3 DEF IsTransaction, HasFields, SameBut, TransactionFields
<1>5. IsTransaction(n)
  BY <1>1, <1>2, <1>4 DEF IsTransaction, SameBut, TransactionFields
<1> QED
  BY <1>2, <1>4, <1>5 DEF SameCountersBut, SameBut, TransactionFields, n

(* RecordJudgeProofs. *)
LEMMA JudgesEffect ==
    ASSUME NEW t, IsTransaction(t)
    PROVE  LET n == WithJudgeProofs(t) IN
           /\ IsTransaction(n) /\ SameBut({"proofs", "state", "counters"}, t, n)
           /\ SameCountersBut({"judgeExecutions"}, t, n)
           /\ n.counters.judgeExecutions = 2
           /\ n.proofs = TRUE
           /\ n.state = "judges_confirmed"
<1> DEFINE n == WithJudgeProofs(t)
           c == [t.counters EXCEPT !.judgeExecutions = 2]
<1>1. /\ HasCounters(c)
      /\ c.judgeExecutions = 2
      /\ \A x \in CounterFields \ {"judgeExecutions"} : c[x] = t.counters[x]
  BY DEF IsTransaction, HasCounters, CounterFields
<1>2. n = [t EXCEPT !.proofs = TRUE, !.state = "judges_confirmed", !.counters = c]
  BY DEF WithJudgeProofs
<1> HIDE DEF c, n
<1>3. /\ HasFields(n) /\ SameBut({"proofs", "state", "counters"}, t, n) /\ n.counters = c
      /\ n.proofs = TRUE
      /\ n.state = "judges_confirmed"
  BY <1>2 DEF IsTransaction, HasFields, SameBut, TransactionFields
<1>4. IsTransaction(n)
  BY <1>1, <1>3 DEF IsTransaction, SameBut, TransactionFields
<1> QED
  BY <1>1, <1>3, <1>4 DEF SameCountersBut, SameBut, TransactionFields, n

(* FreezeFindings. *)
LEMMA FreezeEffect ==
    ASSUME NEW t, IsTransaction(t), NEW findings \in Reports, NEW source
    PROVE  LET n == Frozen(t, findings, source) IN
           /\ IsTransaction(n) /\ SameBut({"findings", "ledger", "outcomes", "state"}, t, n)
           /\ SameCountersBut({}, t, n)
           /\ n.findings = findings
           /\ n.ledger = {<<source, findings>>}
           /\ n.outcomes = Constantly(DOMAIN findings \ Severe(findings), "info")
           /\ n.state = "findings_frozen"
<1> DEFINE n == Frozen(t, findings, source)
<1>1. LET o == Constantly(DOMAIN findings \ Severe(findings), "info")
      IN  o = [f \in DOMAIN o |-> o[f]]
  BY DEF Constantly
<1>2. n = [t EXCEPT !.findings = findings, !.ledger = {<<source, findings>>}, !.state = "findings_frozen",
                        !.outcomes = Constantly(DOMAIN findings \ Severe(findings), "info")]
  BY DEF Frozen
<1> HIDE DEF n
<1>3. /\ HasFields(n) /\ SameBut({"findings", "ledger", "outcomes", "state"}, t, n)
      /\ n.findings = findings
      /\ n.ledger = {<<source, findings>>}
      /\ n.outcomes = Constantly(DOMAIN findings \ Severe(findings), "info")
      /\ n.state = "findings_frozen"
  BY <1>2 DEF IsTransaction, HasFields, SameBut, TransactionFields
<1>4. IsTransaction(n)
  BY <1>1, <1>3 DEF IsTransaction, SameBut, TransactionFields
<1> QED
  BY <1>3, <1>4 DEF SameCountersBut, SameBut, TransactionFields, n

(* Complete and failed refuter batches. *)
Confirmed(t, outcomes) == {f \in t.pending : outcomes[f] = "corroborated"}

LEMMA RefutedEffect ==
    ASSUME NEW t, IsTransaction(t), NEW outcomes
    PROVE  LET n == Refuted(t, outcomes) IN
           /\ IsTransaction(n) /\ SameBut({"outcomes", "pending", "fixIds", "state", "counters"}, t, n)
           /\ SameCountersBut({"refuterBatches"}, t, n)
           /\ n.counters.refuterBatches = t.counters.refuterBatches + 1
           /\ n.outcomes = Extended(t.outcomes, outcomes)
           /\ n.pending = {}
           /\ n.fixIds = t.fixIds \cup Confirmed(t, outcomes)
           /\ n.state = IF \E f \in t.pending : outcomes[f] = "inconclusive"
                        THEN "escalated"
                        ELSE Advanced(t.fixIds \cup Confirmed(t, outcomes))
<1> DEFINE n == Refuted(t, outcomes)
           c == [t.counters EXCEPT !.refuterBatches = @ + 1]
<1>1. LET o == Extended(t.outcomes, outcomes)
      IN  o = [f \in DOMAIN o |-> o[f]]
  BY DEF Extended
<1>2. /\ HasCounters(c)
      /\ c.refuterBatches = t.counters.refuterBatches + 1
      /\ \A x \in CounterFields \ {"refuterBatches"} : c[x] = t.counters[x]
  <2>1. t.counters.refuterBatches + 1 \in Nat
    BY DEF IsTransaction, HasCounters
  <2>2. ASSUME NEW v \in Nat
        PROVE  LET d == [t.counters EXCEPT !.refuterBatches = v] IN
               /\ HasCounters(d) /\ d.refuterBatches = v
               /\ \A x \in CounterFields \ {"refuterBatches"} : d[x] = t.counters[x]
    BY DEF IsTransaction, HasCounters, CounterFields
  <2> QED BY <2>1, <2>2
<1>3. n = [t EXCEPT !.outcomes = Extended(@, outcomes), !.pending = {}, !.counters = c,
                        !.fixIds = @ \cup Confirmed(t, outcomes),
                        !.state = IF \E f \in t.pending : outcomes[f] = "inconclusive"
                                  THEN "escalated"
                                  ELSE Advanced(t.fixIds \cup Confirmed(t, outcomes))]
  BY DEF Refuted, Confirmed
<1> HIDE DEF c, n
<1>4. /\ HasFields(n) /\ SameBut({"outcomes", "pending", "fixIds", "state", "counters"}, t, n) /\ n.counters = c
      /\ n.outcomes = Extended(t.outcomes, outcomes)
      /\ n.pending = {}
      /\ n.fixIds = t.fixIds \cup Confirmed(t, outcomes)
      /\ n.state = IF \E f \in t.pending : outcomes[f] = "inconclusive"
                        THEN "escalated"
                        ELSE Advanced(t.fixIds \cup Confirmed(t, outcomes))
  BY <1>3 DEF IsTransaction, HasFields, SameBut, TransactionFields
<1>5. IsTransaction(n)
  BY <1>1, <1>2, <1>4 DEF IsTransaction, SameBut, TransactionFields
<1> QED
  BY <1>2, <1>4, <1>5 DEF SameCountersBut, SameBut, TransactionFields, n

(* CompleteFix. *)
LEMMA FixEffect ==
    ASSUME NEW t, IsTransaction(t), NEW snapshot, NEW actual
    PROVE  LET n == FixCompleted(t, snapshot, actual) IN
           /\ IsTransaction(n) /\ SameBut({"snapshot", "final", "fixDelta", "actual", "state"}, t, n)
           /\ SameCountersBut({}, t, n)
           /\ n.snapshot = snapshot
           /\ n.final = snapshot.tree
           /\ n.fixDelta = {snapshot}
           /\ n.actual = actual
           /\ n.state = "fix_validating"
<1> DEFINE n == FixCompleted(t, snapshot, actual)
<1>1. n = [t EXCEPT !.snapshot = snapshot, !.final = snapshot.tree, !.fixDelta = {snapshot},
                        !.actual = actual, !.state = "fix_validating"]
  BY DEF FixCompleted
<1> HIDE DEF n
<1>2. /\ HasFields(n) /\ SameBut({"snapshot", "final", "fixDelta", "actual", "state"}, t, n)
      /\ n.snapshot = snapshot
      /\ n.final = snapshot.tree
      /\ n.fixDelta = {snapshot}
      /\ n.actual = actual
      /\ n.state = "fix_validating"
  BY <1>1 DEF IsTransaction, HasFields, SameBut, TransactionFields
<1>3. IsTransaction(n)
  BY <1>2 DEF IsTransaction, SameBut, TransactionFields
<1> QED
  BY <1>2, <1>3 DEF SameCountersBut, SameBut, TransactionFields, n

(* BindReleaseEvidence, and the final verification. *)
LEMMA ReleaseEffect ==
    ASSUME NEW t, IsTransaction(t)
    PROVE  LET n == [t EXCEPT !.release = {t.final}] IN
           /\ IsTransaction(n) /\ SameBut({"release"}, t, n)
           /\ SameCountersBut({}, t, n)
           /\ n.release = {t.final}
<1> DEFINE n == [t EXCEPT !.release = {t.final}]
<1>1. n = [t EXCEPT !.release = {t.final}]
  OBVIOUS
<1> HIDE DEF n
<1>2. /\ HasFields(n) /\ SameBut({"release"}, t, n)
      /\ n.release = {t.final}
  BY <1>1 DEF IsTransaction, HasFields, SameBut, TransactionFields
<1>3. IsTransaction(n)
  BY <1>2 DEF IsTransaction, SameBut, TransactionFields
<1> QED
  BY <1>2, <1>3 DEF SameCountersBut, SameBut, TransactionFields, n

LEMMA VerifyingEffect ==
    ASSUME NEW t, IsTransaction(t)
    PROVE  LET n == Verifying(t) IN
           /\ IsTransaction(n) /\ SameBut({"state", "counters"}, t, n)
           /\ SameCountersBut({"finalVerifications"}, t, n)
           /\ n.counters.finalVerifications = t.counters.finalVerifications + 1
           /\ n.state = "final_verifying"
<1> DEFINE n == Verifying(t)
           c == [t.counters EXCEPT !.finalVerifications = @ + 1]
<1>1. /\ HasCounters(c)
      /\ c.finalVerifications = t.counters.finalVerifications + 1
      /\ \A x \in CounterFields \ {"finalVerifications"} : c[x] = t.counters[x]
  <2>1. t.counters.finalVerifications + 1 \in Nat
    BY DEF IsTransaction, HasCounters
  <2>2. ASSUME NEW v \in Nat
        PROVE  LET d == [t.counters EXCEPT !.finalVerifications = v] IN
               /\ HasCounters(d) /\ d.finalVerifications = v
               /\ \A x \in CounterFields \ {"finalVerifications"} : d[x] = t.counters[x]
    BY DEF IsTransaction, HasCounters, CounterFields
  <2> QED BY <2>1, <2>2
<1>2. n = [t EXCEPT !.state = "final_verifying", !.counters = c]
  BY DEF Verifying
<1> HIDE DEF c, n
<1>3. /\ HasFields(n) /\ SameBut({"state", "counters"}, t, n) /\ n.counters = c
      /\ n.state = "final_verifying"
  BY <1>2 DEF IsTransaction, HasFields, SameBut, TransactionFields
<1>4. IsTransaction(n)
  BY <1>1, <1>3 DEF IsTransaction, SameBut, TransactionFields
<1> QED
  BY <1>1, <1>3, <1>4 DEF SameCountersBut, SameBut, TransactionFields, n

LEMMA VerifiedEffect ==
    ASSUME NEW t, IsTransaction(t), NEW approved
    PROVE  LET n == FinallyVerified(t, approved) IN
           /\ IsTransaction(n) /\ SameBut({"evidence", "state"}, t, n)
           /\ SameCountersBut({}, t, n)
           /\ n.evidence = TRUE
           /\ n.state = IF approved THEN "approved" ELSE "escalated"
<1> DEFINE n == FinallyVerified(t, approved)
<1>1. n = [t EXCEPT !.evidence = TRUE, !.state = IF approved THEN "approved" ELSE "escalated"]
  BY DEF FinallyVerified
<1> HIDE DEF n
<1>2. /\ HasFields(n) /\ SameBut({"evidence", "state"}, t, n)
      /\ n.evidence = TRUE
      /\ n.state = IF approved THEN "approved" ELSE "escalated"
  BY <1>1 DEF IsTransaction, HasFields, SameBut, TransactionFields
<1>3. IsTransaction(n)
  BY <1>2 DEF IsTransaction, SameBut, TransactionFields
<1> QED
  BY <1>2, <1>3 DEF SameCountersBut, SameBut, TransactionFields, n


(* ClassifyEvidence: what is to be fixed, what a refuter is asked, and what   *)
(* escalates.                                                               *)
Of(classes, causality) == {f \in DOMAIN classes : classes[f].causality = causality}
Live(classes, class) == {f \in Of(classes, "candidate") : classes[f].class = class}
AutoOf(t, classes) ==
    Live(classes, "deterministic") \cup IF JudgmentDay(t) THEN Live(classes, "inferential") ELSE {}
ClaimsOf(t, classes) == Live(classes, "inferential") \ AutoOf(t, classes)
DoubtfulOf(classes) == Of(classes, "unknown") \cup Live(classes, "insufficient")
OpenOf(t, classes) == IF DoubtfulOf(classes) = {} THEN ClaimsOf(t, classes) ELSE {}
ClassifiedOutcomes(t, classes) ==
    Extended(t.outcomes,
             [f \in DOMAIN classes \ OpenOf(t, classes) |->
                 IF f \in AutoOf(t, classes) THEN "corroborated"
                 ELSE IF f \in Of(classes, "pre-existing") THEN "info" ELSE "inconclusive"])

LEMMA ClassifiedEffect ==
    ASSUME NEW t, IsTransaction(t), NEW S, NEW classes \in [S -> Evidences]
    PROVE  LET n == Classified(t, classes) IN
           /\ IsTransaction(n) /\ SameBut({"classes", "outcomes", "fixIds", "pending", "followUps", "state"}, t, n)
           /\ SameCountersBut({}, t, n)
           /\ n.classes = classes
           /\ n.outcomes = ClassifiedOutcomes(t, classes)
           /\ n.fixIds = AutoOf(t, classes)
           /\ n.pending = OpenOf(t, classes)
           /\ n.followUps = t.followUps \cup Of(classes, "pre-existing")
           /\ n.state = IF DoubtfulOf(classes) # {} THEN "escalated"
                        ELSE IF OpenOf(t, classes) # {} THEN "evidence_classified"
                        ELSE Advanced(AutoOf(t, classes))
<1> DEFINE n == Classified(t, classes)
<1>1. /\ ClassifiedOutcomes(t, classes) = [f \in DOMAIN ClassifiedOutcomes(t, classes) |->
                                               ClassifiedOutcomes(t, classes)[f]]
      /\ classes = [f \in DOMAIN classes |-> classes[f]]
      /\ \A f \in DOMAIN classes : classes[f] \in Evidences
  BY DEF ClassifiedOutcomes, Extended
<1>2. n = [t EXCEPT !.classes = classes, !.outcomes = ClassifiedOutcomes(t, classes),
                        !.fixIds = AutoOf(t, classes), !.pending = OpenOf(t, classes),
                        !.followUps = @ \cup Of(classes, "pre-existing"),
                        !.state = IF DoubtfulOf(classes) # {} THEN "escalated"
                                  ELSE IF OpenOf(t, classes) # {} THEN "evidence_classified"
                                  ELSE Advanced(AutoOf(t, classes))]
  BY DEF Classified, Of, Live, AutoOf, ClaimsOf, DoubtfulOf, OpenOf, ClassifiedOutcomes
<1> HIDE DEF n
<1>3. /\ HasFields(n) /\ SameBut({"classes", "outcomes", "fixIds", "pending", "followUps", "state"}, t, n)
      /\ n.classes = classes
      /\ n.outcomes = ClassifiedOutcomes(t, classes)
      /\ n.fixIds = AutoOf(t, classes)
      /\ n.pending = OpenOf(t, classes)
      /\ n.followUps = t.followUps \cup Of(classes, "pre-existing")
      /\ n.state = IF DoubtfulOf(classes) # {} THEN "escalated"
                        ELSE IF OpenOf(t, classes) # {} THEN "evidence_classified"
                        ELSE Advanced(AutoOf(t, classes))
  BY <1>2 DEF IsTransaction, HasFields, SameBut, TransactionFields
<1>4. IsTransaction(n)
  BY <1>1, <1>3 DEF IsTransaction, SameBut, TransactionFields
<1> QED
  BY <1>3, <1>4 DEF SameCountersBut, SameBut, TransactionFields, n

(* BeginFix: a forecast over the budget escalates. *)
LEMMA RefusedForecastEffect ==
    ASSUME NEW t, IsTransaction(t), NEW forecast, \E lines \in forecast : lines > t.start.budget
    PROVE  LET n == FixBegun(t, forecast) IN
           /\ IsTransaction(n) /\ SameBut({"failedEvidence", "proposed", "state"}, t, n)
           /\ SameCountersBut({}, t, n)
           /\ n.failedEvidence = TRUE
           /\ n.proposed = forecast
           /\ n.state = "escalated"
<1> DEFINE n == FixBegun(t, forecast)
<1>1. n = [t EXCEPT !.failedEvidence = TRUE, !.proposed = forecast, !.state = "escalated"]
  BY DEF FixBegun
<1> HIDE DEF n
<1>2. /\ HasFields(n) /\ SameBut({"failedEvidence", "proposed", "state"}, t, n)
      /\ n.failedEvidence = TRUE
      /\ n.proposed = forecast
      /\ n.state = "escalated"
  BY <1>1 DEF IsTransaction, HasFields, SameBut, TransactionFields
<1>3. IsTransaction(n)
  BY <1>2 DEF IsTransaction, SameBut, TransactionFields
<1> QED
  BY <1>2, <1>3 DEF SameCountersBut, SameBut, TransactionFields, n

LEMMA JudgedFixEffect ==
    ASSUME NEW t, IsTransaction(t), NEW forecast, JudgmentDay(t),
           ~ \E lines \in forecast : lines > t.start.budget
    PROVE  LET n == FixBegun(t, forecast) IN
           /\ IsTransaction(n) /\ SameBut({"failedEvidence", "proposed", "state", "counters"}, t, n)
           /\ SameCountersBut({"fixRounds"}, t, n)
           /\ n.counters.fixRounds = t.counters.fixRounds + 1
           /\ n.failedEvidence = TRUE
           /\ n.proposed = forecast
           /\ n.state = "fixing"
<1> DEFINE n == FixBegun(t, forecast)
           c == [t.counters EXCEPT !.fixRounds = @ + 1]
<1>1. /\ HasCounters(c)
      /\ c.fixRounds = t.counters.fixRounds + 1
      /\ \A x \in CounterFields \ {"fixRounds"} : c[x] = t.counters[x]
  <2>1. t.counters.fixRounds + 1 \in Nat
    BY DEF IsTransaction, HasCounters
  <2>2. ASSUME NEW v \in Nat
        PROVE  LET d == [t.counters EXCEPT !.fixRounds = v] IN
               /\ HasCounters(d) /\ d.fixRounds = v
               /\ \A x \in CounterFields \ {"fixRounds"} : d[x] = t.counters[x]
    BY DEF IsTransaction, HasCounters, CounterFields
  <2> QED BY <2>1, <2>2
<1>2. n = [t EXCEPT !.failedEvidence = TRUE, !.proposed = forecast, !.state = "fixing",
                        !.counters = c]
  BY DEF FixBegun
<1> HIDE DEF c, n
<1>3. /\ HasFields(n) /\ SameBut({"failedEvidence", "proposed", "state", "counters"}, t, n) /\ n.counters = c
      /\ n.failedEvidence = TRUE
      /\ n.proposed = forecast
      /\ n.state = "fixing"
  BY <1>2 DEF IsTransaction, HasFields, SameBut, TransactionFields
<1>4. IsTransaction(n)
  BY <1>1, <1>3 DEF IsTransaction, SameBut, TransactionFields
<1> QED
  BY <1>1, <1>3, <1>4 DEF SameCountersBut, SameBut, TransactionFields, n

LEMMA OrdinaryFixEffect ==
    ASSUME NEW t, IsTransaction(t), NEW forecast, ~ JudgmentDay(t),
           ~ \E lines \in forecast : lines > t.start.budget
    PROVE  LET n == FixBegun(t, forecast) IN
           /\ IsTransaction(n) /\ SameBut({"failedEvidence", "proposed", "state", "counters"}, t, n)
           /\ SameCountersBut({"fixBatches"}, t, n)
           /\ n.counters.fixBatches = t.counters.fixBatches + 1
           /\ n.failedEvidence = TRUE
           /\ n.proposed = forecast
           /\ n.state = "fixing"
<1> DEFINE n == FixBegun(t, forecast)
           c == [t.counters EXCEPT !.fixBatches = @ + 1]
<1>1. /\ HasCounters(c)
      /\ c.fixBatches = t.counters.fixBatches + 1
      /\ \A x \in CounterFields \ {"fixBatches"} : c[x] = t.counters[x]
  <2>1. t.counters.fixBatches + 1 \in Nat
    BY DEF IsTransaction, HasCounters
  <2>2. ASSUME NEW v \in Nat
        PROVE  LET d == [t.counters EXCEPT !.fixBatches = v] IN
               /\ HasCounters(d) /\ d.fixBatches = v
               /\ \A x \in CounterFields \ {"fixBatches"} : d[x] = t.counters[x]
    BY DEF IsTransaction, HasCounters, CounterFields
  <2> QED BY <2>1, <2>2
<1>2. n = [t EXCEPT !.failedEvidence = TRUE, !.proposed = forecast, !.state = "fixing",
                        !.counters = c]
  BY DEF FixBegun
<1> HIDE DEF c, n
<1>3. /\ HasFields(n) /\ SameBut({"failedEvidence", "proposed", "state", "counters"}, t, n) /\ n.counters = c
      /\ n.failedEvidence = TRUE
      /\ n.proposed = forecast
      /\ n.state = "fixing"
  BY <1>2 DEF IsTransaction, HasFields, SameBut, TransactionFields
<1>4. IsTransaction(n)
  BY <1>1, <1>3 DEF IsTransaction, SameBut, TransactionFields
<1> QED
  BY <1>1, <1>3, <1>4 DEF SameCountersBut, SameBut, TransactionFields, n

(* ValidateFixDelta, of an ordinary review and of a judgment day. *)
LEMMA ValidationEffect ==
    ASSUME NEW t, IsTransaction(t), NEW result, ~ JudgmentDay(t), result.caused = <<>>
    PROVE  LET n == FixValidated(t, result) IN
           /\ IsTransaction(n) /\ SameBut({"fixIds", "fixCaused", "checks", "state", "counters"}, t, n)
           /\ SameCountersBut({"scopedValidations"}, t, n)
           /\ n.counters.scopedValidations = t.counters.scopedValidations + 1
           /\ n.fixIds = t.fixIds
           /\ n.fixCaused = t.fixCaused
           /\ n.checks = IF result.kept THEN {t.fixDelta} ELSE t.checks
           /\ n.state = IF result.approved THEN "ready_final_verification" ELSE "escalated"
<1> DEFINE n == FixValidated(t, result)
           c == [t.counters EXCEPT !.scopedValidations = @ + 1]
<1>1. Severe(result.caused) = {}
  BY EmptyReport DEF Severe
<1>2. /\ HasCounters(c)
      /\ c.scopedValidations = t.counters.scopedValidations + 1
      /\ \A x \in CounterFields \ {"scopedValidations"} : c[x] = t.counters[x]
  <2>1. t.counters.scopedValidations + 1 \in Nat
    BY DEF IsTransaction, HasCounters
  <2>2. ASSUME NEW v \in Nat
        PROVE  LET d == [t.counters EXCEPT !.scopedValidations = v] IN
               /\ HasCounters(d) /\ d.scopedValidations = v
               /\ \A x \in CounterFields \ {"scopedValidations"} : d[x] = t.counters[x]
    BY DEF IsTransaction, HasCounters, CounterFields
  <2> QED BY <2>1, <2>2
<1>3. n = [t EXCEPT !.fixCaused = IF result.caused = <<>> THEN @ ELSE Append(@, result.caused),
                        !.fixIds = @ \cup Severe(result.caused),
                        !.checks = IF result.kept THEN {t.fixDelta} ELSE @,
                        !.counters = c,
                        !.state = IF result.approved THEN "ready_final_verification" ELSE "escalated"]
  BY DEF FixValidated
<1> HIDE DEF c, n
<1>4. /\ HasFields(n) /\ SameBut({"fixIds", "fixCaused", "checks", "state", "counters"}, t, n) /\ n.counters = c
      /\ n.fixIds = t.fixIds
      /\ n.fixCaused = t.fixCaused
      /\ n.checks = IF result.kept THEN {t.fixDelta} ELSE t.checks
      /\ n.state = IF result.approved THEN "ready_final_verification" ELSE "escalated"
  BY <1>1, <1>3 DEF IsTransaction, HasFields, SameBut, TransactionFields
<1>5. IsTransaction(n)
  BY <1>1, <1>2, <1>4 DEF IsTransaction, SameBut, TransactionFields
<1> QED
  BY <1>2, <1>4, <1>5 DEF SameCountersBut, SameBut, TransactionFields, n

LEMMA RejudgmentEffect ==
    ASSUME NEW t, IsTransaction(t), NEW result \in ValidationResults, JudgmentDay(t), ~ result.kept
    PROVE  LET n == FixValidated(t, result) IN
           /\ IsTransaction(n) /\ SameBut({"fixIds", "fixCaused", "checks", "state", "counters"}, t, n)
           /\ SameCountersBut({"scopedRejudgments"}, t, n)
           /\ n.counters.scopedRejudgments = t.counters.scopedRejudgments + 1
           /\ n.fixIds = t.fixIds \cup Severe(result.caused)
           /\ n.fixCaused = IF result.caused = <<>> THEN t.fixCaused ELSE Append(t.fixCaused, result.caused)
           /\ n.checks = t.checks
           /\ n.state = IF result.approved \/ (result.caused # <<>> /\ Severe(result.caused) = {})
                        THEN "ready_final_verification"
                        ELSE IF t.counters.fixRounds >= 2 THEN "escalated" ELSE "fix_required"
<1> DEFINE n == FixValidated(t, result)
           c == [t.counters EXCEPT !.scopedRejudgments = @ + 1]
<1>1. (IF result.caused = <<>> THEN t.fixCaused ELSE Append(t.fixCaused, result.caused)) \in Seq(Defects)
  BY DEF IsTransaction, ValidationResults, Defects
<1>2. /\ HasCounters(c)
      /\ c.scopedRejudgments = t.counters.scopedRejudgments + 1
      /\ \A x \in CounterFields \ {"scopedRejudgments"} : c[x] = t.counters[x]
  <2>1. t.counters.scopedRejudgments + 1 \in Nat
    BY DEF IsTransaction, HasCounters
  <2>2. ASSUME NEW v \in Nat
        PROVE  LET d == [t.counters EXCEPT !.scopedRejudgments = v] IN
               /\ HasCounters(d) /\ d.scopedRejudgments = v
               /\ \A x \in CounterFields \ {"scopedRejudgments"} : d[x] = t.counters[x]
    BY DEF IsTransaction, HasCounters, CounterFields
  <2> QED BY <2>1, <2>2
<1>3. n = [t EXCEPT !.fixCaused = IF result.caused = <<>> THEN @ ELSE Append(@, result.caused),
                        !.fixIds = @ \cup Severe(result.caused),
                        !.checks = IF result.kept THEN {t.fixDelta} ELSE @,
                        !.counters = c,
                        !.state = IF result.approved \/ (result.caused # <<>> /\ Severe(result.caused) = {})
                                  THEN "ready_final_verification"
                                  ELSE IF t.counters.fixRounds >= 2 THEN "escalated" ELSE "fix_required"]
  BY DEF FixValidated
<1> HIDE DEF c, n
<1>4. /\ HasFields(n) /\ SameBut({"fixIds", "fixCaused", "checks", "state", "counters"}, t, n) /\ n.counters = c
      /\ n.fixIds = t.fixIds \cup Severe(result.caused)
      /\ n.fixCaused = IF result.caused = <<>> THEN t.fixCaused ELSE Append(t.fixCaused, result.caused)
      /\ n.checks = t.checks
      /\ n.state = IF result.approved \/ (result.caused # <<>> /\ Severe(result.caused) = {})
                        THEN "ready_final_verification"
                        ELSE IF t.counters.fixRounds >= 2 THEN "escalated" ELSE "fix_required"
  BY <1>3 DEF IsTransaction, HasFields, SameBut, TransactionFields
<1>5. IsTransaction(n)
  BY <1>1, <1>2, <1>4 DEF IsTransaction, SameBut, TransactionFields
<1> QED
  BY <1>2, <1>4, <1>5 DEF SameCountersBut, SameBut, TransactionFields, n

(* Invalidate. *)
LEMMA WithdrawnEffect ==
    ASSUME NEW t, IsTransaction(t)
    PROVE  LET n == Withdrawn(t) IN
           /\ IsTransaction(n) /\ SameBut({"state"}, t, n)
           /\ SameCountersBut({}, t, n)
           /\ n.state = "invalidated"
<1> DEFINE n == Withdrawn(t)
<1>1. n = [t EXCEPT !.state = "invalidated"]
  BY DEF Withdrawn
<1> HIDE DEF n
<1>2. /\ HasFields(n) /\ SameBut({"state"}, t, n)
      /\ n.state = "invalidated"
  BY <1>1 DEF IsTransaction, HasFields, SameBut, TransactionFields
<1>3. IsTransaction(n)
  BY <1>2 DEF IsTransaction, SameBut, TransactionFields
<1> QED
  BY <1>2, <1>3 DEF SameCountersBut, SameBut, TransactionFields, n

---------------------------------------------------------------------------
(* The inductive invariant. *)

Early == Unfrozen \cup {"findings_frozen", "evidence_classified"}
Correcting == {"fix_required", "fixing", "fix_validating"}

(* No correction has begun. *)
Uncorrected(t) ==
    /\ t.counters.refuterBatches = 0 /\ t.counters.fixBatches = 0
    /\ t.counters.scopedValidations = 0 /\ t.counters.fixRounds = 0
    /\ t.counters.scopedRejudgments = 0
    /\ t.fixCaused = <<>> /\ t.proposed = {} /\ t.actual = {} /\ t.checks = {}

(* A correction is under way, and how far it has come. *)
Corrects(t) ==
    /\ t.fixIds # {}
    /\ IF JudgmentDay(t)
       THEN IF t.state = "fix_required"
            THEN t.counters.fixRounds = t.counters.scopedRejudgments /\ t.counters.fixRounds < 2
            ELSE t.counters.fixRounds = t.counters.scopedRejudgments + 1
       ELSE t.counters.scopedValidations = 0
    /\ t.state = "fix_validating" =>
          /\ t.snapshot.kind = "fix-diff" /\ t.snapshot.tree = t.final
          /\ t.snapshot.ledgerIds = t.fixIds /\ t.fixDelta = {t.snapshot}
          /\ JudgmentDay(t) \/ t.snapshot.base = t.start.tree

(* The last report of a defect that is to be fixed says that it is severe. *)
LastSevere(t, f) ==
    \E i \in DOMAIN t.fixCaused :
        /\ f \in DOMAIN t.fixCaused[i] /\ t.fixCaused[i][f]
        /\ \A j \in DOMAIN t.fixCaused : f \in DOMAIN t.fixCaused[j] => j <= i

Replayable(t) ==
    /\ IsTransaction(t) /\ Validates(t)
    /\ t.counters.fullReviews = IF Ordinary4R(t) THEN 1 ELSE 0
    /\ t.state \in Early => Uncorrected(t)
    /\ t.state \in Unfrozen => t.ledger = {}
    /\ t.state \in Correcting => Corrects(t)
    /\ t.state \in Early \cup Correcting => t.counters.finalVerifications = 0 /\ t.release = {}
    /\ t.state \in Early \cup {"fix_required", "fixing"} /\ ~ JudgmentDay(t) =>
          t.final = t.start.tree
    /\ \A f \in t.fixIds \ DOMAIN t.findings : LastSevere(t, f)

LEMMA RoutedByLast ==
    ASSUME NEW t, t.fixCaused \in Seq(Defects), NEW f, f \notin DOMAIN t.findings, LastSevere(t, f)
    PROVE  RoutedSeverely(t, f)
<1>1. PICK i \in DOMAIN t.fixCaused :
         /\ f \in DOMAIN t.fixCaused[i] /\ t.fixCaused[i][f]
         /\ \A j \in DOMAIN t.fixCaused : f \in DOMAIN t.fixCaused[j] => j <= i
  BY DEF LastSevere
<1> DEFINE reports == {j \in DOMAIN t.fixCaused : f \in DOMAIN t.fixCaused[j]}
<1>2. DOMAIN t.fixCaused \subseteq Nat
  OBVIOUS
<1>3. \A j \in reports : (\A k \in reports : k <= j) => j = i
  BY <1>1, <1>2
<1>4. i \in reports /\ \A k \in reports : k <= i
  BY <1>1
<1>5. (CHOOSE j \in reports : \A k \in reports : k <= j) = i
  BY <1>3, <1>4
<1> QED BY <1>1, <1>4, <1>5 DEF RoutedSeverely

LEMMA FreezePasses ==
    ASSUME NEW t, Replayable(t), NEW findings \in Reports, MayFreeze(t, findings),
           NEW source \in {"canonical", "external"}, Bounded(t) => source = "canonical"
    PROVE  LET n == Frozen(t, findings, source) IN
           Replayable(n) /\ SucceedsAsPersisted(t, n, "freeze-findings")
<1> DEFINE n == Frozen(t, findings, source)
<1>1. /\ IsTransaction(n) /\ SameBut({"findings", "ledger", "outcomes", "state"}, t, n)
      /\ SameCountersBut({}, t, n)
      /\ n.findings = findings /\ n.ledger = {<<source, findings>>}
      /\ n.outcomes = Constantly(DOMAIN findings \ Severe(findings), "info")
      /\ n.state = "findings_frozen"
  BY FreezeEffect DEF Replayable
<1>2. /\ n.start = t.start /\ n.fixIds = t.fixIds /\ n.pending = t.pending /\ n.classes = t.classes
      /\ (Bounded(n) <=> Bounded(t)) /\ (JudgmentDay(n) <=> JudgmentDay(t))
      /\ (Ordinary4R(n) <=> Ordinary4R(t))
      /\ t.state \in {"reviewing", "judges_confirmed"}
  BY <1>1 DEF SameBut, TransactionFields, Bounded, JudgmentDay, Ordinary4R, MayFreeze
<1> HIDE DEF n
<1>3. /\ t.findings = <<>> /\ t.classes = <<>> /\ t.outcomes = <<>> /\ t.fixIds = {}
      /\ t.pending = {}
  BY <1>2 DEF Replayable, Validates, FindingsHold, Unfrozen
<1>4. Uncorrected(n) /\ Uncorrected(t)
  BY <1>1, <1>2 DEF Replayable, Uncorrected, SameBut, SameCountersBut, TransactionFields,
                    CounterFields, Early, Unfrozen
<1>5. BudgetHolds(n) /\ ChecksHold(n)
  BY <1>4 DEF Uncorrected, BudgetHolds, ChecksHold
<1>6. CountersHold(n) /\ n.release \subseteq {n.final} /\ n.snapshot.paths \subseteq n.start.paths
  BY <1>1, <1>2 DEF Replayable, Validates, CountersHold, SameBut, SameCountersBut, TransactionFields,
                    CounterFields
<1>7. RoutingHolds(n)
  BY <1>1, <1>2, <1>3, EmptyReport DEF RoutingHolds, Constantly, Severe
<1>8. FindingsHold(n)
  BY <1>1, <1>2, <1>3 DEF FindingsHold, Constantly, Severe, Unfrozen
<1>9. LensesHold(n) /\ JudgesHold(n)
  BY <1>1, <1>2 DEF Replayable, Validates, LensesHold, JudgesHold, SameBut, SameCountersBut,
                    TransactionFields, CounterFields, MayFreeze
<1>10. ResolutionHolds(n)
  BY <1>1 DEF ResolutionHolds
<1>11. Validates(n)
  BY <1>1, <1>5, <1>6, <1>7, <1>8, <1>9, <1>10 DEF Validates
<1>12. Replayable(n)
  BY <1>1, <1>2, <1>3, <1>4, <1>11 DEF Replayable, SameBut, SameCountersBut, TransactionFields,
                    CounterFields, Early, Unfrozen, Correcting
<1>13. NothingRegresses(t, n)
  BY <1>1, <1>2, <1>3, <1>4, EmptyReport DEF NothingRegresses, Preserves, IsPrefix, SameBut, TransactionFields,
       Replayable, Unfrozen, Uncorrected
<1>14. n.counters = t.counters
  BY <1>1 DEF SameBut, TransactionFields
<1>15. CASE source = "canonical"
  <2>1. n = Frozen(t, n.findings, "canonical") /\ MayFreeze(t, n.findings)
    BY <1>1, <1>15 DEF n
  <2>2. <<t.state, n.state>> \in LegalStateTransitions
    BY <1>1, <1>2 DEF LegalStateTransitions
  <2>3. n.counters = CountersAfter(t, n)
    BY <1>1, <1>2, <1>14 DEF CountersAfter
  <2>4. Succeeds(t, n, "freeze-findings")
    BY <1>1, <1>2, <1>13, <1>14, <2>1, <2>2, <2>3 DEF Succeeds, SameBut, TransactionFields
  <2> QED BY <1>12, <2>4 DEF SucceedsAsPersisted, n
<1>16. CASE source = "external"
  BY <1>1, <1>2, <1>12, <1>16 DEF SucceedsAsPersisted, n
<1> QED BY <1>15, <1>16

LEMMA LensPasses ==
    ASSUME NEW t, Replayable(t), MayRecordLens(t), NEW report \in Reports
    PROVE  LET n == WithLensResult(t, report) IN
           Replayable(n) /\ SucceedsAsPersisted(t, n, "record-lens-result")
<1> DEFINE n == WithLensResult(t, report)
<1>1. /\ IsTransaction(n) /\ SameBut({"results", "counters"}, t, n)
      /\ SameCountersBut({"lensExecutions"}, t, n)
      /\ n.counters.lensExecutions =
            t.counters.lensExecutions \cup {t.start.lenses[Len(t.results) + 1]}
      /\ n.results = Append(t.results, report)
  BY LensEffect DEF Replayable
<1>2. /\ n.start = t.start /\ n.state = t.state /\ t.state = "reviewing" /\ Bounded(t)
      /\ ~ JudgmentDay(t) /\ ~ JudgmentDay(n) /\ Bounded(n) /\ ~ Ordinary4R(t) /\ ~ Ordinary4R(n)
      /\ Len(t.results) < Len(t.start.lenses)
  BY <1>1 DEF SameBut, TransactionFields, Bounded, JudgmentDay, Ordinary4R, MayRecordLens
<1>3. n.counters = [t.counters EXCEPT !.lensExecutions =
                       @ \cup {t.start.lenses[Len(t.results) + 1]}]
  BY DEF WithLensResult, Replayable, IsTransaction, HasFields
<1>4. /\ t.results \in Seq(Reports) /\ Len(n.results) = Len(t.results) + 1
      /\ Last(n.results) = report /\ Len(t.results) \in Nat
      /\ \A i \in DOMAIN t.results : n.results[i] = t.results[i]
      /\ DOMAIN n.results = DOMAIN t.results \cup {Len(t.results) + 1}
  BY <1>1 DEF Replayable, IsTransaction, Last
<1>5. n = WithLensResult(t, Last(n.results))
  BY <1>4
<1> HIDE DEF n
<1>6. Uncorrected(n) /\ Uncorrected(t)
  BY <1>1, <1>2 DEF Replayable, Uncorrected, SameBut, SameCountersBut, TransactionFields,
                    CounterFields, Early, Unfrozen
<1>7. BudgetHolds(n) /\ ChecksHold(n)
  BY <1>6 DEF Uncorrected, BudgetHolds, ChecksHold
<1>8. CountersHold(n) /\ n.release \subseteq {n.final} /\ n.snapshot.paths \subseteq n.start.paths
  BY <1>1, <1>2 DEF Replayable, Validates, CountersHold, SameBut, SameCountersBut, TransactionFields,
                    CounterFields
<1>9. RoutingHolds(n) /\ FindingsHold(n)
  <2>1. /\ t.findings = <<>> /\ t.classes = <<>> /\ t.outcomes = <<>> /\ t.fixIds = {}
        /\ t.pending = {}
    BY <1>2 DEF Replayable, Validates, FindingsHold, Unfrozen
  <2> QED BY <1>1, <1>2, <2>1, EmptyReport DEF SameBut, TransactionFields, RoutingHolds, FindingsHold,
             Severe, Unfrozen
<1>10. LensesHold(n)
  <2>1. LensesHold(t) /\ Len(t.start.lenses) \in Nat
    BY <1>2, TransactionAssumption DEF Replayable, Validates, IsTransaction
  <2>2. n.counters.lensExecutions = {n.start.lenses[i] : i \in DOMAIN n.results}
    BY <1>1, <1>2, <1>4, <2>1 DEF LensesHold
  <2> QED BY <1>1, <1>2, <1>4, <2>1, <2>2 DEF LensesHold
<1>11. JudgesHold(n) /\ ResolutionHolds(n)
  BY <1>1, <1>2 DEF Replayable, Validates, JudgesHold, SameBut, SameCountersBut, TransactionFields,
                    CounterFields, ResolutionHolds
<1>12. Validates(n)
  BY <1>2, <1>7, <1>8, <1>9, <1>10, <1>11 DEF Validates
<1>13. Replayable(n)
  BY <1>1, <1>2, <1>6, <1>12 DEF Replayable, SameBut, SameCountersBut, TransactionFields,
                    CounterFields, Early, Unfrozen, Correcting, LastSevere
<1>14. NothingRegresses(t, n)
  BY <1>1, <1>2, <1>6, EmptyReport DEF NothingRegresses, Preserves, IsPrefix, SameBut,
       TransactionFields, Uncorrected
<1>15. n.counters = CountersAfter(t, n)
  BY <1>2, <1>3, <1>4 DEF CountersAfter
<1>16. Succeeds(t, n, "record-lens-result")
  BY <1>1, <1>2, <1>4, <1>5, <1>14, <1>15 DEF Succeeds, SameBut, TransactionFields, MayRecordLens
<1> QED BY <1>13, <1>16 DEF SucceedsAsPersisted, n

LEMMA JudgesPass ==
    ASSUME NEW t, Replayable(t), JudgmentDay(t), t.state = "reviewing"
    PROVE  LET n == WithJudgeProofs(t) IN
           Replayable(n) /\ SucceedsAsPersisted(t, n, "record-judge-proofs")
<1> DEFINE n == WithJudgeProofs(t)
<1>1. /\ IsTransaction(n) /\ SameBut({"proofs", "state", "counters"}, t, n)
      /\ SameCountersBut({"judgeExecutions"}, t, n)
      /\ n.counters.judgeExecutions = 2 /\ n.proofs = TRUE /\ n.state = "judges_confirmed"
  BY JudgesEffect DEF Replayable
<1>2. /\ n.start = t.start /\ ~ Bounded(t) /\ ~ Bounded(n)
      /\ JudgmentDay(n) /\ ~ Ordinary4R(t) /\ ~ Ordinary4R(n)
  BY <1>1 DEF SameBut, TransactionFields, Bounded, JudgmentDay, Ordinary4R
<1>3. n.counters = [t.counters EXCEPT !.judgeExecutions = 2]
  BY DEF WithJudgeProofs, Replayable, IsTransaction, HasFields
<1> HIDE DEF n
<1>6. Uncorrected(n) /\ Uncorrected(t)
  BY <1>1, <1>2 DEF Replayable, Uncorrected, SameBut, SameCountersBut, TransactionFields,
                    CounterFields, Early, Unfrozen
<1>7. BudgetHolds(n) /\ ChecksHold(n)
  BY <1>6 DEF Uncorrected, BudgetHolds, ChecksHold
<1>8. CountersHold(n) /\ n.release \subseteq {n.final} /\ n.snapshot.paths \subseteq n.start.paths
  BY <1>1, <1>2 DEF Replayable, Validates, CountersHold, SameBut, SameCountersBut, TransactionFields,
                    CounterFields
<1>9. RoutingHolds(n) /\ FindingsHold(n)
  <2>1. /\ t.findings = <<>> /\ t.classes = <<>> /\ t.outcomes = <<>> /\ t.fixIds = {}
        /\ t.pending = {}
    BY DEF Replayable, Validates, FindingsHold, Unfrozen
  <2> QED BY <1>1, <1>2, <2>1, EmptyReport DEF SameBut, TransactionFields, RoutingHolds, FindingsHold,
             Severe, Unfrozen
<1>10. LensesHold(n)
  BY <1>1, <1>2 DEF Replayable, Validates, LensesHold, SameBut, SameCountersBut, TransactionFields,
                    CounterFields
<1>11. JudgesHold(n) /\ ResolutionHolds(n)
  BY <1>1, <1>2 DEF JudgesHold, ResolutionHolds
<1>12. Validates(n)
  BY <1>1, <1>2, <1>7, <1>8, <1>9, <1>10, <1>11 DEF Validates
<1>13. Replayable(n)
  BY <1>1, <1>2, <1>6, <1>12 DEF Replayable, SameBut, SameCountersBut, TransactionFields,
                    CounterFields, Early, Unfrozen, Correcting, LastSevere
<1>14. NothingRegresses(t, n)
  BY <1>1, <1>2, <1>6, EmptyReport DEF NothingRegresses, Preserves, IsPrefix, SameBut,
       TransactionFields, Uncorrected
<1>15. n.counters = CountersAfter(t, n) /\ n.counters.lensExecutions = t.counters.lensExecutions
  BY <1>1, <1>2, <1>3 DEF CountersAfter, SameCountersBut, CounterFields
<1>16. <<t.state, n.state>> \in LegalStateTransitions
  BY <1>1 DEF LegalStateTransitions
<1>17. Succeeds(t, n, "record-judge-proofs")
  BY <1>1, <1>2, <1>14, <1>15, <1>16 DEF Succeeds, SameBut, TransactionFields
<1> QED BY <1>13, <1>17 DEF SucceedsAsPersisted, n

LEMMA ClassifyPasses ==
    ASSUME NEW t, Replayable(t), t.state = "findings_frozen",
           NEW classes \in [Severe(t.findings) -> Evidences]
    PROVE  LET n == Classified(t, classes) IN
           Replayable(n) /\ SucceedsAsPersisted(t, n, "classify-evidence")
<1> DEFINE n == Classified(t, classes)
           severe == Severe(t.findings)
           auto == AutoOf(t, classes)
           open == OpenOf(t, classes)
           doubtful == DoubtfulOf(classes)
<1>1. /\ IsTransaction(n) /\ n.classes = classes
      /\ SameBut({"classes", "outcomes", "fixIds", "pending", "followUps", "state"}, t, n)
      /\ n.outcomes = ClassifiedOutcomes(t, classes) /\ n.fixIds = auto /\ n.pending = open
      /\ n.followUps = t.followUps \cup Of(classes, "pre-existing")
      /\ n.state = IF doubtful # {} THEN "escalated"
                   ELSE IF open # {} THEN "evidence_classified" ELSE Advanced(auto)
  BY ClassifiedEffect DEF Replayable
<1>2. /\ n.start = t.start /\ n.counters = t.counters /\ n.findings = t.findings
      /\ n.ledger = t.ledger /\ n.fixCaused = t.fixCaused
      /\ (Bounded(n) <=> Bounded(t)) /\ (JudgmentDay(n) <=> JudgmentDay(t))
      /\ (Ordinary4R(n) <=> Ordinary4R(t))
      /\ ~ (Bounded(t) /\ JudgmentDay(t))
  BY <1>1 DEF SameBut, TransactionFields, Bounded, JudgmentDay, Ordinary4R
<1>3. /\ DOMAIN classes = severe /\ \A f \in severe : classes[f] \in Evidences
      /\ \A f \in severe : /\ classes[f].class \in {"deterministic", "inferential", "insufficient"}
                           /\ classes[f].causality \in {"candidate", "pre-existing", "unknown"}
  BY DEF Evidences
<1>4. /\ auto = {f \in severe : /\ classes[f].causality = "candidate"
                                /\ \/ classes[f].class = "deterministic"
                                   \/ JudgmentDay(t) /\ classes[f].class = "inferential"}
      /\ open = IF doubtful # {} THEN {}
                ELSE {f \in severe : /\ classes[f].causality = "candidate"
                                     /\ classes[f].class = "inferential" /\ ~ JudgmentDay(t)}
      /\ doubtful = {f \in severe : \/ classes[f].causality = "unknown"
                                    \/ /\ classes[f].causality = "candidate"
                                       /\ classes[f].class = "insufficient"}
      /\ Of(classes, "pre-existing") = {f \in severe : classes[f].causality = "pre-existing"}
  BY <1>3 DEF AutoOf, OpenOf, DoubtfulOf, ClaimsOf, Live, Of
<1>5. /\ t.classes = <<>> /\ t.fixIds = {} /\ t.pending = {} /\ severe \cap DOMAIN t.outcomes = {}
      /\ DOMAIN t.outcomes \subseteq DOMAIN t.findings
      /\ \A f \in DOMAIN t.findings \ severe : f \in DOMAIN t.outcomes /\ t.outcomes[f] = "info"
  BY DEF Replayable, Validates, FindingsHold, RoutingHolds, Unfrozen
<1>6. /\ DOMAIN n.outcomes = DOMAIN t.outcomes \cup (severe \ open)
      /\ \A f \in severe \ open :
            n.outcomes[f] = IF f \in auto THEN "corroborated"
                            ELSE IF f \in Of(classes, "pre-existing") THEN "info" ELSE "inconclusive"
      /\ \A f \in DOMAIN t.outcomes : f \notin severe /\ n.outcomes[f] = t.outcomes[f]
  BY <1>1, <1>3, <1>5 DEF ClassifiedOutcomes, Extended
<1> HIDE DEF n, auto, open, doubtful
<1>7. /\ n.state \in {"escalated", "evidence_classified", "fix_required", "ready_final_verification"}
      /\ (n.state = "escalated") = (doubtful # {})
      /\ (n.state = "evidence_classified") = (open # {})
      /\ n.state = "fix_required" => auto # {}
      /\ n.state = "ready_final_verification" => auto = {}
  BY <1>1, <1>4 DEF Advanced
<1>8. Uncorrected(n) /\ Uncorrected(t)
  BY <1>1, <1>2 DEF Replayable, Uncorrected, SameBut, TransactionFields, Early
<1>9. BudgetHolds(n) /\ ChecksHold(n)
  BY <1>8 DEF Uncorrected, BudgetHolds, ChecksHold
<1>10. CountersHold(n) /\ n.release \subseteq {n.final} /\ n.snapshot.paths \subseteq n.start.paths
  BY <1>1, <1>2 DEF Replayable, Validates, CountersHold, SameBut, TransactionFields
<1>11. severe \subseteq DOMAIN n.findings /\ Severe(n.findings) = severe
  BY <1>2 DEF Severe
<1>12. RoutingHolds(n)
  <2>1. \A f \in n.fixIds \cup n.pending : RoutedSeverely(n, f)
    BY <1>1, <1>2, <1>4 DEF RoutedSeverely, Severe
  <2>2. \E source \in {"canonical", "external"} : n.ledger = {<<source, n.findings>>}
    BY <1>2 DEF Replayable, Validates, RoutingHolds, Unfrozen
  <2>3. DOMAIN n.outcomes \subseteq DOMAIN n.findings
    BY <1>2, <1>5, <1>6, <1>11
  <2>4. n.fixIds \cap n.pending = {}
    BY <1>1, <1>4
  <2> QED BY <1>1, <1>2, <1>3, <1>5, <1>6, <1>11, <2>1, <2>2, <2>3, <2>4 DEF RoutingHolds
<1>13. FindingsHold(n)
  <2>1. ASSUME NEW f \in severe
        PROVE  FindingHolds(n, f)
    BY <1>1, <1>2, <1>3, <1>4, <1>6, <1>7, <1>8, <2>1 DEF FindingHolds, Uncorrected
  <2>2. {f \in severe : f \in DOMAIN n.outcomes /\ n.outcomes[f] = "corroborated"} = auto
    BY <1>4, <1>6
  <2>3. UNION {Severe(batch) : batch \in ToSet(n.fixCaused)} = {}
    BY <1>8, EmptyReport DEF Uncorrected, ToSet
  <2>4. n.state # "escalated" =>
           \A f \in severe \cap DOMAIN n.outcomes : n.outcomes[f] # "inconclusive"
    BY <1>3, <1>4, <1>6, <1>7
  <2>5. \/ JudgmentDay(n)
        \/ ~ \E f \in severe : Resolved(n, f)
        \/ \E f \in severe : Escalating(n, f)
    BY <1>1, <1>2, <1>4 DEF Resolved, Escalating
  <2>6. n.state \notin Unfrozen /\ n.state # "findings_frozen"
    BY <1>7 DEF Unfrozen
  <2> QED
    BY <1>1, <1>3, <1>7, <1>11, <2>1, <2>2, <2>3, <2>4, <2>5, <2>6 DEF FindingsHold
<1>14. LensesHold(n) /\ JudgesHold(n)
  BY <1>1, <1>2, <1>7 DEF Replayable, Validates, LensesHold, JudgesHold, SameBut, TransactionFields
<1>15. n.counters.finalVerifications = 0 /\ n.release = {}
  BY <1>1, <1>2 DEF Replayable, Early, SameBut, TransactionFields
<1>16. ResolutionHolds(n)
  BY <1>1, <1>4, <1>7, <1>8, <1>15 DEF ResolutionHolds, Uncorrected
<1>17. Validates(n)
  BY <1>7, <1>9, <1>10, <1>12, <1>13, <1>14, <1>16 DEF Validates
<1>18. Replayable(n)
  <2>1. n.state \in Correcting => Corrects(n)
    BY <1>1, <1>7, <1>8 DEF Correcting, Corrects, Uncorrected
  <2>2. ~ JudgmentDay(n) => n.final = n.start.tree
    BY <1>1, <1>2 DEF Replayable, Early, SameBut, TransactionFields
  <2>3. n.fixIds \subseteq DOMAIN n.findings
    BY <1>1, <1>4, <1>11
  <2> QED BY <1>1, <1>2, <1>7, <1>8, <1>15, <1>17, <2>1, <2>2, <2>3 DEF Replayable, Unfrozen
<1>19. NothingRegresses(t, n)
  BY <1>1, <1>2, <1>5, <1>6, <1>7, <1>8, EmptyReport DEF NothingRegresses, Preserves, IsPrefix,
       SameBut, TransactionFields, Uncorrected
<1>20. n.counters = CountersAfter(t, n)
  BY <1>2, <1>7 DEF CountersAfter
<1>21. <<t.state, n.state>> \in LegalStateTransitions
  BY <1>7 DEF LegalStateTransitions
<1>22. Succeeds(t, n, "classify-evidence")
  BY <1>1, <1>2, <1>7, <1>19, <1>20, <1>21 DEF Succeeds, SameBut, TransactionFields
<1> QED BY <1>18, <1>22 DEF SucceedsAsPersisted, n

LEMMA RefutedPasses ==
    ASSUME NEW t, Replayable(t), t.state = "evidence_classified",
           NEW outcomes \in [t.pending -> {"corroborated", "refuted", "inconclusive"}]
    PROVE  LET n == Refuted(t, outcomes) IN
           Replayable(n) /\ SucceedsAsPersisted(t, n, "apply-refuter-outcomes")
<1> DEFINE n == Refuted(t, outcomes)
           severe == Severe(t.findings)
           confirmed == Confirmed(t, outcomes)
<1>0. IsTransaction(t)
  BY DEF Replayable
<1>1. /\ IsTransaction(n) /\ SameBut({"outcomes", "pending", "fixIds", "state", "counters"}, t, n)
      /\ SameCountersBut({"refuterBatches"}, t, n)
      /\ n.counters.refuterBatches = t.counters.refuterBatches + 1
      /\ n.outcomes = Extended(t.outcomes, outcomes) /\ n.pending = {}
      /\ n.fixIds = t.fixIds \cup confirmed
      /\ n.state = IF \E f \in t.pending : outcomes[f] = "inconclusive"
                   THEN "escalated" ELSE Advanced(t.fixIds \cup confirmed)
  BY <1>0, RefutedEffect
<1>2. /\ n.start = t.start /\ n.findings = t.findings /\ n.classes = t.classes
      /\ n.ledger = t.ledger /\ n.fixCaused = t.fixCaused /\ n.followUps = t.followUps
      /\ (Bounded(n) <=> Bounded(t)) /\ (JudgmentDay(n) <=> JudgmentDay(t))
      /\ (Ordinary4R(n) <=> Ordinary4R(t))
  BY <1>1 DEF SameBut, TransactionFields, Bounded, JudgmentDay, Ordinary4R
<1>3. n.counters = [t.counters EXCEPT !.refuterBatches = @ + 1]
  BY DEF Refuted, Replayable, IsTransaction, HasFields
<1> HIDE DEF n
<1>c. confirmed = {f \in t.pending : outcomes[f] = "corroborated"}
  BY DEF Confirmed
<1>4. /\ Uncorrected(t) /\ t.counters.finalVerifications = 0 /\ t.release = {}
      /\ ~ JudgmentDay(t) => t.final = t.start.tree
  BY DEF Replayable, Early
<1>5. /\ DOMAIN t.classes = severe /\ t.pending # {}
      /\ \A f \in severe : FindingHolds(t, f)
      /\ \A f \in severe \cap DOMAIN t.outcomes : t.outcomes[f] # "inconclusive"
      /\ t.fixIds = {f \in severe : f \in DOMAIN t.outcomes /\ t.outcomes[f] = "corroborated"}
  <2>1. UNION {Severe(batch) : batch \in ToSet(t.fixCaused)} = {}
    BY <1>4, EmptyReport DEF Uncorrected, ToSet
  <2> QED BY <2>1 DEF Replayable, Validates, FindingsHold, Unfrozen
<1>6. t.pending \subseteq severe /\ severe \subseteq DOMAIN t.findings
  BY <1>4, EmptyReport DEF Replayable, Validates, RoutingHolds, RoutedSeverely, Uncorrected, Severe
<1>7. /\ ~ JudgmentDay(t)
      /\ \A f \in t.pending : /\ f \notin DOMAIN t.outcomes /\ t.classes[f].causality # "pre-existing"
                              /\ t.classes[f].causality # "unknown"
                              /\ t.classes[f].class \notin {"insufficient", "deterministic"}
  BY <1>5, <1>6 DEF FindingHolds
<1>8. /\ DOMAIN n.outcomes = DOMAIN t.outcomes \cup t.pending
      /\ \A f \in t.pending : n.outcomes[f] = outcomes[f]
      /\ \A f \in DOMAIN t.outcomes : n.outcomes[f] = t.outcomes[f]
  BY <1>1, <1>7 DEF Extended
<1>9. /\ n.state \in {"escalated", "fix_required", "ready_final_verification"}
      /\ n.state # "escalated" => \A f \in t.pending : outcomes[f] # "inconclusive"
      /\ n.state = "fix_required" => n.fixIds # {}
      /\ n.state = "ready_final_verification" => n.fixIds = {}
  BY <1>1 DEF Advanced
<1>10. n.counters.refuterBatches = 1
  BY <1>1, <1>4 DEF Uncorrected
<1>11. BudgetHolds(n) /\ ChecksHold(n)
  BY <1>1, <1>4 DEF Uncorrected, BudgetHolds, ChecksHold, SameBut, SameCountersBut,
                    TransactionFields, CounterFields
<1>12. CountersHold(n) /\ n.release \subseteq {n.final} /\ n.snapshot.paths \subseteq n.start.paths
  BY <1>1, <1>2, <1>7, <1>10 DEF Replayable, Validates, CountersHold, SameBut, SameCountersBut,
                                TransactionFields, CounterFields
<1>13. RoutingHolds(n)
  <2>1. \A f \in n.fixIds \cup n.pending : RoutedSeverely(n, f)
    BY <1>c, <1>1, <1>2, <1>5, <1>6 DEF RoutedSeverely, Severe
  <2>2. \E source \in {"canonical", "external"} : n.ledger = {<<source, n.findings>>}
    BY <1>2 DEF Replayable, Validates, RoutingHolds, Unfrozen
  <2> QED
    BY <1>1, <1>2, <1>6, <1>8, <2>1, <2>2 DEF Replayable, Validates, RoutingHolds
<1>14. FindingsHold(n)
  <2>1. ASSUME NEW f \in severe
        PROVE  FindingHolds(n, f)
    <3>1. CASE f \in t.pending
      BY <1>1, <1>2, <1>5, <1>7, <1>8, <3>1, <1>c DEF FindingHolds
    <3>2. CASE f \notin t.pending
      BY <1>1, <1>2, <1>5, <1>7, <1>8, <3>2, <1>c DEF FindingHolds
    <3> QED BY <3>1, <3>2
  <2>2. n.fixIds = {f \in severe : f \in DOMAIN n.outcomes /\ n.outcomes[f] = "corroborated"}
    BY <1>c, <1>1, <1>5, <1>6, <1>7, <1>8
  <2>3. UNION {Severe(batch) : batch \in ToSet(n.fixCaused)} = {}
    BY <1>2, <1>4, EmptyReport DEF Uncorrected, ToSet
  <2>4. n.state # "escalated" =>
           \A f \in severe \cap DOMAIN n.outcomes : n.outcomes[f] # "inconclusive"
    BY <1>5, <1>8, <1>9
  <2>5. n.state \notin Unfrozen /\ n.state \notin {"findings_frozen", "evidence_classified"}
    BY <1>9 DEF Unfrozen
  <2> QED BY <1>1, <1>2, <1>5, <1>10, <2>1, <2>2, <2>3, <2>4, <2>5 DEF FindingsHold
<1>15. LensesHold(n) /\ JudgesHold(n)
  BY <1>1, <1>2, <1>9 DEF Replayable, Validates, LensesHold, JudgesHold, SameBut, SameCountersBut,
                         TransactionFields, CounterFields
<1>16. ResolutionHolds(n)
  BY <1>1, <1>2, <1>4, <1>7, <1>9 DEF ResolutionHolds, Uncorrected, SameBut, SameCountersBut,
                                     TransactionFields, CounterFields
<1>17. Validates(n)
  BY <1>9, <1>11, <1>12, <1>13, <1>14, <1>15, <1>16 DEF Validates
<1>18. Replayable(n)
  <2>1. n.state \in Correcting => Corrects(n)
    BY <1>1, <1>2, <1>4, <1>7, <1>9 DEF Correcting, Corrects, Uncorrected, SameCountersBut,
                                       CounterFields
  <2>2. n.final = n.start.tree /\ n.counters.finalVerifications = 0 /\ n.release = {}
    BY <1>1, <1>2, <1>4, <1>7 DEF SameBut, SameCountersBut, TransactionFields, CounterFields
  <2>3. n.fixIds \subseteq DOMAIN n.findings
    BY <1>c, <1>1, <1>2, <1>5, <1>6
  <2>4. n.state \notin Early /\ n.counters.fullReviews = t.counters.fullReviews
    BY <1>1, <1>9 DEF Early, Unfrozen, SameCountersBut, CounterFields
  <2> QED BY <1>1, <1>2, <1>17, <2>1, <2>2, <2>3, <2>4 DEF Replayable, Early
<1>19. NothingRegresses(t, n)
  BY <1>1, <1>2, <1>4, <1>8, EmptyReport DEF NothingRegresses, Preserves, IsPrefix,
       SameBut, TransactionFields, Uncorrected
<1>20. /\ n.counters = CountersAfter(t, n)
       /\ n.counters.lensExecutions = t.counters.lensExecutions
  BY <1>1, <1>3, <1>9 DEF CountersAfter, SameCountersBut, CounterFields
<1>21. <<t.state, n.state>> \in LegalStateTransitions
  BY <1>9 DEF LegalStateTransitions
<1>22. Succeeds(t, n, "apply-refuter-outcomes")
  BY <1>1, <1>2, <1>9, <1>19, <1>20, <1>21 DEF Succeeds, SameBut, TransactionFields
<1> QED BY <1>18, <1>22 DEF SucceedsAsPersisted, n

(* A batch that failed is one in which every answer is inconclusive.       *)
LEMMA RefuterFailedPasses ==
    ASSUME NEW t, Replayable(t), t.state = "evidence_classified"
    PROVE  LET n == RefuterFailed(t) IN
           Replayable(n) /\ SucceedsAsPersisted(t, n, "apply-refuter-outcomes")
<1> DEFINE outcomes == Constantly(t.pending, "inconclusive")
<1>1. outcomes \in [t.pending -> {"corroborated", "refuted", "inconclusive"}]
  BY DEF Constantly
<1>2. \A f \in t.pending : outcomes[f] = "inconclusive"
  BY DEF Constantly
<1>3. t.pending # {}
  BY DEF Replayable, Validates, FindingsHold, Unfrozen
<1> HIDE DEF outcomes
<1>4. /\ t.fixIds \cup {f \in t.pending : outcomes[f] = "corroborated"} = t.fixIds
      /\ \E f \in t.pending : outcomes[f] = "inconclusive"
  BY <1>2, <1>3
<1>5. RefuterFailed(t) = Refuted(t, outcomes)
  BY <1>4 DEF Refuted, RefuterFailed, Replayable, IsTransaction, HasFields, outcomes, Confirmed
<1> QED BY <1>1, <1>5, RefutedPasses

(* What a correction and the final verification leave alone.               *)
FixFields ==
    {"state", "failedEvidence", "proposed", "snapshot", "final", "fixDelta", "actual", "checks",
     "release", "evidence", "counters"}
FixCounters ==
    {"fixRounds", "fixBatches", "scopedValidations", "scopedRejudgments", "finalVerifications"}

Late == Correcting \cup {"ready_final_verification", "final_verifying"}

(* From the first correction on the review's findings stand.               *)
LEMMA FindingsStand ==
    ASSUME NEW t, NEW n, Replayable(t), IsTransaction(n), t.state \in Late,
           n.state \in Late \cup {"approved", "escalated"},
           SameBut(FixFields, t, n), SameCountersBut(FixCounters, t, n)
    PROVE  /\ RoutingHolds(n) /\ FindingsHold(n) /\ LensesHold(n) /\ JudgesHold(n)
           /\ n.counters.fullReviews = IF Ordinary4R(n) THEN 1 ELSE 0
           /\ \A f \in n.fixIds \ DOMAIN n.findings : LastSevere(n, f)
           /\ (Bounded(n) <=> Bounded(t)) /\ (JudgmentDay(n) <=> JudgmentDay(t))
           /\ (Ordinary4R(n) <=> Ordinary4R(t))
           /\ NothingRegresses(t, n)
<1>1. /\ n.start = t.start /\ n.results = t.results /\ n.proofs = t.proofs
      /\ n.findings = t.findings /\ n.ledger = t.ledger /\ n.classes = t.classes
      /\ n.outcomes = t.outcomes /\ n.pending = t.pending /\ n.followUps = t.followUps
      /\ n.fixIds = t.fixIds /\ n.fixCaused = t.fixCaused
      /\ n.counters.lensExecutions = t.counters.lensExecutions
      /\ n.counters.judgeExecutions = t.counters.judgeExecutions
      /\ n.counters.fullReviews = t.counters.fullReviews
      /\ n.counters.refuterBatches = t.counters.refuterBatches
  BY DEF SameBut, SameCountersBut, FixFields, FixCounters, TransactionFields, CounterFields
<1>2. /\ (Bounded(n) <=> Bounded(t)) /\ (JudgmentDay(n) <=> JudgmentDay(t))
      /\ (Ordinary4R(n) <=> Ordinary4R(t))
  BY <1>1 DEF Bounded, JudgmentDay, Ordinary4R
<1>3. \A f \in n.fixIds \ DOMAIN n.findings : LastSevere(n, f)
  BY <1>1 DEF Replayable, LastSevere
<1>4. RoutingHolds(n)
  <2>1. RoutingHolds(t)
    BY DEF Replayable, Validates
  <2>2. \A f \in n.fixIds \cup n.pending : RoutedSeverely(n, f)
    <3>1. ASSUME NEW f \in n.fixIds \cup n.pending, f \in DOMAIN n.findings
          PROVE  n.findings[f]
      BY <1>1, <2>1, <3>1 DEF RoutingHolds, RoutedSeverely
    <3>2. ASSUME NEW f \in n.fixIds \cup n.pending, f \notin DOMAIN n.findings
          PROVE  f \in n.fixIds
      BY <1>1, <3>2 DEF Replayable, Validates, FindingsHold, Late, Correcting, Unfrozen
    <3> QED BY <1>3, <3>1, <3>2, RoutedByLast DEF RoutedSeverely, IsTransaction
  <2>3. \E source \in {"canonical", "external"} : n.ledger = {<<source, n.findings>>}
    BY <1>1, <2>1 DEF RoutingHolds, Unfrozen, Late, Correcting
  <2> QED BY <1>1, <2>1, <2>2, <2>3 DEF RoutingHolds
<1>5. FindingsHold(n)
  <2> DEFINE severe == Severe(t.findings)
  <2>1. FindingsHold(t) /\ t.state \notin Unfrozen /\ t.state # "findings_frozen"
    BY DEF Replayable, Validates, Late, Correcting, Unfrozen
  <2>2. ASSUME NEW f \in severe
        PROVE  FindingHolds(n, f)
    <3>1. FindingHolds(t, f) /\ t.state \notin {"escalated", "evidence_classified"}
      BY <2>1 DEF FindingsHold, Late, Correcting
    <3> QED BY <1>1, <1>2, <3>1 DEF FindingHolds
  <2>3. n.state \notin Unfrozen /\ n.state \notin {"findings_frozen", "evidence_classified"}
    BY DEF Unfrozen, Late, Correcting
  <2>4. /\ DOMAIN n.classes = severe /\ t.pending = {}
        /\ n.fixIds = {f \in severe : f \in DOMAIN n.outcomes /\ n.outcomes[f] = "corroborated"}
                         \cup UNION {Severe(batch) : batch \in ToSet(n.fixCaused)}
    BY <1>1, <2>1 DEF FindingsHold, Late, Correcting
  <2>5. \A f \in severe \cap DOMAIN n.outcomes : n.outcomes[f] # "inconclusive"
    BY <1>1, <2>1 DEF FindingsHold, Late, Correcting
  <2>6. \/ JudgmentDay(n) \/ n.counters.refuterBatches = 1
        \/ ~ \E f \in severe : Resolved(n, f)
        \/ \E f \in severe : Escalating(n, f)
    BY <1>1, <1>2, <2>1 DEF FindingsHold, Resolved, Escalating
  <2> QED BY <1>1, <2>2, <2>3, <2>4, <2>5, <2>6 DEF FindingsHold
<1>6. LensesHold(n) /\ JudgesHold(n)
  BY <1>1, <1>2 DEF Replayable, Validates, LensesHold, JudgesHold, Late, Correcting
<1>7. NothingRegresses(t, n)
  BY <1>1 DEF NothingRegresses, Preserves, IsPrefix, Replayable, IsTransaction
<1> QED BY <1>1, <1>2, <1>3, <1>4, <1>5, <1>6, <1>7 DEF Replayable

(* What BeginFix finds. *)
LEMMA FixRequired ==
    ASSUME NEW t, Replayable(t), t.state = "fix_required"
    PROVE  /\ t.actual = {} \/ t.counters.fixBatches # 0
           /\ ~ JudgmentDay(t) =>
                 /\ t.counters.fixBatches = 0 /\ t.counters.scopedValidations = 0
                 /\ t.final = t.start.tree /\ t.checks = {}
           /\ JudgmentDay(t) =>
                 /\ t.counters.fixRounds = t.counters.scopedRejudgments /\ t.checks = {}
                 /\ t.counters.fixRounds < 2 /\ t.counters.fixBatches = 0
           /\ t.fixIds # {} /\ t.counters.finalVerifications = 0 /\ t.release = {}
           /\ t.actual = {} /\ (~ Bounded(t) => t.proposed = {})
  BY DEF Replayable, Validates, Correcting, Corrects, ResolutionHolds, ChecksHold, BudgetHolds,
         CountersHold, Bounded, JudgmentDay

LEMMA FixPasses ==
    ASSUME NEW t, Replayable(t), NEW forecast \in ForecastChoices(t), MayBeginFix(t, forecast)
    PROVE  LET n == FixBegun(t, forecast) IN
           Replayable(n) /\ SucceedsAsPersisted(t, n, "begin-fix")
<1> DEFINE n == FixBegun(t, forecast)
           over == \E lines \in forecast : lines > t.start.budget
<1>1. IsTransaction(t) /\ t.state = "fix_required"
  BY DEF Replayable, MayBeginFix
<1>2. /\ IsTransaction(n) /\ n.failedEvidence = TRUE /\ n.proposed = forecast
      /\ SameBut({"failedEvidence", "proposed", "state", "counters"}, t, n)
      /\ n.state = IF over THEN "escalated" ELSE "fixing"
      /\ over => n.counters = t.counters
      /\ ~ over /\ JudgmentDay(t) =>
            /\ SameCountersBut({"fixRounds"}, t, n)
            /\ n.counters.fixRounds = t.counters.fixRounds + 1
            /\ n.counters = [t.counters EXCEPT !.fixRounds = @ + 1]
      /\ ~ over /\ ~ JudgmentDay(t) =>
            /\ SameCountersBut({"fixBatches"}, t, n)
            /\ n.counters.fixBatches = t.counters.fixBatches + 1
            /\ n.counters = [t.counters EXCEPT !.fixBatches = @ + 1]
  <2>1. CASE over
    <3>1. /\ IsTransaction(n) /\ SameBut({"failedEvidence", "proposed", "state"}, t, n)
          /\ n.failedEvidence = TRUE /\ n.proposed = forecast /\ n.state = "escalated"
      BY <1>1, <2>1, RefusedForecastEffect
    <3> QED BY <2>1, <3>1 DEF SameBut, TransactionFields
  <2>2. CASE ~ over /\ JudgmentDay(t)
    <3>1. n.counters = [t.counters EXCEPT !.fixRounds = @ + 1]
      BY <1>1, <2>2 DEF FixBegun, IsTransaction, HasFields
    <3>2. /\ IsTransaction(n) /\ SameBut({"failedEvidence", "proposed", "state", "counters"}, t, n)
          /\ SameCountersBut({"fixRounds"}, t, n)
          /\ n.counters.fixRounds = t.counters.fixRounds + 1
          /\ n.failedEvidence = TRUE /\ n.proposed = forecast /\ n.state = "fixing"
      BY <1>1, <2>2, JudgedFixEffect
    <3> HIDE DEF n, over
    <3> QED BY <2>2, <3>1, <3>2
  <2>3. CASE ~ over /\ ~ JudgmentDay(t)
    <3>1. n.counters = [t.counters EXCEPT !.fixBatches = @ + 1]
      BY <1>1, <2>3 DEF FixBegun, IsTransaction, HasFields
    <3>2. /\ IsTransaction(n) /\ SameBut({"failedEvidence", "proposed", "state", "counters"}, t, n)
          /\ SameCountersBut({"fixBatches"}, t, n)
          /\ n.counters.fixBatches = t.counters.fixBatches + 1
          /\ n.failedEvidence = TRUE /\ n.proposed = forecast /\ n.state = "fixing"
      BY <1>1, <2>3, OrdinaryFixEffect
    <3> HIDE DEF n, over
    <3> QED BY <2>3, <3>1, <3>2
  <2> QED BY <2>1, <2>2, <2>3
<1>3. n = FixBegun(t, n.proposed) /\ MayBeginFix(t, n.proposed)
  BY <1>2
<1> HIDE DEF n, over
<1>4. SameBut(FixFields, t, n) /\ SameCountersBut(FixCounters, t, n)
  BY <1>2 DEF SameBut, SameCountersBut, FixFields, FixCounters, TransactionFields, CounterFields
<1>5. /\ RoutingHolds(n) /\ FindingsHold(n) /\ LensesHold(n) /\ JudgesHold(n)
      /\ n.counters.fullReviews = IF Ordinary4R(n) THEN 1 ELSE 0
      /\ \A f \in n.fixIds \ DOMAIN n.findings : LastSevere(n, f)
      /\ (Bounded(n) <=> Bounded(t)) /\ (JudgmentDay(n) <=> JudgmentDay(t))
      /\ (Ordinary4R(n) <=> Ordinary4R(t))
      /\ NothingRegresses(t, n)
  BY <1>1, <1>2, <1>4, FindingsStand DEF Late, Correcting
<1>6. /\ n.start = t.start /\ n.snapshot = t.snapshot /\ n.final = t.final /\ n.actual = t.actual
      /\ n.fixDelta = t.fixDelta /\ n.checks = t.checks /\ n.release = t.release
      /\ n.fixIds = t.fixIds /\ n.results = t.results
      /\ n.counters.scopedValidations = t.counters.scopedValidations
      /\ n.counters.scopedRejudgments = t.counters.scopedRejudgments
      /\ n.counters.finalVerifications = t.counters.finalVerifications
      /\ n.counters.refuterBatches = t.counters.refuterBatches
      /\ n.counters.fullReviews = t.counters.fullReviews
      /\ n.counters.judgeExecutions = t.counters.judgeExecutions
      /\ n.counters.lensExecutions = t.counters.lensExecutions
      /\ n.counters.fixRounds = IF ~ over /\ JudgmentDay(t) THEN t.counters.fixRounds + 1
                                ELSE t.counters.fixRounds
      /\ n.counters.fixBatches = IF ~ over /\ ~ JudgmentDay(t) THEN t.counters.fixBatches + 1
                                 ELSE t.counters.fixBatches
  BY <1>2 DEF SameBut, SameCountersBut, TransactionFields, CounterFields
<1>7. /\ t.start.budget \in Nat
      /\ Bounded(t) => \E lines \in Nat : forecast = {lines} /\ lines > 0
      /\ ~ Bounded(t) => forecast = {} /\ ~ over
  BY <1>1, TransactionAssumption DEF MayBeginFix, ForecastChoices, IsTransaction, over
<1>8. ~ (Bounded(t) /\ JudgmentDay(t)) /\ (over => Bounded(t))
  BY <1>7 DEF Bounded, JudgmentDay
<1>t. t.counters.fixRounds \in Nat /\ t.counters.scopedRejudgments \in Nat
  BY <1>1 DEF IsTransaction, HasCounters
<1>9. BudgetHolds(n)
  BY <1>1, <1>2, <1>5, <1>6, <1>7, <1>8, FixRequired DEF BudgetHolds, over
<1>10. ChecksHold(n)
  BY <1>1, <1>6, FixRequired DEF ChecksHold
<1>11. CountersHold(n) /\ n.release \subseteq {n.final} /\ n.snapshot.paths \subseteq n.start.paths
  <2>1. CountersHold(t) /\ t.release \subseteq {t.final} /\ t.snapshot.paths \subseteq t.start.paths
    BY DEF Replayable, Validates
  <2>2. n.counters.fixRounds <= 2 /\ n.counters.fixBatches <= 1
    BY <1>1, <1>t, <1>6, <2>1, FixRequired DEF CountersHold
  <2>3. CountersHold(n)
    BY <1>1, <1>5, <1>6, <2>1, <2>2, FixRequired DEF CountersHold
  <2> QED BY <1>6, <2>1, <2>3
<1>12. ResolutionHolds(n)
  <2>1. n.fixIds # {} /\ n.failedEvidence /\ n.state \in {"fixing", "escalated"}
    BY <1>1, <1>2, <1>6, FixRequired
  <2>2. ~ over => IF JudgmentDay(t) THEN n.counters.fixRounds \in 1 .. 2 ELSE n.counters.fixBatches = 1
    BY <1>1, <1>t, <1>6, FixRequired
  <2> QED BY <1>2, <1>5, <2>1, <2>2 DEF ResolutionHolds
<1>13. Validates(n)
  BY <1>2, <1>5, <1>9, <1>10, <1>11, <1>12 DEF Validates
<1>14. Replayable(n)
  <2>1. n.state = "fixing" => Corrects(n)
    BY <1>1, <1>2, <1>5, <1>6, FixRequired DEF Corrects
  <2>2. n.state \in {"fixing", "escalated"}
    BY <1>2
  <2> QED BY <1>1, <1>2, <1>5, <1>6, <1>13, <2>1, <2>2, FixRequired DEF Replayable, Early, Correcting, Unfrozen
<1>15. n.counters = CountersAfter(t, n)
  BY <1>1, <1>2, <1>8 DEF CountersAfter
<1>16. <<t.state, n.state>> \in LegalStateTransitions
  BY <1>1, <1>2 DEF LegalStateTransitions
<1>17. Succeeds(t, n, "begin-fix")
  BY <1>1, <1>2, <1>3, <1>5, <1>6, <1>8, <1>15, <1>16 DEF Succeeds
<1> QED BY <1>14, <1>17 DEF SucceedsAsPersisted, n

(* What stays as it was, whatever a correction or the verification does.   *)
LEMMA ScopeStands ==
    ASSUME NEW t, NEW n, SameBut(FixFields, t, n), SameCountersBut(FixCounters, t, n)
    PROVE  /\ n.start = t.start /\ n.results = t.results /\ n.fixIds = t.fixIds
           /\ n.pending = t.pending /\ n.findings = t.findings
           /\ n.counters.lensExecutions = t.counters.lensExecutions
           /\ n.counters.judgeExecutions = t.counters.judgeExecutions
           /\ n.counters.fullReviews = t.counters.fullReviews
           /\ n.counters.refuterBatches = t.counters.refuterBatches
  BY DEF SameBut, SameCountersBut, FixFields, FixCounters, TransactionFields, CounterFields

LEMMA CompletedFixPasses ==
    ASSUME NEW t, Replayable(t), NEW snapshot, NEW actual \in ForecastChoices(t),
           MayCompleteFix(t, snapshot, actual)
    PROVE  LET n == FixCompleted(t, snapshot, actual) IN
           Replayable(n) /\ SucceedsAsPersisted(t, n, "complete-fix")
<1> DEFINE n == FixCompleted(t, snapshot, actual)
<1>0. /\ IsTransaction(t) /\ t.state = "fixing" /\ Corrects(t) /\ t.release = {}
      /\ t.counters.finalVerifications = 0 /\ Validates(t)
      /\ ~ JudgmentDay(t) => t.final = t.start.tree
  BY DEF Replayable, MayCompleteFix, Correcting
<1>1. /\ IsTransaction(n)
      /\ SameBut({"snapshot", "final", "fixDelta", "actual", "state"}, t, n)
      /\ n.snapshot = snapshot /\ n.final = snapshot.tree /\ n.fixDelta = {snapshot}
      /\ n.actual = actual /\ n.state = "fix_validating"
  BY <1>0, FixEffect
<1>2. n = FixCompleted(t, n.snapshot, n.actual) /\ MayCompleteFix(t, n.snapshot, n.actual)
  BY <1>1
<1> HIDE DEF n
<1>3. /\ n.counters = t.counters /\ n.proposed = t.proposed /\ n.checks = t.checks
      /\ n.failedEvidence = t.failedEvidence /\ n.release = t.release
  BY <1>1 DEF SameBut, TransactionFields
<1>4. SameBut(FixFields, t, n) /\ SameCountersBut(FixCounters, t, n)
  BY <1>1, <1>3 DEF SameBut, SameCountersBut, FixFields, TransactionFields
<1>5. /\ RoutingHolds(n) /\ FindingsHold(n) /\ LensesHold(n) /\ JudgesHold(n)
      /\ n.counters.fullReviews = IF Ordinary4R(n) THEN 1 ELSE 0
      /\ \A f \in n.fixIds \ DOMAIN n.findings : LastSevere(n, f)
      /\ (Bounded(n) <=> Bounded(t)) /\ (JudgmentDay(n) <=> JudgmentDay(t))
      /\ (Ordinary4R(n) <=> Ordinary4R(t))
      /\ NothingRegresses(t, n)
  BY <1>0, <1>1, <1>4, FindingsStand DEF Late, Correcting
<1>6. n.start = t.start /\ n.results = t.results /\ n.fixIds = t.fixIds
  BY <1>4, ScopeStands
<1>7. ~ (Bounded(t) /\ JudgmentDay(t))
  BY DEF Bounded, JudgmentDay
<1>8. /\ t.fixIds # {} /\ t.failedEvidence /\ t.checks = {}
      /\ IF JudgmentDay(t) THEN t.counters.fixRounds \in 1 .. 2 ELSE t.counters.fixBatches = 1
  BY <1>0 DEF Validates, ResolutionHolds, ChecksHold, Corrects
<1>9. BudgetHolds(n)
  BY <1>0, <1>1, <1>2, <1>3, <1>5, <1>6, <1>7, <1>8 DEF Validates, BudgetHolds, MayCompleteFix
<1>10. ChecksHold(n) /\ n.release \subseteq {n.final} /\ n.snapshot.paths \subseteq n.start.paths
  BY <1>0, <1>2, <1>3, <1>6, <1>8 DEF ChecksHold, MayCompleteFix
<1>11. CountersHold(n)
  BY <1>0, <1>3, <1>5 DEF Validates, CountersHold
<1>12. ResolutionHolds(n)
  BY <1>1, <1>3, <1>5, <1>6, <1>8 DEF ResolutionHolds
<1>13. Validates(n)
  BY <1>1, <1>5, <1>9, <1>10, <1>11, <1>12 DEF Validates
<1>14. Corrects(n)
  BY <1>0, <1>1, <1>2, <1>3, <1>5, <1>6 DEF Corrects, MayCompleteFix
<1>15. Replayable(n)
  BY <1>0, <1>1, <1>3, <1>5, <1>13, <1>14 DEF Replayable, Early, Unfrozen
<1>16. n.counters = CountersAfter(t, n)
  BY <1>0, <1>1, <1>3 DEF CountersAfter
<1>17. <<t.state, n.state>> \in LegalStateTransitions
  BY <1>0, <1>1 DEF LegalStateTransitions
<1>18. Succeeds(t, n, "complete-fix")
  BY <1>0, <1>1, <1>2, <1>3, <1>5, <1>6, <1>16, <1>17 DEF Succeeds
<1> QED BY <1>15, <1>18 DEF SucceedsAsPersisted, n

(* What ValidateFixDelta finds. *)
LEMMA FixDone ==
    ASSUME NEW t, Replayable(t), t.state = "fix_validating"
    PROVE  /\ IsTransaction(t) /\ Validates(t) /\ t.fixIds # {} /\ t.failedEvidence
           /\ t.checks = {} /\ t.pending = {} /\ t.release = {}
           /\ t.counters.finalVerifications = 0
           /\ t.snapshot.kind = "fix-diff" /\ t.snapshot.tree = t.final
           /\ t.snapshot.ledgerIds = t.fixIds /\ t.fixDelta = {t.snapshot}
           /\ ~ JudgmentDay(t) => /\ t.counters.fixBatches = 1 /\ t.counters.scopedValidations = 0
                                  /\ t.snapshot.base = t.start.tree
           /\ JudgmentDay(t) => /\ t.counters.fixRounds \in 1 .. 2
                                /\ t.counters.fixRounds = t.counters.scopedRejudgments + 1
  BY DEF Replayable, Validates, Correcting, Corrects, ResolutionHolds, ChecksHold, FindingsHold,
         Unfrozen

LEMMA ValidationPasses ==
    ASSUME NEW t, Replayable(t), NEW result \in ValidationResults, MayValidateFix(t, result),
           ~ JudgmentDay(t)
    PROVE  LET n == FixValidated(t, result)
               operation == IF result.kept THEN "validate-targeted-fix" ELSE "validate-fix-delta"
           IN  Replayable(n) /\ SucceedsAsPersisted(t, n, operation)
<1> DEFINE n == FixValidated(t, result)
           operation == IF result.kept THEN "validate-targeted-fix" ELSE "validate-fix-delta"
<1>0. t.state = "fix_validating" /\ result.caused = <<>> /\ IsTransaction(t)
  BY DEF MayValidateFix, Replayable
<1>1. /\ IsTransaction(n) /\ SameBut({"fixIds", "fixCaused", "checks", "state", "counters"}, t, n)
      /\ SameCountersBut({"scopedValidations"}, t, n)
      /\ n.counters.scopedValidations = t.counters.scopedValidations + 1
      /\ n.fixIds = t.fixIds /\ n.fixCaused = t.fixCaused
      /\ n.checks = IF result.kept THEN {t.fixDelta} ELSE t.checks
      /\ n.state = IF result.approved THEN "ready_final_verification" ELSE "escalated"
  BY <1>0, ValidationEffect
<1>2. n.counters = [t.counters EXCEPT !.scopedValidations = @ + 1]
  BY <1>0 DEF FixValidated, IsTransaction, HasFields
<1> HIDE DEF n
<1>3. /\ n.proposed = t.proposed /\ n.actual = t.actual /\ n.fixDelta = t.fixDelta
      /\ n.failedEvidence = t.failedEvidence /\ n.release = t.release /\ n.final = t.final
      /\ n.snapshot = t.snapshot
      /\ n.counters.fixBatches = t.counters.fixBatches
      /\ n.counters.fixRounds = t.counters.fixRounds
      /\ n.counters.scopedRejudgments = t.counters.scopedRejudgments
      /\ n.counters.finalVerifications = t.counters.finalVerifications
  BY <1>1 DEF SameBut, SameCountersBut, TransactionFields, CounterFields
<1>4. SameBut(FixFields, t, n) /\ SameCountersBut(FixCounters, t, n)
  BY <1>1 DEF SameBut, SameCountersBut, FixFields, FixCounters, TransactionFields, CounterFields
<1>5. /\ RoutingHolds(n) /\ FindingsHold(n) /\ LensesHold(n) /\ JudgesHold(n)
      /\ n.counters.fullReviews = IF Ordinary4R(n) THEN 1 ELSE 0
      /\ \A f \in n.fixIds \ DOMAIN n.findings : LastSevere(n, f)
      /\ (Bounded(n) <=> Bounded(t)) /\ ~ JudgmentDay(n)
      /\ (Ordinary4R(n) <=> Ordinary4R(t))
      /\ NothingRegresses(t, n)
  BY <1>0, <1>1, <1>4, FindingsStand DEF Late, Correcting
<1>6. /\ n.start = t.start /\ n.results = t.results /\ n.fixIds = t.fixIds /\ n.pending = t.pending
      /\ n.counters.lensExecutions = t.counters.lensExecutions
      /\ n.counters.judgeExecutions = t.counters.judgeExecutions
      /\ n.counters.fullReviews = t.counters.fullReviews
      /\ n.counters.refuterBatches = t.counters.refuterBatches
  BY <1>4, ScopeStands
<1>7. n.counters.scopedValidations = 1 /\ n.state \in {"ready_final_verification", "escalated"}
  BY <1>0, <1>1, FixDone
<1>8. BudgetHolds(n)
  <2>1. BudgetHolds(t) /\ t.counters.fixBatches = 1
    BY <1>0, FixDone DEF Validates
  <2> QED BY <1>0, <1>3, <1>5, <1>6, <1>7, <2>1 DEF BudgetHolds
<1>9. ChecksHold(n) /\ n.release \subseteq {n.final} /\ n.snapshot.paths \subseteq n.start.paths
  BY <1>0, <1>1, <1>3, <1>5, <1>6, <1>7, FixDone DEF ChecksHold, Validates
<1>10. CountersHold(n)
  BY <1>0, <1>3, <1>5, <1>6, <1>7, FixDone DEF Validates, CountersHold
<1>11. ResolutionHolds(n)
  BY <1>0, <1>3, <1>5, <1>6, <1>7, FixDone DEF ResolutionHolds
<1>12. Validates(n)
  BY <1>5, <1>7, <1>8, <1>9, <1>10, <1>11 DEF Validates
<1>13. Replayable(n)
  BY <1>1, <1>5, <1>7, <1>12 DEF Replayable, Early, Unfrozen, Correcting
<1>14. n.counters = CountersAfter(t, n)
  BY <1>0, <1>2, <1>7 DEF CountersAfter
<1>15. <<t.state, n.state>> \in LegalStateTransitions
  BY <1>0, <1>7 DEF LegalStateTransitions
<1>16. operation = IF n.checks = {} THEN "validate-fix-delta" ELSE "validate-targeted-fix"
  BY <1>0, <1>1, FixDone
<1>17. Succeeds(t, n, operation)
  BY <1>0, <1>3, <1>5, <1>6, <1>7, <1>14, <1>15, <1>16 DEF Succeeds
<1> QED BY <1>13, <1>17 DEF SucceedsAsPersisted, n

(* A re-judgment reports a defect again, and not as severe any more.       *)
Withdraws(t, caused) == \E f \in t.fixIds : f \in DOMAIN caused /\ ~ caused[f]

ReportsTwice(t) ==
    \E i, j \in DOMAIN t.fixCaused :
        i # j /\ DOMAIN t.fixCaused[i] \cap DOMAIN t.fixCaused[j] # {}

LEMMA PrefixOfAppended ==
    ASSUME NEW S, NEW s \in Seq(S), NEW x \in S
    PROVE  IsPrefix(s, s) /\ IsPrefix(s, Append(s, x))
<1>1. Append(s, x) \in Seq(S) /\ Len(Append(s, x)) = Len(s) + 1 /\ Len(s) \in Nat
  OBVIOUS
<1>2. \A i \in 1 .. Len(s) : Append(s, x)[i] = s[i]
  OBVIOUS
<1>3. SubSeq(s, 1, Len(s)) = SubSeq(Append(s, x), 1, Len(s))
  BY <1>1, <1>2
<1> QED BY <1>1, <1>3 DEF IsPrefix

LEMMA RejudgmentPasses ==
    ASSUME NEW t, Replayable(t), NEW result \in ValidationResults, MayValidateFix(t, result),
           JudgmentDay(t)
    PROVE  LET n == FixValidated(t, result) IN
           IF Withdraws(t, result.caused) THEN ~ Validates(n) /\ ReportsTwice(n)
           ELSE Replayable(n) /\ SucceedsAsPersisted(t, n, "validate-fix-delta")
<1> DEFINE n == FixValidated(t, result)
           caused == result.caused
<1>0. /\ t.state = "fix_validating" /\ IsTransaction(t) /\ ~ result.kept
      /\ DOMAIN caused \cap DOMAIN t.findings = {} /\ caused \in Defects
      /\ ~ (result.approved /\ Severe(caused) # {})
      /\ ~ Bounded(t) /\ ~ Ordinary4R(t)
  BY DEF MayValidateFix, Replayable, ValidationResults, Defects, Bounded, JudgmentDay, Ordinary4R
<1>1. /\ IsTransaction(n) /\ SameBut({"fixIds", "fixCaused", "checks", "state", "counters"}, t, n)
      /\ SameCountersBut({"scopedRejudgments"}, t, n)
      /\ n.counters.scopedRejudgments = t.counters.scopedRejudgments + 1
      /\ n.fixIds = t.fixIds \cup Severe(caused) /\ n.checks = t.checks
      /\ n.fixCaused = IF caused = <<>> THEN t.fixCaused ELSE Append(t.fixCaused, caused)
      /\ n.state = IF result.approved \/ (caused # <<>> /\ Severe(caused) = {})
                   THEN "ready_final_verification"
                   ELSE IF t.counters.fixRounds >= 2 THEN "escalated" ELSE "fix_required"
  BY <1>0, RejudgmentEffect
<1>2. n.counters = [t.counters EXCEPT !.scopedRejudgments = @ + 1]
  BY <1>0 DEF FixValidated, IsTransaction, HasFields
<1> HIDE DEF n, caused
<1>3. /\ n.start = t.start /\ n.results = t.results /\ n.proofs = t.proofs
      /\ n.findings = t.findings /\ n.ledger = t.ledger /\ n.classes = t.classes
      /\ n.outcomes = t.outcomes /\ n.pending = t.pending /\ n.followUps = t.followUps
      /\ n.proposed = t.proposed /\ n.actual = t.actual /\ n.fixDelta = t.fixDelta
      /\ n.failedEvidence = t.failedEvidence /\ n.release = t.release /\ n.final = t.final
      /\ n.snapshot = t.snapshot
      /\ n.counters.fixBatches = t.counters.fixBatches
      /\ n.counters.fixRounds = t.counters.fixRounds
      /\ n.counters.scopedValidations = t.counters.scopedValidations
      /\ n.counters.finalVerifications = t.counters.finalVerifications
      /\ n.counters.lensExecutions = t.counters.lensExecutions
      /\ n.counters.judgeExecutions = t.counters.judgeExecutions
      /\ n.counters.fullReviews = t.counters.fullReviews
      /\ n.counters.refuterBatches = t.counters.refuterBatches
  BY <1>1 DEF SameBut, SameCountersBut, TransactionFields, CounterFields
<1>4. JudgmentDay(n) /\ ~ Bounded(n) /\ ~ Ordinary4R(n)
  BY <1>0, <1>3 DEF Bounded, JudgmentDay, Ordinary4R
<1>5. t.fixCaused \in Seq(Defects) /\ Len(t.fixCaused) \in Nat
  BY <1>0 DEF IsTransaction
<1>6. caused # <<>> =>
         /\ n.fixCaused = Append(t.fixCaused, caused)
         /\ DOMAIN n.fixCaused = DOMAIN t.fixCaused \cup {Len(t.fixCaused) + 1}
         /\ \A i \in DOMAIN t.fixCaused : /\ n.fixCaused[i] = t.fixCaused[i] /\ i \in Nat
                                          /\ i < Len(t.fixCaused) + 1
         /\ n.fixCaused[Len(t.fixCaused) + 1] = caused
  BY <1>0, <1>1, <1>5
<1>7. caused = <<>> => DOMAIN caused = {} /\ Severe(caused) = {}
  BY EmptyReport DEF Severe
<1>8. CASE Withdraws(t, caused)
  <2>1. PICK f \in t.fixIds : f \in DOMAIN caused /\ ~ caused[f]
    BY <1>8 DEF Withdraws
  <2>2. caused # <<>> /\ f \notin DOMAIN t.findings
    BY <1>0, <1>7, <2>1
  <2>3. LastSevere(t, f)
    BY <2>1, <2>2 DEF Replayable
  <2>4. ReportsTwice(n)
    BY <1>6, <2>1, <2>2, <2>3 DEF ReportsTwice, LastSevere
  <2> DEFINE last == Len(t.fixCaused) + 1
             reports == {i \in DOMAIN n.fixCaused : f \in DOMAIN n.fixCaused[i]}
  <2>5. /\ last \in reports /\ \A i \in reports : i <= last
        /\ \A i \in reports : (\A j \in reports : j <= i) => i = last
    BY <1>5, <1>6, <2>1, <2>2
  <2>6. (CHOOSE i \in reports : \A j \in reports : j <= i) = last
    BY <2>5
  <2>7. ~ RoutedSeverely(n, f)
    BY <1>3, <1>6, <2>1, <2>2, <2>6 DEF RoutedSeverely
  <2> QED BY <1>1, <1>8, <2>1, <2>4, <2>7 DEF Validates, RoutingHolds, n, caused
<1>9. CASE ~ Withdraws(t, caused)
  <2>1. \A f \in n.fixIds \ DOMAIN n.findings : LastSevere(n, f)
    <3> SUFFICES ASSUME NEW f \in n.fixIds, f \notin DOMAIN n.findings
                 PROVE  LastSevere(n, f)
      OBVIOUS
    <3>1. CASE f \in Severe(caused)
      BY <1>5, <1>6, <1>7, <3>1 DEF LastSevere, Severe
    <3>2. CASE f \notin Severe(caused)
      <4>1. f \in t.fixIds /\ LastSevere(t, f) /\ f \notin DOMAIN caused
        BY <1>1, <1>3, <1>9, <3>2 DEF Replayable, Withdraws, Severe
      <4> QED BY <1>1, <1>6, <4>1 DEF LastSevere
    <3> QED BY <3>1, <3>2
  <2>2. /\ n.state \in {"ready_final_verification", "escalated", "fix_required"}
        /\ n.state = "ready_final_verification" => n.fixIds = t.fixIds
        /\ n.state = "fix_required" => t.counters.fixRounds < 2
        /\ n.fixIds # {}
    <3>1. t.counters.fixRounds \in Nat
      BY <1>0, FixDone
    <3> QED BY <1>0, <1>1, <3>1, FixDone
  <2>3. n.counters.scopedRejudgments = t.counters.fixRounds /\ t.counters.fixRounds \in 1 .. 2
    BY <1>0, <1>1, FixDone
  <2>4. RoutingHolds(n)
    <3>1. RoutingHolds(t)
      BY DEF Replayable, Validates
    <3>2. ASSUME NEW f \in n.fixIds, f \in DOMAIN n.findings
          PROVE  n.findings[f]
      BY <1>0, <1>1, <1>3, <3>1, <3>2 DEF RoutingHolds, RoutedSeverely, Severe
    <3>3. \A f \in n.fixIds \cup n.pending : RoutedSeverely(n, f)
      BY <1>0, <1>1, <1>3, <2>1, <3>2, FixDone, RoutedByLast DEF RoutedSeverely, IsTransaction
    <3>4. \E source \in {"canonical", "external"} : n.ledger = {<<source, n.findings>>}
      BY <1>0, <1>3, <3>1 DEF RoutingHolds, Unfrozen
    <3> QED BY <1>0, <1>3, <3>1, <3>3, <3>4, FixDone DEF RoutingHolds
  <2>5. FindingsHold(n)
    <3> DEFINE severe == Severe(t.findings)
               corroborated == {f \in severe : f \in DOMAIN t.outcomes /\ t.outcomes[f] = "corroborated"}
               DefectsOf(x) == UNION {Severe(batch) : batch \in ToSet(x.fixCaused)}
    <3>1. /\ FindingsHold(t) /\ DOMAIN t.classes = severe /\ t.pending = {}
          /\ t.fixIds = corroborated \cup DefectsOf(t)
          /\ \A f \in severe : FindingHolds(t, f)
          /\ \A f \in severe \cap DOMAIN t.outcomes : t.outcomes[f] # "inconclusive"
      BY <1>0 DEF Replayable, Validates, FindingsHold, Unfrozen
    <3>2. Severe(caused) \cap severe = {}
      BY <1>0 DEF Severe
    <3>3. ASSUME NEW f \in severe
          PROVE  FindingHolds(n, f)
      BY <1>0, <1>1, <1>3, <1>4, <3>1, <3>2, <3>3 DEF FindingHolds
    <3>4. DefectsOf(n) = DefectsOf(t) \cup Severe(caused)
      BY <1>1, <1>6, <1>7 DEF ToSet
    <3>5. n.state \notin Unfrozen /\ n.state \notin {"findings_frozen", "evidence_classified"}
      BY <2>2 DEF Unfrozen
    <3>6. n.fixIds = corroborated \cup DefectsOf(n)
      BY <1>1, <3>1, <3>4
    <3> HIDE DEF DefectsOf
    <3>7. n.fixIds = corroborated \cup UNION {Severe(batch) : batch \in ToSet(n.fixCaused)}
      BY <3>6 DEF DefectsOf
    <3> QED BY <1>3, <1>4, <3>1, <3>3, <3>5, <3>7 DEF FindingsHold
  <2>6. LensesHold(n) /\ JudgesHold(n)
    BY <1>0, <1>3, <1>4, <2>2 DEF Replayable, Validates, LensesHold, JudgesHold
  <2>7. BudgetHolds(n) /\ ChecksHold(n) /\ n.release \subseteq {n.final}
        /\ n.snapshot.paths \subseteq n.start.paths
    BY <1>0, <1>1, <1>3, <1>4, FixDone DEF Validates, BudgetHolds, ChecksHold
  <2>8. CountersHold(n)
    BY <1>0, <1>3, <1>4, <2>3, FixDone DEF Validates, CountersHold
  <2>9. ResolutionHolds(n)
    BY <1>0, <1>3, <1>4, <2>2, <2>3, FixDone DEF ResolutionHolds
  <2>10. Validates(n)
    BY <2>2, <2>4, <2>5, <2>6, <2>7, <2>8, <2>9 DEF Validates
  <2>11. n.state = "fix_required" => Corrects(n)
    BY <1>3, <1>4, <2>2, <2>3 DEF Corrects
  <2>12. Replayable(n)
    BY <1>0, <1>1, <1>3, <1>4, <2>1, <2>2, <2>10, <2>11, FixDone
       DEF Replayable, Early, Unfrozen, Correcting
  <2>13. NothingRegresses(t, n)
    <3>1. IsPrefix(t.fixCaused, n.fixCaused)
      BY <1>0, <1>1, <1>5, PrefixOfAppended
    <3> QED BY <1>0, <1>1, <1>3, <3>1 DEF NothingRegresses, Preserves
  <2>14. n.counters = CountersAfter(t, n)
    BY <1>0, <1>2, <2>2 DEF CountersAfter
  <2>15. <<t.state, n.state>> \in LegalStateTransitions
    BY <1>0, <2>2 DEF LegalStateTransitions
  <2>16. Succeeds(t, n, "validate-fix-delta")
    BY <1>0, <1>1, <1>3, <1>4, <2>2, <2>13, <2>14, <2>15 DEF Succeeds
  <2> QED BY <1>9, <2>12, <2>16 DEF SucceedsAsPersisted, n, caused
<1> QED BY <1>8, <1>9 DEF n, caused

(* What the final verification finds. *)
LEMMA ReadyToVerify ==
    ASSUME NEW t, Replayable(t), t.state \in {"ready_final_verification", "final_verifying"}
    PROVE  /\ IsTransaction(t) /\ Validates(t) /\ ResolutionHolds(t) /\ t.pending = {}
           /\ t.counters.finalVerifications =
                 IF t.state = "ready_final_verification" THEN 0 ELSE 1
  BY DEF Replayable, Validates, ResolutionHolds, ChecksHold

(* A step that changes neither the correction nor its validation.          *)
LEMMA CorrectionStands ==
    ASSUME NEW t, NEW n, Replayable(t), IsTransaction(n),
           t.state \in {"ready_final_verification", "final_verifying"},
           n.state \in {"ready_final_verification", "final_verifying", "approved", "escalated"},
           SameBut({"state", "release", "evidence", "counters"}, t, n),
           SameCountersBut({"finalVerifications"}, t, n),
           n.release \subseteq {n.final}, n.counters.finalVerifications \in {0, 1},
           n.state = "ready_final_verification" => n.counters.finalVerifications = 0,
           n.state \in {"final_verifying", "approved"} => n.counters.finalVerifications = 1,
           n.state = "approved" => n.evidence
    PROVE  /\ Replayable(n) /\ NothingRegresses(t, n)
           /\ n.start = t.start /\ n.results = t.results /\ n.snapshot = t.snapshot
           /\ n.actual = t.actual /\ n.final = t.final /\ n.fixDelta = t.fixDelta
           /\ n.proposed = t.proposed /\ n.checks = t.checks
           /\ n.counters.lensExecutions = t.counters.lensExecutions
<1>1. SameBut(FixFields, t, n) /\ SameCountersBut(FixCounters, t, n)
  BY DEF SameBut, SameCountersBut, FixFields, FixCounters, TransactionFields, CounterFields
<1>2. /\ RoutingHolds(n) /\ FindingsHold(n) /\ LensesHold(n) /\ JudgesHold(n)
      /\ n.counters.fullReviews = IF Ordinary4R(n) THEN 1 ELSE 0
      /\ \A f \in n.fixIds \ DOMAIN n.findings : LastSevere(n, f)
      /\ (Bounded(n) <=> Bounded(t)) /\ (JudgmentDay(n) <=> JudgmentDay(t))
      /\ (Ordinary4R(n) <=> Ordinary4R(t))
      /\ NothingRegresses(t, n)
  BY <1>1, FindingsStand DEF Late, Correcting
<1>3. /\ n.start = t.start /\ n.results = t.results /\ n.fixIds = t.fixIds /\ n.pending = t.pending
      /\ n.counters.lensExecutions = t.counters.lensExecutions
      /\ n.counters.judgeExecutions = t.counters.judgeExecutions
      /\ n.counters.fullReviews = t.counters.fullReviews
      /\ n.counters.refuterBatches = t.counters.refuterBatches
  BY <1>1, ScopeStands
<1>4. /\ n.proposed = t.proposed /\ n.actual = t.actual /\ n.fixDelta = t.fixDelta
      /\ n.failedEvidence = t.failedEvidence /\ n.final = t.final /\ n.ledger = t.ledger
      /\ n.snapshot = t.snapshot /\ n.checks = t.checks
      /\ n.counters.fixBatches = t.counters.fixBatches
      /\ n.counters.fixRounds = t.counters.fixRounds
      /\ n.counters.scopedValidations = t.counters.scopedValidations
      /\ n.counters.scopedRejudgments = t.counters.scopedRejudgments
  BY DEF SameBut, SameCountersBut, TransactionFields, CounterFields
<1>5. Validates(t) /\ ResolutionHolds(t)
  BY ReadyToVerify
<1>6. BudgetHolds(n)
  <2>1. BudgetHolds(t)
    BY <1>5 DEF Validates
  <2> QED BY <1>2, <1>3, <1>4, <2>1 DEF BudgetHolds
<1>7. ChecksHold(n) /\ n.snapshot.paths \subseteq n.start.paths
  BY <1>2, <1>3, <1>4, <1>5 DEF Validates, ChecksHold
<1>8. CountersHold(n)
  BY <1>2, <1>3, <1>4, <1>5 DEF Validates, CountersHold
<1>9. ResolutionHolds(n)
  BY <1>2, <1>3, <1>4, <1>5 DEF ResolutionHolds
<1>10. n.state = "approved" => n.ledger # {} /\ n.evidence
  BY <1>2, <1>4 DEF RoutingHolds, Unfrozen
<1>11. Validates(n)
  BY <1>2, <1>6, <1>7, <1>8, <1>9, <1>10 DEF Validates
<1> QED
  BY <1>2, <1>3, <1>4, <1>11 DEF Replayable, Early, Unfrozen, Correcting

LEMMA ReleasePasses ==
    ASSUME NEW t, Replayable(t), t.state = "ready_final_verification", t.release = {}
    PROVE  LET n == [t EXCEPT !.release = {t.final}] IN
           Replayable(n) /\ SucceedsAsPersisted(t, n, "bind-release-evidence")
<1> DEFINE n == [t EXCEPT !.release = {t.final}]
<1>0. IsTransaction(t) /\ t.counters.finalVerifications = 0
  BY ReadyToVerify
<1>1. /\ IsTransaction(n) /\ SameBut({"release"}, t, n) /\ n.release = {t.final}
  BY <1>0, ReleaseEffect
<1>2. [n EXCEPT !.release = {}] = t
  BY <1>0 DEF IsTransaction, HasFields
<1> HIDE DEF n
<1>3. n.state = t.state /\ n.counters = t.counters /\ n.final = t.final
  BY <1>1 DEF SameBut, TransactionFields
<1>4. /\ SameBut({"state", "release", "evidence", "counters"}, t, n)
      /\ SameCountersBut({"finalVerifications"}, t, n)
  BY <1>1, <1>3 DEF SameBut, SameCountersBut
<1>5. /\ Replayable(n) /\ NothingRegresses(t, n)
      /\ n.start = t.start /\ n.results = t.results /\ n.snapshot = t.snapshot
      /\ n.actual = t.actual /\ n.final = t.final /\ n.fixDelta = t.fixDelta
      /\ n.proposed = t.proposed /\ n.checks = t.checks
      /\ n.counters.lensExecutions = t.counters.lensExecutions
  BY <1>0, <1>1, <1>3, <1>4, CorrectionStands
<1>6. n.counters = CountersAfter(t, n)
  BY <1>3 DEF CountersAfter
<1>7. Succeeds(t, n, "bind-release-evidence")
  BY <1>1, <1>2, <1>3, <1>5, <1>6 DEF Succeeds
<1> QED BY <1>5, <1>7 DEF SucceedsAsPersisted, n

LEMMA VerifyingPasses ==
    ASSUME NEW t, Replayable(t), t.state = "ready_final_verification"
    PROVE  LET n == Verifying(t) IN
           Replayable(n) /\ SucceedsAsPersisted(t, n, "begin-final-verification")
<1> DEFINE n == Verifying(t)
<1>0. IsTransaction(t) /\ t.counters.finalVerifications = 0 /\ t.release \subseteq {t.final}
  BY ReadyToVerify DEF Validates
<1>1. /\ IsTransaction(n) /\ SameBut({"state", "counters"}, t, n) /\ n.state = "final_verifying"
      /\ SameCountersBut({"finalVerifications"}, t, n)
      /\ n.counters.finalVerifications = t.counters.finalVerifications + 1
  BY <1>0, VerifyingEffect
<1>2. n.counters = [t.counters EXCEPT !.finalVerifications = @ + 1]
  BY <1>0 DEF Verifying, IsTransaction, HasFields
<1> HIDE DEF n
<1>3. n.release = t.release /\ n.final = t.final /\ n.counters.finalVerifications = 1
  BY <1>0, <1>1 DEF SameBut, TransactionFields
<1>4. SameBut({"state", "release", "evidence", "counters"}, t, n)
  BY <1>1 DEF SameBut
<1>5. /\ Replayable(n) /\ NothingRegresses(t, n)
      /\ n.start = t.start /\ n.results = t.results /\ n.snapshot = t.snapshot
      /\ n.actual = t.actual /\ n.final = t.final /\ n.fixDelta = t.fixDelta
      /\ n.proposed = t.proposed /\ n.checks = t.checks
      /\ n.counters.lensExecutions = t.counters.lensExecutions
  BY <1>0, <1>1, <1>3, <1>4, CorrectionStands
<1>6. n.counters = CountersAfter(t, n)
  BY <1>1, <1>2 DEF CountersAfter
<1>7. <<t.state, n.state>> \in LegalStateTransitions
  BY <1>1 DEF LegalStateTransitions
<1>8. Succeeds(t, n, "begin-final-verification")
  BY <1>1, <1>3, <1>5, <1>6, <1>7 DEF Succeeds
<1> QED BY <1>5, <1>8 DEF SucceedsAsPersisted, n

LEMMA VerifiedPasses ==
    ASSUME NEW t, Replayable(t), t.state = "final_verifying", NEW approved \in BOOLEAN
    PROVE  LET n == FinallyVerified(t, approved) IN
           Replayable(n) /\ SucceedsAsPersisted(t, n, "complete-final-verification")
<1> DEFINE n == FinallyVerified(t, approved)
<1>0. IsTransaction(t) /\ t.counters.finalVerifications = 1 /\ t.release \subseteq {t.final}
  BY ReadyToVerify DEF Validates
<1>1. /\ IsTransaction(n) /\ SameBut({"evidence", "state"}, t, n) /\ n.evidence = TRUE
      /\ n.state = IF approved THEN "approved" ELSE "escalated"
  BY <1>0, VerifiedEffect
<1> HIDE DEF n
<1>3. n.release = t.release /\ n.final = t.final /\ n.counters = t.counters
  BY <1>1 DEF SameBut, TransactionFields
<1>4. /\ SameBut({"state", "release", "evidence", "counters"}, t, n)
      /\ SameCountersBut({"finalVerifications"}, t, n)
  BY <1>1, <1>3 DEF SameBut, SameCountersBut
<1>5. /\ Replayable(n) /\ NothingRegresses(t, n)
      /\ n.start = t.start /\ n.results = t.results /\ n.snapshot = t.snapshot
      /\ n.actual = t.actual /\ n.final = t.final /\ n.fixDelta = t.fixDelta
      /\ n.proposed = t.proposed /\ n.checks = t.checks
      /\ n.counters.lensExecutions = t.counters.lensExecutions
  BY <1>0, <1>1, <1>3, <1>4, CorrectionStands
<1>6. n.counters = CountersAfter(t, n)
  BY <1>1, <1>3 DEF CountersAfter
<1>7. <<t.state, n.state>> \in LegalStateTransitions
  BY <1>1 DEF LegalStateTransitions
<1>8. Succeeds(t, n, "complete-final-verification")
  BY <1>1, <1>3, <1>5, <1>6, <1>7 DEF Succeeds
<1> QED BY <1>5, <1>8 DEF SucceedsAsPersisted, n

LEMMA StartedIsReplayable ==
    ASSUME NEW start \in Starts
    PROVE  Replayable(Started(start))
<1> DEFINE t == Started(start)
<1>1. /\ IsTransaction(t) /\ t.start = start /\ t.state = "reviewing" /\ t.snapshot.paths = start.paths
      /\ t.final = start.tree /\ t.ledger = {} /\ t.proofs = FALSE /\ t.release = {}
      /\ t.results = <<>> /\ t.findings = <<>> /\ t.classes = <<>> /\ t.outcomes = <<>>
      /\ t.fixIds = {} /\ t.pending = {} /\ t.fixCaused = <<>> /\ t.checks = {}
      /\ t.proposed = {} /\ t.actual = {}
      /\ t.counters = [NoCounters EXCEPT !.fullReviews = IF start.mode = "ordinary_4r" THEN 1 ELSE 0]
  BY StartedIsTransaction DEF Started
<1>2. /\ t.counters.fullReviews = IF Ordinary4R(t) THEN 1 ELSE 0
      /\ Uncorrected(t) /\ t.counters.finalVerifications = 0 /\ t.counters.judgeExecutions = 0
      /\ t.counters.lensExecutions = {}
  BY <1>1 DEF NoCounters, Ordinary4R, Uncorrected
<1> HIDE DEF t
<1>3. BudgetHolds(t) /\ ChecksHold(t) /\ CountersHold(t)
  BY <1>1, <1>2 DEF Uncorrected, BudgetHolds, ChecksHold, CountersHold, Bounded, Ordinary4R
<1>4. RoutingHolds(t) /\ FindingsHold(t)
  BY <1>1, EmptyReport DEF RoutingHolds, FindingsHold, Severe, Unfrozen
<1>5. LensesHold(t)
  BY <1>1, <1>2, EmptyReport, TransactionAssumption DEF LensesHold
<1>6. JudgesHold(t) /\ ResolutionHolds(t)
  BY <1>1, <1>2 DEF JudgesHold, ResolutionHolds
<1>7. Validates(t)
  BY <1>1, <1>3, <1>4, <1>5, <1>6 DEF Validates
<1> QED BY <1>1, <1>2, <1>7 DEF Replayable, Correcting, t

LEMMA WithdrawnPasses ==
    ASSUME NEW t, Replayable(t), Pristine(t)
    PROVE  LET n == Withdrawn(t) IN
           Replayable(n) /\ SucceedsAsPersisted(t, n, "invalidate")
<1> DEFINE n == Withdrawn(t)
<1>0. IsTransaction(t) /\ t.state = "reviewing"
  <2>1. t.state = Started(t.start).state
    BY DEF Pristine
  <2> QED BY <2>1 DEF Replayable, Started
<1>1. IsTransaction(n) /\ SameBut({"state"}, t, n) /\ n.state = "invalidated"
  BY <1>0, WithdrawnEffect
<1>2. Pristine([n EXCEPT !.state = "reviewing"])
  <2>1. [n EXCEPT !.state = "reviewing"] = t
    BY <1>0 DEF Withdrawn, IsTransaction, HasFields
  <2> QED BY <2>1
<1> HIDE DEF n
<1>3. /\ n.start = t.start /\ n.counters = t.counters /\ n.final = t.final /\ n.ledger = t.ledger
      /\ n.proofs = t.proofs /\ n.release = t.release /\ n.snapshot = t.snapshot
      /\ n.results = t.results /\ n.findings = t.findings /\ n.classes = t.classes
      /\ n.outcomes = t.outcomes /\ n.fixIds = t.fixIds /\ n.pending = t.pending
      /\ n.fixCaused = t.fixCaused /\ n.checks = t.checks /\ n.proposed = t.proposed
      /\ n.actual = t.actual /\ n.fixDelta = t.fixDelta
      /\ (Bounded(n) <=> Bounded(t)) /\ (JudgmentDay(n) <=> JudgmentDay(t))
      /\ (Ordinary4R(n) <=> Ordinary4R(t))
  BY <1>1 DEF SameBut, TransactionFields, Bounded, JudgmentDay, Ordinary4R
<1>4. Uncorrected(t) /\ Uncorrected(n) /\ Validates(t)
  BY <1>0, <1>3 DEF Replayable, Uncorrected, Early, Unfrozen
<1>5. BudgetHolds(n) /\ ChecksHold(n)
  BY <1>4 DEF Uncorrected, BudgetHolds, ChecksHold
<1>6. CountersHold(n) /\ n.release \subseteq {n.final} /\ n.snapshot.paths \subseteq n.start.paths
  BY <1>3, <1>4 DEF Validates, CountersHold
<1>7. RoutingHolds(n) /\ FindingsHold(n)
  <2>1. /\ t.findings = <<>> /\ t.classes = <<>> /\ t.outcomes = <<>> /\ t.fixIds = {}
        /\ t.pending = {}
    BY <1>0, <1>4 DEF Validates, FindingsHold, Unfrozen
  <2> QED BY <1>1, <1>3, <2>1, EmptyReport DEF RoutingHolds, FindingsHold, Severe, Unfrozen
<1>8. Validates(n)
  BY <1>1, <1>2, <1>5, <1>6, <1>7 DEF Validates
<1>9. Replayable(n)
  BY <1>0, <1>1, <1>3, <1>4, <1>8 DEF Replayable, Early, Unfrozen, Correcting, LastSevere
<1> QED BY <1>9 DEF SucceedsAsPersisted, n

---------------------------------------------------------------------------
(* The invariant is kept by every step. *)

LEMMA EveryStepPasses ==
    ASSUME NEW t, Replayable(t), NEW step \in Steps(t)
    PROVE  \/ Replayable(step[2]) /\ SucceedsAsPersisted(t, step[2], step[1])
           \/ ~ Validates(step[2]) /\ ReportsTwice(step[2])
<1>1. \/ /\ MayRecordLens(t)
         /\ \E report \in Reports : step = <<"record-lens-result", WithLensResult(t, report)>>
      \/ /\ JudgmentDay(t) /\ t.state = "reviewing"
         /\ step = <<"record-judge-proofs", WithJudgeProofs(t)>>
      \/ \E report \in Reports, source \in {"canonical", "external"} :
            /\ MayFreeze(t, report) /\ (Bounded(t) => source = "canonical")
            /\ step = <<"freeze-findings", Frozen(t, report, source)>>
      \/ /\ t.state = "findings_frozen"
         /\ \E classes \in [Severe(t.findings) -> Evidences] :
               step = <<"classify-evidence", Classified(t, classes)>>
      \/ /\ t.state = "evidence_classified"
         /\ \/ \E outcomes \in [t.pending -> {"corroborated", "refuted", "inconclusive"}] :
                  step = <<"apply-refuter-outcomes", Refuted(t, outcomes)>>
            \/ step = <<"apply-refuter-outcomes", RefuterFailed(t)>>
      \/ \E forecast \in ForecastChoices(t) :
            MayBeginFix(t, forecast) /\ step = <<"begin-fix", FixBegun(t, forecast)>>
      \/ \E fix \in FixSnapshots, actual \in ForecastChoices(t) :
            /\ MayCompleteFix(t, FixSnapshot(t, fix), actual)
            /\ step = <<"complete-fix", FixCompleted(t, FixSnapshot(t, fix), actual)>>
      \/ \E result \in ValidationResults :
            /\ MayValidateFix(t, result)
            /\ step = <<IF result.kept THEN "validate-targeted-fix" ELSE "validate-fix-delta",
                        FixValidated(t, result)>>
      \/ /\ t.state = "ready_final_verification" /\ t.release = {}
         /\ step = <<"bind-release-evidence", [t EXCEPT !.release = {t.final}]>>
      \/ /\ t.state = "ready_final_verification"
         /\ step = <<"begin-final-verification", Verifying(t)>>
      \/ /\ t.state = "final_verifying"
         /\ \E approved \in BOOLEAN :
               step = <<"complete-final-verification", FinallyVerified(t, approved)>>
      \/ Pristine(t) /\ step = <<"invalidate", Withdrawn(t)>>
  BY DEF Steps
<1>2. ASSUME NEW result \in ValidationResults, MayValidateFix(t, result), JudgmentDay(t)
      PROVE  ~ result.kept
  BY <1>2 DEF MayValidateFix
<1> QED
  BY <1>1, <1>2, LensPasses, JudgesPass, FreezePasses, ClassifyPasses, RefutedPasses,
     RefuterFailedPasses, FixPasses, CompletedFixPasses, ValidationPasses, RejudgmentPasses,
     ReleasePasses, VerifyingPasses, VerifiedPasses, WithdrawnPasses

ReplayIInv == Replayable(transaction) /\ \A t \in refused : ReportsTwice(t)

(* Every transaction that a handler has made and a load has taken is one   *)
(* that the handlers may step on from, and what a load has refused reports *)
(* a defect twice.                                                         *)
THEOREM ReplayInvariance == TransactionSpec => []ReplayIInv
<1>1. TransactionInit => ReplayIInv
  BY StartedIsReplayable DEF TransactionInit, ReplayIInv
<1>2. ReplayIInv /\ [TransactionStep]_<<transaction, refused>> => ReplayIInv'
  <2> SUFFICES ASSUME ReplayIInv, [TransactionStep]_<<transaction, refused>> PROVE ReplayIInv'
    OBVIOUS
  <2>1. CASE TransactionStep
    <3>1. PICK step \in Steps(transaction) :
             IF Validates(step[2]) /\ SucceedsAsPersisted(transaction, step[2], step[1])
             THEN transaction' = step[2] /\ UNCHANGED refused
             ELSE refused' = {step[2]} /\ UNCHANGED transaction
      BY <2>1 DEF TransactionStep
    <3>2. \/ Replayable(step[2]) /\ SucceedsAsPersisted(transaction, step[2], step[1])
          \/ ~ Validates(step[2]) /\ ReportsTwice(step[2])
      BY EveryStepPasses DEF ReplayIInv
    <3>3. Replayable(step[2]) => Validates(step[2])
      BY DEF Replayable
    <3> QED BY <3>1, <3>2, <3>3 DEF ReplayIInv
  <2>2. CASE UNCHANGED <<transaction, refused>>
    BY <2>2 DEF ReplayIInv
  <2> QED BY <2>1, <2>2
<1> QED BY <1>1, <1>2, PTL DEF TransactionSpec

LEMMA OverHasReceipt ==
    ASSUME NEW t, Replayable(t), t.state \in {"approved", "escalated"}
    PROVE  HasReceipt(t)
<1>1. CountersHold(t) /\ LensesHold(t) /\ t.release \subseteq {t.final}
  BY DEF Replayable, Validates
<1>2. ASSUME t.state = "approved"
      PROVE  /\ t.counters.finalVerifications = 1
             /\ IF JudgmentDay(t) THEN /\ t.counters.fixRounds = t.counters.scopedRejudgments
                                       /\ t.counters.judgeExecutions = 2 /\ t.proofs
                ELSE /\ t.counters.fixBatches = t.counters.scopedValidations
                     /\ Ordinary4R(t) => t.counters.fullReviews = 1
  BY <1>2 DEF Replayable, Validates, ResolutionHolds, JudgesHold
<1> QED BY <1>1, <1>2 DEF HasReceipt

(* No handler makes a transaction that a load refuses, and one that is     *)
(* over has a receipt, for any reviews, findings and corrections; but a    *)
(* defect of a correction reported in both re-judgments is taken for the   *)
(* second report.                                                          *)
THEOREM ReplaySafety == TransactionSpec => []HandlersAreReplayed
<1>1. ReplayIInv => HandlersAreReplayed
  BY OverHasReceipt DEF ReplayIInv, HandlersAreReplayed, ReportsTwice
<1> QED BY <1>1, ReplayInvariance, PTL
=============================================================================
