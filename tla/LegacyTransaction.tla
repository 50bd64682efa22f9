-------------------------- MODULE LegacyTransaction --------------------------
(***************************************************************************)
(* The review transaction of schema v1 (reviewtransaction/transaction.go), *)
(* which earlier versions stepped and the current one reads: its handlers, *)
(* the validity of a persisted transaction, and the replay of each step    *)
(* that loading a chain of them asks for (store.go).  A hash is the thing  *)
(* hashed, an optional field the set of what it holds.                     *)
(***************************************************************************)
EXTENDS Naturals, FiniteSets, Sequences, SequencesExt

CONSTANTS
    Starts,        \* [mode, lenses, base, tree, paths, budget]
    LedgerIds,     \* what reviewers and judges may report
    DefectIds,     \* what a re-judgment may report of a correction
    FixSnapshots,  \* <<tree, paths>> a correction may end in
    Lines          \* forecasts and counts of changed lines

VARIABLES
    transaction,   \* the last one persisted
    refused        \* the first one that a handler made and a load refuses

Bounded(t) == t.start.mode = "ordinary_bounded"
Ordinary4R(t) == t.start.mode = "ordinary_4r"
JudgmentDay(t) == t.start.mode = "judgment_day"

NoCounters ==
    [fullReviews |-> 0, refuterBatches |-> 0, fixBatches |-> 0, scopedValidations |-> 0,
     finalVerifications |-> 0, fixRounds |-> 0, scopedRejudgments |-> 0,
     judgeExecutions |-> 0, lensExecutions |-> {}]

(* NewTransaction and StartReview: the state of the first event.           *)
Started(start) ==
    [start |-> start, state |-> "reviewing",
     snapshot |-> [kind |-> "original", base |-> start.base, tree |-> start.tree,
                   paths |-> start.paths, ledgerIds |-> {}],
     final |-> start.tree, fixDelta |-> {}, ledger |-> {}, evidence |-> FALSE,
     proofs |-> FALSE, release |-> {}, failedEvidence |-> FALSE,
     counters |-> [NoCounters EXCEPT !.fullReviews =
                       IF start.mode = "ordinary_4r" THEN 1 ELSE 0],
     results |-> <<>>, findings |-> <<>>, classes |-> <<>>, outcomes |-> <<>>,
     fixIds |-> {}, pending |-> {}, fixCaused |-> <<>>, followUps |-> {},
     checks |-> {}, proposed |-> {}, actual |-> {}]

Pristine(t) == t = Started(t.start)

-----------------------------------------------------------------------------
(* The handlers.  A report or a list of findings says which are severe.    *)

Extended(f, g) == [x \in DOMAIN f \cup DOMAIN g |-> IF x \in DOMAIN g THEN g[x] ELSE f[x]]
Constantly(S, value) == [x \in S |-> value]
Severe(findings) == {f \in DOMAIN findings : findings[f]}

MergedFindings(results) ==
    [f \in UNION {DOMAIN r : r \in ToSet(results)} |->
        \E r \in ToSet(results) : f \in DOMAIN r /\ r[f]]

Distinct(results) ==
    \A i, j \in DOMAIN results : i # j => DOMAIN results[i] \cap DOMAIN results[j] = {}

Withdrawn(t) == [t EXCEPT !.state = "invalidated"]

MayRecordLens(t) ==
    Bounded(t) /\ t.state = "reviewing" /\ Len(t.results) < Len(t.start.lenses)

WithLensResult(t, report) ==
    [t EXCEPT !.results = Append(@, report),
              !.counters.lensExecutions = @ \cup {t.start.lenses[Len(t.results) + 1]}]

WithJudgeProofs(t) ==
    [t EXCEPT !.proofs = TRUE, !.counters.judgeExecutions = 2, !.state = "judges_confirmed"]

MayFreeze(t, findings) ==
    /\ t.state = IF JudgmentDay(t) THEN "judges_confirmed" ELSE "reviewing"
    /\ Bounded(t) => /\ Len(t.results) = Len(t.start.lenses)
                     /\ Distinct(t.results) /\ findings = MergedFindings(t.results)

(* Version 1.49 took the ledger's hash from its caller.                    *)
Frozen(t, findings, source) ==
    [t EXCEPT !.findings = findings, !.ledger = {<<source, findings>>},
              !.outcomes = Constantly(DOMAIN findings \ Severe(findings), "info"),
              !.state = "findings_frozen"]

Advanced(fixIds) == IF fixIds = {} THEN "ready_final_verification" ELSE "fix_required"

Classified(t, classes) ==
    LET Of(causality) == {f \in DOMAIN classes : classes[f].causality = causality}
        Live(class) == {f \in Of("candidate") : classes[f].class = class}
        auto == Live("deterministic") \cup IF JudgmentDay(t) THEN Live("inferential") ELSE {}
        claims == Live("inferential") \ auto
        doubtful == Of("unknown") \cup Live("insufficient")
        open == IF doubtful = {} THEN claims ELSE {}
    IN  [t EXCEPT
           !.classes = classes,
           !.outcomes = Extended(@, [f \in DOMAIN classes \ open |->
               IF f \in auto THEN "corroborated"
               ELSE IF f \in Of("pre-existing") THEN "info" ELSE "inconclusive"]),
           !.fixIds = auto, !.pending = open, !.followUps = @ \cup Of("pre-existing"),
           !.state = IF doubtful # {} THEN "escalated"
                     ELSE IF open # {} THEN "evidence_classified" ELSE Advanced(auto)]

(* Faulty: a complete batch is not charged.                                *)
RefutedFree(t, outcomes) ==
    LET fixIds == t.fixIds \cup {f \in t.pending : outcomes[f] = "corroborated"}
    IN  [t EXCEPT !.outcomes = Extended(@, outcomes), !.fixIds = fixIds, !.pending = {},
                  !.state = IF \E f \in t.pending : outcomes[f] = "inconclusive"
                            THEN "escalated" ELSE Advanced(fixIds)]

Refuted(t, outcomes) ==
    LET fixIds == t.fixIds \cup {f \in t.pending : outcomes[f] = "corroborated"}
    IN  [t EXCEPT !.outcomes = Extended(@, outcomes), !.fixIds = fixIds, !.pending = {},
                  !.counters.refuterBatches = @ + 1,
                  !.state = IF \E f \in t.pending : outcomes[f] = "inconclusive"
                            THEN "escalated" ELSE Advanced(fixIds)]

(* An incomplete or malformed batch is charged, and leaves every claim     *)
(* open.                                                                   *)
RefuterFailed(t) ==
    [t EXCEPT !.outcomes = Extended(@, Constantly(t.pending, "inconclusive")),
              !.counters.refuterBatches = @ + 1, !.pending = {}, !.state = "escalated"]

MayBeginFix(t, forecast) ==
    /\ t.state = "fix_required"
    /\ IF Bounded(t) THEN \E n \in forecast : n > 0 ELSE forecast = {}
    /\ IF JudgmentDay(t) THEN t.counters.fixRounds < 2 ELSE t.counters.fixBatches < 1

FixBegun(t, forecast) ==
    LET asked == [t EXCEPT !.failedEvidence = TRUE, !.proposed = forecast]
    IN  IF \E n \in forecast : n > t.start.budget THEN [asked EXCEPT !.state = "escalated"]
        ELSE IF JudgmentDay(t)
        THEN [asked EXCEPT !.state = "fixing", !.counters.fixRounds = @ + 1]
        ELSE [asked EXCEPT !.state = "fixing", !.counters.fixBatches = @ + 1]

MayCompleteFix(t, snapshot, actual) ==
    /\ t.state = "fixing" /\ snapshot.kind = "fix-diff" /\ snapshot.base = t.final
    /\ snapshot.ledgerIds = t.fixIds /\ snapshot.paths \subseteq t.start.paths
    /\ IF Bounded(t) THEN \E n \in actual : n <= t.start.budget ELSE actual = {}

FixCompleted(t, snapshot, actual) ==
    [t EXCEPT !.snapshot = snapshot, !.final = snapshot.tree, !.fixDelta = {snapshot},
              !.actual = actual, !.state = "fix_validating"]

(* ValidateFixDeltaResult.  An ordinary validation has the two checks      *)
(* decide, and keeps them unless they are those of an old caller; a        *)
(* re-judgment may report defects of the correction, which stay to be      *)
(* fixed when severe, and do not hold the correction up otherwise.         *)
MayValidateFix(t, result) ==
    /\ t.state = "fix_validating"
    /\ IF JudgmentDay(t)
       THEN /\ ~result.kept
            /\ DOMAIN result.caused \cap DOMAIN t.findings = {}
            /\ ~(result.approved /\ Severe(result.caused) # {})
       ELSE result.caused = <<>>

FixValidated(t, result) ==
    LET severe == Severe(result.caused)
        approved == result.approved \/ (result.caused # <<>> /\ severe = {})
        judged == [t EXCEPT !.fixCaused = IF result.caused = <<>> THEN @ ELSE Append(@, result.caused),
                            !.fixIds = @ \cup severe,
                            !.checks = IF result.kept THEN {t.fixDelta} ELSE @]
    IN  IF JudgmentDay(t)
        THEN [judged EXCEPT !.counters.scopedRejudgments = @ + 1,
                            !.state = IF approved THEN "ready_final_verification"
                                      ELSE IF t.counters.fixRounds >= 2 THEN "escalated"
                                      ELSE "fix_required"]
        ELSE [judged EXCEPT !.counters.scopedValidations = @ + 1,
                            !.state = IF approved THEN "ready_final_verification" ELSE "escalated"]

Verifying(t) ==
    [t EXCEPT !.counters.finalVerifications = @ + 1, !.state = "final_verifying"]

FinallyVerified(t, approved) ==
    [t EXCEPT !.evidence = TRUE, !.state = IF approved THEN "approved" ELSE "escalated"]

-----------------------------------------------------------------------------
(* What is asked of a persisted transaction (validate).                    *)

BudgetHolds(t) ==
    LET Fits(n) == n <= t.start.budget
    IN  IF ~Bounded(t) THEN t.proposed = {} /\ t.actual = {}
        ELSE IF t.counters.fixBatches = 0
        THEN \/ t.proposed = {} /\ t.actual = {}
             \/ /\ t.state = "escalated" /\ t.failedEvidence /\ t.actual = {}
                /\ \E n \in t.proposed : ~Fits(n)
        ELSE /\ \E n \in t.proposed : n > 0 /\ Fits(n)
             /\ IF t.state = "fixing" THEN t.actual = {} ELSE \E n \in t.actual : Fits(n)

ChecksHold(t) ==
    t.checks # {} => /\ ~JudgmentDay(t) /\ t.counters.scopedValidations = 1
                     /\ t.state # "fix_validating" /\ t.checks = {t.fixDelta}

CountersHold(t) ==
    LET c == t.counters
    IN  /\ c.finalVerifications <= 1
        /\ IF JudgmentDay(t)
           THEN /\ c.fixRounds <= 2 /\ c.scopedRejudgments <= 2 /\ c.refuterBatches = 0
                /\ c.fixBatches = 0 /\ c.scopedValidations = 0
                /\ c.judgeExecutions \in {0, 2} /\ c.lensExecutions = {}
           ELSE /\ c.refuterBatches <= 1 /\ c.fixBatches <= 1 /\ c.scopedValidations <= 1
                /\ c.fixRounds = 0 /\ c.scopedRejudgments = 0 /\ c.judgeExecutions = 0
                /\ c.fullReviews <= IF Bounded(t) THEN 0 ELSE 1
                /\ Bounded(t) \/ c.lensExecutions = {}

ExpectedLenses(start) ==
    IF start.mode # "ordinary_bounded" THEN 0
    ELSE CASE start.risk = "low" -> 0 [] start.risk = "medium" -> 1 [] start.risk = "high" -> 4

LensesHold(t) ==
    /\ Len(t.start.lenses) = ExpectedLenses(t.start)
    /\ Len(t.results) <= Len(t.start.lenses)
    /\ t.counters.lensExecutions = {t.start.lenses[i] : i \in DOMAIN t.results}
    /\ Bounded(t) /\ t.state # "reviewing" =>
          Len(t.results) = Len(t.start.lenses) /\ t.findings = MergedFindings(t.results)

JudgesHold(t) ==
    /\ t.proofs = (JudgmentDay(t) /\ t.state # "reviewing")
    /\ t.counters.judgeExecutions = IF t.proofs THEN 2 ELSE 0

Unfrozen == {"reviewing", "judges_confirmed", "invalidated"}

(* A finding or a defect that is routed is severe; of a defect that is     *)
(* reported twice the last report counts.                                  *)
RoutedSeverely(t, f) ==
    IF f \in DOMAIN t.findings THEN t.findings[f]
    ELSE LET reports == {i \in DOMAIN t.fixCaused : f \in DOMAIN t.fixCaused[i]}
         IN  reports # {} /\ t.fixCaused[CHOOSE i \in reports : \A j \in reports : j <= i][f]

RoutingHolds(t) ==
    /\ \A f \in DOMAIN t.findings \ Severe(t.findings) :
          f \in DOMAIN t.outcomes /\ t.outcomes[f] = "info"
    /\ DOMAIN t.classes \subseteq Severe(t.findings)
    /\ DOMAIN t.outcomes \subseteq DOMAIN t.findings
    /\ \A f \in t.fixIds \cup t.pending : RoutedSeverely(t, f)
    /\ t.fixIds \cap t.pending = {}
    /\ t.state \notin Unfrozen => \E source \in {"canonical", "external"} :
                                     t.ledger = {<<source, t.findings>>}

(* The outcome and the route that the evidence of one finding asks for.    *)
FindingHolds(t, f) ==
    LET class == t.classes[f].class
        causality == t.classes[f].causality
        Is(outcome) == f \in DOMAIN t.outcomes /\ t.outcomes[f] = outcome
        routed == f \in t.fixIds
        open == f \in t.pending
        escalates == Is("inconclusive") /\ ~routed /\ ~open /\ t.state = "escalated"
    IN  IF causality = "pre-existing" THEN Is("info") /\ ~routed /\ ~open /\ f \in t.followUps
        ELSE IF causality = "unknown" \/ class = "insufficient" THEN escalates
        ELSE IF class = "deterministic" \/ JudgmentDay(t) THEN Is("corroborated") /\ routed /\ ~open
        ELSE IF open THEN /\ t.state = "evidence_classified" /\ f \notin DOMAIN t.outcomes
                          /\ t.counters.refuterBatches = 0
        ELSE \/ Is("corroborated") /\ routed
             \/ ~routed /\ (Is("refuted") \/ Is("inconclusive"))

Escalating(t, f) ==
    \/ t.classes[f].causality = "unknown"
    \/ t.classes[f].causality = "candidate" /\ t.classes[f].class = "insufficient"

Resolved(t, f) ==
    /\ t.classes[f].causality = "candidate" /\ t.classes[f].class = "inferential"
    /\ f \notin t.pending

FindingsHold(t) ==
    LET severe == Severe(t.findings)
        corroborated == {f \in severe : f \in DOMAIN t.outcomes /\ t.outcomes[f] = "corroborated"}
        defects == UNION {Severe(batch) : batch \in ToSet(t.fixCaused)}
    IN  IF t.state \in Unfrozen
        THEN t.findings = <<>> /\ t.classes = <<>> /\ t.outcomes = <<>>
             /\ t.fixIds = {} /\ t.pending = {}
        ELSE IF t.state = "findings_frozen"
        THEN t.classes = <<>> /\ t.fixIds = {} /\ t.pending = {}
             /\ severe \cap DOMAIN t.outcomes = {}
        ELSE /\ DOMAIN t.classes = severe
             /\ \A f \in severe : FindingHolds(t, f)
             /\ t.fixIds = corroborated \cup defects
             /\ (t.state = "evidence_classified") = (t.pending # {})
             /\ t.state # "escalated" =>
                   \A f \in severe \cap DOMAIN t.outcomes : t.outcomes[f] # "inconclusive"
             /\ \/ JudgmentDay(t) \/ t.counters.refuterBatches = 1
                \/ ~\E f \in severe : Resolved(t, f)
                \/ \E f \in severe : Escalating(t, f)

(* The counters, and the fix, that a state has behind it.                  *)
ResolutionHolds(t) ==
    LET c == t.counters
        corrected == t.fixIds # {}
        once == IF corrected THEN 1 ELSE 0
    IN  CASE t.state = "fix_required" ->
               JudgmentDay(t) \/ (c.fixBatches = 0 /\ c.scopedValidations = 0)
          [] t.state \in {"fixing", "fix_validating"} ->
               /\ corrected /\ t.failedEvidence
               /\ IF JudgmentDay(t) THEN c.fixRounds \in 1 .. 2 ELSE c.fixBatches = 1
          [] t.state \in {"ready_final_verification", "final_verifying", "approved"} ->
               /\ t.pending = {}
               /\ IF ~JudgmentDay(t) THEN c.fixBatches = once /\ c.scopedValidations = once
                  ELSE c.fixRounds = c.scopedRejudgments /\ (c.fixRounds >= 1) = corrected
               /\ corrected => /\ t.failedEvidence /\ t.snapshot.kind = "fix-diff"
                               /\ JudgmentDay(t) \/ t.snapshot.base = t.start.tree
                               /\ t.snapshot.tree = t.final
                               /\ t.snapshot.ledgerIds = t.fixIds
                               /\ t.fixDelta = {t.snapshot}
               /\ c.finalVerifications = IF t.state = "ready_final_verification" THEN 0 ELSE 1
          [] OTHER -> TRUE

Validates(t) ==
    /\ BudgetHolds(t) /\ ChecksHold(t) /\ CountersHold(t)
    /\ t.release \subseteq {t.final} /\ t.snapshot.paths \subseteq t.start.paths
    /\ RoutingHolds(t) /\ FindingsHold(t)
    /\ IF t.state = "invalidated" THEN Pristine([t EXCEPT !.state = "reviewing"])
       ELSE /\ LensesHold(t) /\ JudgesHold(t) /\ ResolutionHolds(t)
            /\ t.state = "approved" => t.ledger # {} /\ t.evidence

(* validateReceiptStructure of the receipt of a terminal transaction.      *)
HasReceipt(t) ==
    LET c == t.counters
    IN  /\ CountersHold(t) /\ LensesHold(t)
        /\ t.release \subseteq {t.final}
        /\ t.state = "approved" =>
              /\ c.finalVerifications = 1
              /\ IF JudgmentDay(t) THEN /\ c.fixRounds = c.scopedRejudgments
                                        /\ c.judgeExecutions = 2 /\ t.proofs
                 ELSE c.fixBatches = c.scopedValidations /\ (Ordinary4R(t) => c.fullReviews = 1)

-----------------------------------------------------------------------------
(* The replay of one event of a chain (store.go).                          *)

LegalStateTransitions ==
    {<<"reviewing", s>> : s \in {"judges_confirmed", "findings_frozen", "escalated"}}
    \cup {<<"judges_confirmed", s>> : s \in {"findings_frozen", "escalated"}}
    \cup {<<"findings_frozen", s>> :
             s \in {"evidence_classified", "fix_required", "ready_final_verification", "escalated"}}
    \cup {<<"evidence_classified", s>> :
             s \in {"fix_required", "ready_final_verification", "escalated"}}
    \cup {<<"fix_required", s>> : s \in {"fixing", "escalated"}}
    \cup {<<"fixing", s>> : s \in {"fix_validating", "escalated"}}
    \cup {<<"fix_validating", s>> :
             s \in {"ready_final_verification", "fix_required", "escalated"}}
    \cup {<<"ready_final_verification", s>> : s \in {"final_verifying", "escalated"}}
    \cup {<<"final_verifying", s>> : s \in {"approved", "escalated"}}

(* The counters that the change of state alone accounts for.               *)
CountersAfter(t, next) ==
    LET c == t.counters
    IN  CASE Bounded(t) /\ t.state = "reviewing" /\ next.state = "reviewing" ->
               [c EXCEPT !.lensExecutions = @ \cup {t.start.lenses[Len(next.results)]}]
          [] next.state = "judges_confirmed" -> [c EXCEPT !.judgeExecutions = 2]
          [] t.state = "evidence_classified" -> [c EXCEPT !.refuterBatches = @ + 1]
          [] next.state = "fixing" ->
               IF JudgmentDay(t) THEN [c EXCEPT !.fixRounds = @ + 1]
               ELSE [c EXCEPT !.fixBatches = @ + 1]
          [] t.state = "fix_validating" ->
               IF JudgmentDay(t) THEN [c EXCEPT !.scopedRejudgments = @ + 1]
               ELSE [c EXCEPT !.scopedValidations = @ + 1]
          [] next.state = "final_verifying" -> [c EXCEPT !.finalVerifications = @ + 1]
          [] OTHER -> c

Preserves(f, g) == \A x \in DOMAIN f : x \in DOMAIN g /\ g[x] = f[x]

(* Evidence, routes and proofs that a step may only add to.                *)
NothingRegresses(t, next) ==
    /\ t.ledger # {} => next.ledger = t.ledger
    /\ t.proofs => next.proofs
    /\ t.state \notin {"reviewing", "judges_confirmed"} => next.findings = t.findings
    /\ Preserves(t.classes, next.classes) /\ Preserves(t.outcomes, next.outcomes)
    /\ t.fixIds \subseteq next.fixIds /\ IsPrefix(t.fixCaused, next.fixCaused)
    /\ t.followUps \subseteq next.followUps
    /\ t.pending # next.pending =>
          \/ t.state = "findings_frozen" /\ next.state = "evidence_classified" /\ t.pending = {}
          \/ t.state = "evidence_classified" /\ next.pending = {}

Succeeds(t, next, operation) ==
    LET Moves(from, to) == t.state \in from /\ next.state \in to
        lensStep == operation = "record-lens-result" /\ Bounded(t)
                    /\ Moves({"reviewing"}, {"reviewing"})
        freeze == Moves({"reviewing", "judges_confirmed"}, {"findings_frozen"})
        fixStart == Moves({"fix_required"}, {"fixing"})
                    \/ (Bounded(t) /\ Moves({"fix_required"}, {"escalated"}))
        fixCompletion == Moves({"fixing"}, {"fix_validating"})
        binding == t.release = {} /\ next.release # {}
        validation == ~JudgmentDay(t)
                      /\ Moves({"fix_validating"}, {"ready_final_verification", "escalated"})
    IN  /\ next.start = t.start
        /\ IF lensStep
           THEN Len(next.results) = Len(t.results) + 1 /\ MayRecordLens(t)
                /\ next = WithLensResult(t, Last(next.results))
           ELSE /\ operation # "record-lens-result" /\ next.results = t.results
                /\ next.counters.lensExecutions = t.counters.lensExecutions
        /\ freeze => /\ operation = "freeze-findings" /\ MayFreeze(t, next.findings)
                     /\ next = Frozen(t, next.findings, "canonical")
        /\ IF fixCompletion
           THEN MayCompleteFix(t, next.snapshot, next.actual)
                /\ next = FixCompleted(t, next.snapshot, next.actual)
           ELSE /\ next.snapshot = t.snapshot /\ next.actual = t.actual
                /\ next.final = t.final /\ next.fixDelta = t.fixDelta
        /\ IF fixStart
           THEN /\ operation = "begin-fix" /\ MayBeginFix(t, next.proposed)
                /\ next = FixBegun(t, next.proposed)
           ELSE next.proposed = t.proposed
        /\ t.release # {} => next.release = t.release
        /\ binding => /\ operation = "bind-release-evidence"
                      /\ Moves({"ready_final_verification"}, {"ready_final_verification"})
                      /\ [next EXCEPT !.release = {}] = t
        /\ binding \/ lensStep \/ <<t.state, next.state>> \in LegalStateTransitions
        /\ next.counters = CountersAfter(t, next)
        /\ NothingRegresses(t, next)
        /\ IF validation
           THEN operation = IF next.checks = {} THEN "validate-fix-delta" ELSE "validate-targeted-fix"
           ELSE next.checks = t.checks

(* validatePersistedV1Successor: a step as it is written now, or in one of *)
(* the two encodings of earlier versions.                                  *)
SucceedsAsPersisted(t, next, operation) ==
    \/ operation = "invalidate" /\ Pristine(t) /\ next = Withdrawn(t)
    \/ operation # "invalidate" /\ Succeeds(t, next, operation)
    \/ /\ operation = "validate-targeted-fix" /\ Ordinary4R(t) /\ next.checks = {}
       /\ t.state = "fix_validating"
       /\ next.state \in {"ready_final_verification", "escalated"}
       /\ Succeeds(t, next, "validate-fix-delta")
    \/ /\ operation = "freeze-findings" /\ ~Bounded(t)
       /\ t.state \in {"reviewing", "judges_confirmed"} /\ next.state = "findings_frozen"
       /\ \E ledger \in next.ledger : next = Frozen(t, next.findings, ledger[1])

-----------------------------------------------------------------------------
(* Every step of a review, and what its handler makes of it.               *)

Reports == UNION {[S -> BOOLEAN] : S \in SUBSET LedgerIds}
Evidences == [class : {"deterministic", "inferential", "insufficient"},
            causality : {"candidate", "pre-existing", "unknown"}]
ValidationResults ==
    [approved : BOOLEAN, kept : BOOLEAN, caused : UNION {[S -> BOOLEAN] : S \in SUBSET DefectIds}]

FixSnapshot(t, fix) ==
    [kind |-> "fix-diff", base |-> t.final, tree |-> fix[1], paths |-> fix[2],
     ledgerIds |-> t.fixIds]

ForecastChoices(t) == IF Bounded(t) THEN {{n} : n \in Lines} ELSE {{}}

(* The steps of t: the operation with the transaction it makes.            *)
Steps(t) ==
    LET When(condition, results) == IF condition THEN results ELSE {}
        Named(operation, results) == {<<operation, next>> : next \in results}
    IN  Named("record-lens-result",
              When(MayRecordLens(t), {WithLensResult(t, report) : report \in Reports}))
        \cup Named("record-judge-proofs",
              When(JudgmentDay(t) /\ t.state = "reviewing", {WithJudgeProofs(t)}))
        \cup Named("freeze-findings",
              UNION {{Frozen(t, report, source) :
                         source \in IF Bounded(t) THEN {"canonical"} ELSE {"canonical", "external"}} :
                     report \in {r \in Reports : MayFreeze(t, r)}})
        \cup Named("classify-evidence", When(t.state = "findings_frozen",
              {Classified(t, classes) : classes \in [Severe(t.findings) -> Evidences]}))
        \cup Named("apply-refuter-outcomes", When(t.state = "evidence_classified",
              {Refuted(t, outcomes) :
                  outcomes \in [t.pending -> {"corroborated", "refuted", "inconclusive"}]}
              \cup {RefuterFailed(t)}))
        \cup Named("begin-fix",
              {FixBegun(t, forecast) : forecast \in {n \in ForecastChoices(t) : MayBeginFix(t, n)}})
        \cup Named("complete-fix",
              UNION {{FixCompleted(t, FixSnapshot(t, fix), actual) :
                         actual \in {n \in ForecastChoices(t) :
                                       MayCompleteFix(t, FixSnapshot(t, fix), n)}} :
                     fix \in FixSnapshots})
        \cup {<<IF result.kept THEN "validate-targeted-fix" ELSE "validate-fix-delta",
                FixValidated(t, result)>> :
                  result \in {r \in ValidationResults : MayValidateFix(t, r)}}
        \cup Named("bind-release-evidence",
              When(t.state = "ready_final_verification" /\ t.release = {},
                   {[t EXCEPT !.release = {t.final}]}))
        \cup Named("begin-final-verification",
              When(t.state = "ready_final_verification", {Verifying(t)}))
        \cup Named("complete-final-verification",
              When(t.state = "final_verifying", {FinallyVerified(t, approved) : approved \in BOOLEAN}))
        \cup Named("invalidate", When(Pristine(t), {Withdrawn(t)}))

-----------------------------------------------------------------------------
(* NewTransaction refuses lenses that are not those of the mode and risk.  *)
ASSUME TransactionAssumption ==
    /\ \A start \in Starts : /\ start.lenses \in Seq(STRING) /\ start.budget \in Nat
                             /\ Len(start.lenses) = ExpectedLenses(start)
    /\ Lines \subseteq Nat

TransactionInit == transaction \in {Started(start) : start \in Starts} /\ refused = {}

(* A handler makes the next event; Append validates and replays it, and so *)
(* does every load of the chain, which takes the older encodings as well.  *)
TransactionStep ==
    /\ refused = {}
    /\ \E step \in Steps(transaction) :
          IF Validates(step[2]) /\ SucceedsAsPersisted(transaction, step[2], step[1])
          THEN transaction' = step[2] /\ UNCHANGED refused
          ELSE refused' = {step[2]} /\ UNCHANGED transaction

TransactionSpec == TransactionInit /\ [][TransactionStep]_<<transaction, refused>>

(* Handlers, validation and replay keep the same rules three times: no     *)
(* handler makes a transaction that a load refuses, and one that is over   *)
(* has a receipt, except that a defect of a correction reported in both    *)
(* re-judgments is taken for the second report.                            *)
HandlersAreReplayed ==
    /\ \A t \in refused : \E i, j \in DOMAIN t.fixCaused :
          i # j /\ DOMAIN t.fixCaused[i] \cap DOMAIN t.fixCaused[j] # {}
    /\ transaction.state \in {"approved", "escalated"} => HasReceipt(transaction)

=============================================================================
