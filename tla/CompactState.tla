---------------------------- MODULE CompactState ----------------------------
(***************************************************************************)
(* The data of one bounded review (internal/reviewtransaction/compact.go,  *)
(* "review-state/v2"): the persisted record, the handlers that move it and *)
(* the validator every handler and every load runs.  This module has no    *)
(* variables: a handler is a guard ...Allowed(s, ...) over the record it   *)
(* is called on and an operator that yields the record it leaves behind.   *)
(* A Go handler mutates a copy and ends in `return state.Validate()`, so a *)
(* step is taken only when guard and Valid(next) both hold.                *)
(*                                                                         *)
(* Abstractions.  A Git tree is a function from paths to contents; lines   *)
(* changed between two trees come from DiffLines, the risk tier from       *)
(* ClassifiedRisk (both are functions of the two trees in the code).       *)
(* FixDeltaHashForSnapshot is injective on snapshots, so a fix-delta hash  *)
(* is the snapshot itself, and EmptyFixDeltaHash is no snapshot.  The      *)
(* optional values are sets with at most one element, except for optional  *)
(* line counts, where Nil stands for a nil pointer.  Policy bytes, claims, *)
(* proof text, the follow-ups a targeted validation adds and               *)
(* intended-untracked lists (which every caller copies unchanged from the  *)
(* initial snapshot) are left out.                                         *)
(*                                                                         *)
(* A definition introduced by "Faulty:" is no part of the model: it is a   *)
(* bug the definition after it could have had, kept to see that a property *)
(* notices it.  The other modules follow the same convention.              *)
(***************************************************************************)
EXTENDS Integers, Sequences, FiniteSetsExt

CONSTANTS
    Lineages,                   \* review lineage identifiers
    Lenses,                     \* supportedLenses
    FindingIds,                 \* finding identifiers reviewers may use
    Paths, Contents,            \* repository paths and the contents of a path
    DiffLines(_, _),            \* CountChangedLines between two trees
    ClassifiedRisk(_, _),       \* ClassifyRisk between two trees
    MaxCorrectionChangedLines,  \* the cap of CorrectionBudget (200)
    Reasons,                    \* invalidation reasons an operator gives
    EvidencePayloads            \* final verification evidence (non-empty bytes)

Nil == -1

Trees == [Paths -> Contents]
Risks == {"low", "medium", "high"}

ASSUME DiffLinesAssumption ==
    \A a, b \in Trees : DiffLines(a, b) \in Nat /\ (a = b => DiffLines(a, b) = 0)
ASSUME RiskAssumption == \A a, b \in Trees : ClassifiedRisk(a, b) \in Risks
ASSUME CapAssumption  == MaxCorrectionChangedLines \in Nat
ASSUME LensAssumption == Lenses # {} /\ IsFiniteSet(Lenses)

MaxCompactCorrectionAttempts == 3

---------------------------------------------------------------------------
(* Snapshots. *)

ChangedPaths(a, b) == {p \in Paths : a[p] # b[p]}

SnapshotKinds == {"current-changes", "base-diff", "fix-diff"}

Snapshot ==
    [kind : SnapshotKinds, base : Trees, tree : Trees,
     paths : SUBSET Paths, ledger : SUBSET FindingIds]

SnapshotOf(kind, base, tree, ledger) ==
    [kind |-> kind, base |-> base, tree |-> tree,
     paths |-> ChangedPaths(base, tree), ledger |-> ledger]

---------------------------------------------------------------------------
(* The persisted record. *)

States == {"reviewing", "correction_required", "validating",
           "approved", "escalated", "invalidated"}

Terminal == {"approved", "escalated", "invalidated"}

Optional(S) == {{}} \cup {{x} : x \in S}
Partial(S, T) == UNION {[D -> T] : D \in SUBSET S}

Classes     == {"deterministic", "inferential", "insufficient"}
Causalities == {"candidate", "elsewhere", "unknown"}
    \* candidate: introduced, behavior_activated, worsened
    \* elsewhere: pre_existing, base_only
Classification == [class : Classes, causality : Causalities]
Outcomes == {"info", "corroborated", "refuted", "inconclusive"}
RefuterOutcomes == Outcomes \ {"info"}

Attempt ==
    [proposed : Nat \ {0}, actual : Nat, snapshot : Snapshot,
     original : BOOLEAN, regression : BOOLEAN]

Dispositions == {"scope_changed", "invalidated", "escalated"}

CorrectionBudget(lines) ==
    LET half == (lines \div 2) + (lines % 2)
    IN  IF half < MaxCorrectionChangedLines THEN half ELSE MaxCorrectionChangedLines

(* validateSelectedLenses: the risk tier fixes how many lenses review. *)
LensesFit(risk, lenses) ==
    \/ risk = "low" /\ lenses = {}
    \/ risk = "medium" /\ \E l \in Lenses : lenses = {l}
    \/ risk = "high" /\ lenses = Lenses

NewCompactState(lineage, generation, kind, base, tree, lenses) ==
    [lineage |-> lineage, generation |-> generation, recovery |-> {},
     state |-> "reviewing",
     initial |-> SnapshotOf(kind, base, tree, {}),
     current |-> SnapshotOf(kind, base, tree, {}),
     risk |-> ClassifiedRisk(base, tree), lenses |-> lenses,
     lines |-> DiffLines(base, tree),
     budget |-> CorrectionBudget(DiffLines(base, tree)),
     reports |-> <<>>, severe |-> {},
     classifications |-> <<>>, outcomes |-> <<>>, fix |-> {}, followUps |-> {},
     proposed |-> Nil, actual |-> Nil, fixDelta |-> {}, checks |-> {},
     evidence |-> {}, reason |-> {},
     attempts |-> <<>>, cumulative |-> 0]

GenesisPaths(s) == s.initial.paths

Findings(reports) == UNION {reports[l] : l \in DOMAIN reports}

---------------------------------------------------------------------------
(* CompleteReview: every lens reports once, every severe finding is        *)
(* classified, and each one is routed.                                     *)

ReviewInput(lenses) ==
    {in \in [reports  : [lenses -> SUBSET FindingIds],
             severe   : SUBSET FindingIds,
             evidence : Partial(FindingIds, Classification),
             refuter  : Partial(FindingIds, RefuterOutcomes)] :
        DOMAIN in.evidence = in.severe}

(* Only a finding the candidate causes, on inferential evidence, is left   *)
(* for the refuter to decide.                                              *)
NeedsRefuter(e) == e.class = "inferential" /\ e.causality = "candidate"

CompleteReviewAllowed(s, in) ==
    /\ s.state = "reviewing"
    /\ DOMAIN in.reports = s.lenses
    /\ in.severe \subseteq Findings(in.reports)
    /\ DOMAIN in.evidence = in.severe
    /\ \A f \in in.severe :
          NeedsRefuter(in.evidence[f]) => f \in DOMAIN in.refuter

Routed(in, f) ==
    LET e == in.evidence[f] IN
    CASE f \notin in.severe                                         -> "info"
      [] f \in in.severe /\ e.class = "insufficient"                -> "inconclusive"
      [] f \in in.severe /\ e.class # "insufficient"
            /\ e.causality = "elsewhere"                            -> "info"
      [] f \in in.severe /\ e.class # "insufficient"
            /\ e.causality = "unknown"                              -> "inconclusive"
      [] f \in in.severe /\ e.class = "deterministic"
            /\ e.causality = "candidate"                            -> "corroborated"
      [] f \in in.severe /\ NeedsRefuter(e)                         -> in.refuter[f]

ReviewCompleted(s, in) ==
    LET outcomes == [f \in Findings(in.reports) |-> Routed(in, f)]
        fix == {f \in in.severe : outcomes[f] = "corroborated"}
        next == CASE \E f \in in.severe : outcomes[f] = "inconclusive" -> "escalated"
                  [] fix # {} /\ ~ \E f \in in.severe : outcomes[f] = "inconclusive"
                        -> "correction_required"
                  [] OTHER -> "validating"
    IN  [s EXCEPT !.state = next,
                  !.reports = in.reports, !.severe = in.severe,
                  !.classifications = in.evidence, !.outcomes = outcomes,
                  !.fix = fix,
                  !.followUps = {f \in in.severe : outcomes[f] = "info"}]

---------------------------------------------------------------------------
(* Invalidate: an operator withdraws a review that has not produced data.  *)

PristineReviewing(s) ==
    /\ s.state = "reviewing"
    /\ s.current = s.initial
    /\ s.reports = <<>> /\ s.classifications = <<>> /\ s.outcomes = <<>>
    /\ s.fix = {} /\ s.followUps = {}
    /\ s.proposed = Nil /\ s.actual = Nil /\ s.fixDelta = {} /\ s.checks = {}
    /\ s.evidence = {} /\ s.reason = {}

Invalidated(s, reason) == [s EXCEPT !.state = "invalidated", !.reason = {reason}]

---------------------------------------------------------------------------
(* BeginCorrection and CompleteCorrection: a forecast, then an attempt.    *)

BeginCorrectionAllowed(s, lines) ==
    /\ s.state = "correction_required"
    /\ s.proposed = Nil
    /\ lines > 0

CorrectionBegun(s, lines) ==
    [s EXCEPT !.proposed = lines,
              !.state = IF s.cumulative + lines > s.budget THEN "escalated" ELSE @]

CompleteCorrectionAllowed(s, snapshot) ==
    /\ s.state = "correction_required"
    /\ s.proposed # Nil
    /\ snapshot.kind = "fix-diff"
    /\ snapshot.base = s.current.tree
    /\ snapshot.ledger = s.fix
    /\ snapshot.paths \subseteq GenesisPaths(s)

(* The attempt is on record before anything is decided.                    *)
Recorded(s, snapshot, original, regression) ==
    LET actual == DiffLines(snapshot.base, snapshot.tree) IN
    [s EXCEPT !.cumulative = @ + actual, !.current = snapshot,
              !.attempts = Append(@, [proposed |-> s.proposed, actual |-> actual,
                                      snapshot |-> snapshot, original |-> original,
                                      regression |-> regression])]

(* Faulty: the original criterion answers for the regression check too.    *)
SettledOnOriginal(t, snapshot, original, regression) ==
    [t EXCEPT !.fixDelta = {snapshot},
              !.actual = DiffLines(snapshot.base, snapshot.tree),
              !.checks = {<<original, original>>}]

Settled(t, snapshot, original, regression) ==
    [t EXCEPT !.fixDelta = {snapshot},
              !.actual = DiffLines(snapshot.base, snapshot.tree),
              !.checks = {<<original, regression>>}]

(* Faulty: the measurements of the failed attempt stay.                    *)
ReopenedAsMeasured(t) ==
    [t EXCEPT !.state = IF Len(t.attempts) >= MaxCompactCorrectionAttempts
                        THEN "escalated" ELSE "correction_required",
              !.proposed = Nil]

(* After failed checks the correction is open again, or exhausted.         *)
Reopened(t) ==
    [t EXCEPT !.state = IF Len(t.attempts) >= MaxCompactCorrectionAttempts
                        THEN "escalated" ELSE "correction_required",
              !.proposed = Nil, !.actual = Nil, !.fixDelta = {}, !.checks = {}]

CorrectionCompleted(s, snapshot, original, regression) ==
    LET recorded == Recorded(s, snapshot, original, regression)
        settled  == Settled(recorded, snapshot, original, regression)
    IN  IF recorded.cumulative > s.budget THEN [settled EXCEPT !.state = "escalated"]
        ELSE IF settled.checks = {<<TRUE, TRUE>>}
        THEN [settled EXCEPT !.state = "validating"]
        ELSE Reopened(settled)

---------------------------------------------------------------------------
(* CompleteVerification: the final evidence decides.                       *)

Verified(s, payload, approved) ==
    [s EXCEPT !.evidence = {payload},
              !.state = IF approved THEN "approved" ELSE "escalated"]

---------------------------------------------------------------------------
(* Validate, by its parts. *)

ValidIdentity(s) ==
    /\ s.lineage \in Lineages
    /\ s.generation >= 1
    /\ \A r \in s.recovery :
          /\ r.predecessor \in Lineages \ {s.lineage}
          /\ r.disposition \in Dispositions
          /\ r.disposition = "escalated" => r.authorized

ValidScope(s) ==
    /\ s.current.base # s.initial.base => s.current.kind = "fix-diff"
    /\ s.current.paths \subseteq GenesisPaths(s)
    /\ LensesFit(s.risk, s.lenses)
    /\ s.budget = CorrectionBudget(s.lines)
    /\ DOMAIN s.reports \subseteq s.lenses

(* The outcome a classified severe finding may carry. *)
OutcomeFits(e, outcome, followUp) ==
    CASE e.class = "insufficient"                       -> outcome = "inconclusive"
      [] e.class # "insufficient" /\ e.causality = "elsewhere"
            -> outcome = "info" /\ followUp
      [] e.class # "insufficient" /\ e.causality = "unknown"
            -> outcome = "inconclusive"
      [] e.class = "deterministic" /\ e.causality = "candidate"
            -> outcome = "corroborated"
      [] NeedsRefuter(e)                                -> outcome \in RefuterOutcomes

ValidFindings(s) ==
    s.state \notin {"reviewing", "invalidated"} =>
        /\ DOMAIN s.reports = s.lenses
        /\ \A l, m \in s.lenses : l # m => s.reports[l] \cap s.reports[m] = {}
        /\ DOMAIN s.classifications = s.severe
        /\ DOMAIN s.outcomes = Findings(s.reports)
        /\ s.severe \subseteq Findings(s.reports)
        /\ \A f \in Findings(s.reports) \ s.severe : s.outcomes[f] = "info"
        /\ \A f \in s.severe :
              OutcomeFits(s.classifications[f], s.outcomes[f], f \in s.followUps)
        /\ s.fix = {f \in s.severe : s.outcomes[f] = "corroborated"}
        /\ (\E f \in s.severe : s.outcomes[f] = "inconclusive") => s.state = "escalated"

LinesCharged(attempts) ==
    LET charged[i \in 0 .. Len(attempts)] ==
            IF i = 0 THEN 0 ELSE charged[i - 1] + attempts[i].actual
    IN  charged[Len(attempts)]

(* The tree the attempt with index i starts from. *)
AttemptBase(s, i) ==
    IF i = 1 THEN s.initial.tree ELSE s.attempts[i - 1].snapshot.tree

ValidAttempts(s) ==
    /\ s.attempts = <<>> => s.cumulative = 0
    /\ s.attempts # <<>> =>
          /\ \A i \in DOMAIN s.attempts :
                LET tried == s.attempts[i] IN
                /\ tried.proposed > 0 /\ tried.actual >= 0
                /\ tried.snapshot.kind = "fix-diff"
                /\ tried.snapshot.base = AttemptBase(s, i)
                /\ tried.snapshot.ledger = s.fix
                /\ tried.snapshot.paths \subseteq GenesisPaths(s)
          /\ s.cumulative = LinesCharged(s.attempts)
          /\ s.cumulative > s.budget => s.state = "escalated"
          /\ s.current = s.attempts[Len(s.attempts)].snapshot

(* An open correction between two attempts. *)
OpenBetweenAttempts(s) ==
    /\ s.proposed # Nil => s.cumulative + s.proposed <= s.budget
    /\ s.actual = Nil /\ s.checks = {} /\ s.fixDelta = {}

(* Escalated by a forecast, or by the last failed attempt, with earlier    *)
(* attempts recorded.                                                      *)
EscalatedBetweenAttempts(s) ==
    /\ s.state = "escalated"
    /\ s.actual = Nil
    /\ \/ s.proposed # Nil /\ s.cumulative + s.proposed > s.budget
       \/ Len(s.attempts) >= MaxCompactCorrectionAttempts

Corrected(s) ==
    s.current # s.initial \/ s.fixDelta # {} \/ s.actual # Nil \/ s.checks # {}

ValidUncorrected(s) ==
    /\ s.proposed # Nil =>
          /\ s.fix # {}
          /\ s.state \in {"correction_required", "escalated"}
          /\ s.state = "escalated" => s.proposed > s.budget
    /\ s.fix # {} => s.state \in {"correction_required", "escalated"}

ValidCorrected(s) ==
    /\ s.fix # {}
    /\ s.state \notin {"reviewing", "correction_required"}
    /\ s.proposed # Nil /\ s.proposed <= s.budget /\ s.actual # Nil
    /\ s.current.kind = "fix-diff" /\ s.current.ledger = s.fix
    /\ s.attempts = <<>> => s.current.base = s.initial.tree
    /\ s.fixDelta = {s.current}
    /\ s.checks # {}
    /\ s.state \in {"validating", "approved"} => s.checks = {<<TRUE, TRUE>>}

ValidCorrection(s) ==
    /\ ValidAttempts(s)
    /\ CASE s.attempts # <<>> /\ s.state = "correction_required" -> OpenBetweenAttempts(s)
         [] s.attempts # <<>> /\ EscalatedBetweenAttempts(s)     -> TRUE
         [] OTHER -> IF Corrected(s) THEN ValidCorrected(s) ELSE ValidUncorrected(s)

ValidLines(s) ==
    /\ s.proposed # Nil => s.proposed > 0
    /\ s.proposed > s.budget => s.state = "escalated" /\ s.actual = Nil
    /\ s.actual # Nil => s.actual >= 0
    /\ s.actual > s.budget => s.state = "escalated"

ValidByState(s) ==
    \/ /\ s.state = "reviewing"
       /\ s.classifications = <<>> /\ s.outcomes = <<>> /\ s.fix = {}
       /\ s.proposed = Nil /\ s.actual = Nil /\ s.evidence = {} /\ s.reason = {}
    \/ /\ s.state = "invalidated"
       /\ s.reason # {}
       /\ PristineReviewing([s EXCEPT !.state = "reviewing", !.reason = {}])
    \/ /\ s.state = "correction_required"
       /\ DOMAIN s.reports = s.lenses /\ s.fix # {} /\ s.evidence = {}
    \/ /\ s.state = "validating"
       /\ DOMAIN s.reports = s.lenses /\ s.evidence = {}
    \/ s.state = "approved" /\ s.evidence # {}
    \/ s.state = "escalated"

Valid(s) ==
    /\ ValidIdentity(s) /\ ValidScope(s) /\ ValidFindings(s)
    /\ ValidLines(s) /\ ValidCorrection(s) /\ ValidByState(s)
=============================================================================
