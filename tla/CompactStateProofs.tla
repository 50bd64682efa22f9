-------------------------- MODULE CompactStateProofs --------------------------
(***************************************************************************)
(* What the handlers of a compact review record do to it, for any lenses,  *)
(* findings, paths and budgets: which fields a handler changes, and that a *)
(* record it leaves passes the validator that was written apart from it.   *)
(***************************************************************************)
EXTENDS CompactState, SequenceTheorems, TLAPS

---------------------------------------------------------------------------
(* Records. *)

(* s has exactly the fields of a persisted record.                         *)
Shaped(s) ==
    s \in [lineage : {s.lineage}, generation : {s.generation},
           recovery : {s.recovery}, state : {s.state},
           initial : {s.initial}, current : {s.current},
           risk : {s.risk}, lenses : {s.lenses}, lines : {s.lines},
           budget : {s.budget}, reports : {s.reports}, severe : {s.severe},
           classifications : {s.classifications}, outcomes : {s.outcomes},
           fix : {s.fix}, followUps : {s.followUps}, proposed : {s.proposed},
           actual : {s.actual}, fixDelta : {s.fixDelta}, checks : {s.checks},
           evidence : {s.evidence}, reason : {s.reason},
           attempts : {s.attempts}, cumulative : {s.cumulative}]

(* t is a record with the identity, provenance and frozen scope of s.      *)
Keeps(s, t) ==
    /\ t.lineage = s.lineage /\ t.generation = s.generation
    /\ t.recovery = s.recovery /\ t.initial = s.initial
    /\ t.state \in States
    /\ Shaped(t)

(* A new review is a record without provenance.                            *)
LEMMA NewIsShaped ==
    ASSUME NEW l, NEW g, NEW kind, NEW base, NEW tree, NEW lenses
    PROVE  LET t == NewCompactState(l, g, kind, base, tree, lenses) IN
           /\ Shaped(t)
           /\ t.lineage = l /\ t.generation = g /\ t.recovery = {}
           /\ t.state = "reviewing"
BY DEF Shaped, NewCompactState

(* CompleteReview keeps the identity of the record it is called on.        *)
LEMMA ReviewKeeps ==
    ASSUME NEW s, Shaped(s), NEW in
    PROVE  Keeps(s, ReviewCompleted(s, in))
BY DEF Shaped, Keeps, ReviewCompleted, States

(* So does Invalidate. *)
LEMMA InvalidationKeeps ==
    ASSUME NEW s, Shaped(s), NEW reason
    PROVE  Keeps(s, Invalidated(s, reason))
BY DEF Shaped, Keeps, Invalidated, States

(* So does BeginCorrection, which leaves the state or escalates.           *)
LEMMA ForecastKeeps ==
    ASSUME NEW s, Shaped(s), s.state \in States, NEW lines
    PROVE  Keeps(s, CorrectionBegun(s, lines))
BY DEF Shaped, Keeps, CorrectionBegun, States

(* So does CompleteVerification. *)
LEMMA VerificationKeeps ==
    ASSUME NEW s, Shaped(s), NEW payload, NEW approved
    PROVE  Keeps(s, Verified(s, payload, approved))
BY DEF Shaped, Keeps, Verified, States

(* So does CompleteCorrection, on each of its three ways out.              *)
LEMMA CorrectionKeeps ==
    ASSUME NEW s, Shaped(s), NEW snapshot, NEW original, NEW regression
    PROVE  Keeps(s, CorrectionCompleted(s, snapshot, original, regression))
<1> DEFINE recorded == Recorded(s, snapshot, original, regression)
           settled  == Settled(recorded, snapshot, original, regression)
           reopened(state) == [settled EXCEPT !.state = state,
                                  !.proposed = Nil, !.actual = Nil,
                                  !.fixDelta = {}, !.checks = {}]
           SameIdentity(t) == /\ Shaped(t)
                              /\ t.lineage = s.lineage /\ t.generation = s.generation
                              /\ t.recovery = s.recovery /\ t.initial = s.initial
<1>1. SameIdentity(recorded)
  BY DEF Shaped, Recorded
<1> HIDE DEF recorded
<1>2. SameIdentity(settled)
  BY <1>1 DEF Shaped, Settled
<1> HIDE DEF settled
<1>3. ASSUME NEW state \in States
      PROVE  /\ Keeps(s, [settled EXCEPT !.state = state])
             /\ Keeps(s, reopened(state))
  BY <1>2, <1>3 DEF Shaped, Keeps
<1>4. \/ CorrectionCompleted(s, snapshot, original, regression)
            = [settled EXCEPT !.state = "escalated"]
      \/ CorrectionCompleted(s, snapshot, original, regression)
            = [settled EXCEPT !.state = "validating"]
      \/ CorrectionCompleted(s, snapshot, original, regression) = reopened("escalated")
      \/ CorrectionCompleted(s, snapshot, original, regression)
            = reopened("correction_required")
  BY DEF CorrectionCompleted, Reopened, settled, recorded
<1>5. {"escalated", "validating", "correction_required"} \subseteq States
  BY DEF States
<1> HIDE DEF reopened
<1> QED BY <1>3, <1>4, <1>5

(* A withdrawn record passes the validator, although Invalidate does not   *)
(* call it.                                                                *)
LEMMA WithdrawnIsValid ==
    ASSUME NEW s, Shaped(s), Valid(s), PristineReviewing(s), NEW reason
    PROVE  Valid(Invalidated(s, reason))
<1> DEFINE t == Invalidated(s, reason)
<1>1. /\ t.state = "invalidated" /\ t.reason = {reason}
      /\ t.lineage = s.lineage /\ t.generation = s.generation
      /\ t.recovery = s.recovery /\ t.initial = s.initial /\ t.current = s.current
      /\ t.risk = s.risk /\ t.lenses = s.lenses /\ t.lines = s.lines
      /\ t.budget = s.budget /\ t.reports = s.reports
      /\ t.classifications = s.classifications /\ t.outcomes = s.outcomes
      /\ t.fix = s.fix /\ t.followUps = s.followUps
      /\ t.proposed = s.proposed /\ t.actual = s.actual
      /\ t.fixDelta = s.fixDelta /\ t.checks = s.checks
      /\ t.evidence = s.evidence
      /\ t.attempts = s.attempts /\ t.cumulative = s.cumulative
  BY DEF Shaped, Invalidated
<1>2. [t EXCEPT !.state = "reviewing", !.reason = {}] = s
  BY DEF Shaped, Invalidated, PristineReviewing
<1> HIDE DEF t
<1>3. ValidIdentity(t) /\ ValidScope(t) /\ ValidFindings(t)
  BY <1>1 DEF Valid, ValidIdentity, ValidScope, ValidFindings, GenesisPaths
<1>4. ValidLines(t)
  BY <1>1 DEF Valid, ValidLines, PristineReviewing, Nil
<1>5. ValidAttempts(t)
  <2>1. \A i : AttemptBase(t, i) = AttemptBase(s, i)
    BY <1>1 DEF AttemptBase
  <2> QED BY <1>1, <2>1 DEF Valid, ValidCorrection, ValidAttempts, GenesisPaths,
                              PristineReviewing
<1>6. ValidCorrection(t)
  <2>1. ~ EscalatedBetweenAttempts(t) /\ ~ Corrected(t) /\ ValidUncorrected(t)
    BY <1>1 DEF EscalatedBetweenAttempts, Corrected, ValidUncorrected,
                PristineReviewing
  <2> QED BY <1>1, <1>5, <2>1 DEF ValidCorrection
<1>7. ValidByState(t)
  BY <1>1, <1>2 DEF ValidByState, PristineReviewing
<1> QED BY <1>3, <1>4, <1>6, <1>7 DEF Valid, t

---------------------------------------------------------------------------
(* The effect of each handler, by the groups of fields it leaves alone.    *)

KeepsScope(s, t) ==
    /\ t.lineage = s.lineage /\ t.generation = s.generation
    /\ t.recovery = s.recovery /\ t.initial = s.initial /\ t.risk = s.risk
    /\ t.lenses = s.lenses /\ t.lines = s.lines /\ t.budget = s.budget

SameFindings(s, t) ==
    /\ t.reports = s.reports /\ t.severe = s.severe
    /\ t.classifications = s.classifications /\ t.outcomes = s.outcomes
    /\ t.fix = s.fix /\ t.followUps = s.followUps

SameAttempts(s, t) ==
    /\ t.current = s.current /\ t.fixDelta = s.fixDelta /\ t.actual = s.actual
    /\ t.checks = s.checks /\ t.attempts = s.attempts
    /\ t.cumulative = s.cumulative

SameDecision(s, t) == t.evidence = s.evidence /\ t.reason = s.reason

(* CompleteReview writes the findings and routes the review.               *)
LEMMA ReviewEffect ==
    ASSUME NEW s, Shaped(s), NEW in
    PROVE  LET t == ReviewCompleted(s, in) IN
           /\ Shaped(t) /\ KeepsScope(s, t) /\ SameAttempts(s, t) /\ SameDecision(s, t)
           /\ t.proposed = s.proposed
           /\ t.reports = in.reports /\ t.severe = in.severe
           /\ t.classifications = in.evidence
           /\ t.outcomes = [f \in Findings(in.reports) |-> Routed(in, f)]
           /\ t.fix = {f \in in.severe : t.outcomes[f] = "corroborated"}
           /\ t.followUps = {f \in in.severe : t.outcomes[f] = "info"}
           /\ t.state = CASE \E f \in in.severe : t.outcomes[f] = "inconclusive"
                                -> "escalated"
                          [] t.fix # {}
                             /\ ~ \E f \in in.severe : t.outcomes[f] = "inconclusive"
                                -> "correction_required"
                          [] OTHER -> "validating"
BY DEF Shaped, ReviewCompleted, KeepsScope, SameAttempts, SameDecision

(* Invalidate writes the state and the reason. *)
LEMMA WithdrawalEffect ==
    ASSUME NEW s, Shaped(s), NEW reason
    PROVE  LET t == Invalidated(s, reason) IN
           /\ Shaped(t) /\ KeepsScope(s, t) /\ SameFindings(s, t) /\ SameAttempts(s, t)
           /\ t.state = "invalidated" /\ t.proposed = s.proposed
           /\ t.evidence = s.evidence /\ t.reason = {reason}
BY DEF Shaped, Invalidated, KeepsScope, SameFindings, SameAttempts

(* BeginCorrection writes the forecast and may escalate.                   *)
LEMMA ForecastEffect ==
    ASSUME NEW s, Shaped(s), NEW lines
    PROVE  LET t == CorrectionBegun(s, lines) IN
           /\ Shaped(t) /\ KeepsScope(s, t) /\ SameFindings(s, t) /\ SameAttempts(s, t)
           /\ SameDecision(s, t)
           /\ t.proposed = lines
           /\ t.state = IF s.cumulative + lines > s.budget THEN "escalated" ELSE s.state
BY DEF Shaped, CorrectionBegun, KeepsScope, SameFindings, SameAttempts, SameDecision

(* CompleteVerification writes the evidence and the verdict.               *)
LEMMA VerificationEffect ==
    ASSUME NEW s, Shaped(s), NEW payload, NEW approved
    PROVE  LET t == Verified(s, payload, approved) IN
           /\ Shaped(t) /\ KeepsScope(s, t) /\ SameFindings(s, t) /\ SameAttempts(s, t)
           /\ t.proposed = s.proposed /\ t.reason = s.reason
           /\ t.evidence = {payload}
           /\ t.state = IF approved THEN "approved" ELSE "escalated"
BY DEF Shaped, Verified, KeepsScope, SameFindings, SameAttempts

(* The attempt that CompleteCorrection appends. *)
Tried(s, snapshot, original, regression) ==
    [proposed |-> s.proposed, actual |-> DiffLines(snapshot.base, snapshot.tree),
     snapshot |-> snapshot, original |-> original, regression |-> regression]

(* What an attempt measured and its two checks stand in the record.        *)
Measured(s, t, snapshot, original, regression) ==
    /\ t.proposed = s.proposed /\ t.fixDelta = {snapshot}
    /\ t.actual = DiffLines(snapshot.base, snapshot.tree)
    /\ t.checks = {<<original, regression>>}

(* The record t that CompleteCorrection leaves of s: the attempt is on it, *)
(* and it took one of three ways out: over budget, checks passed, or open  *)
(* again unless exhausted.                                                 *)
LeftByCorrection(s, t, snapshot, original, regression) ==
    /\ Shaped(t) /\ KeepsScope(s, t) /\ SameFindings(s, t) /\ SameDecision(s, t)
    /\ t.current = snapshot
    /\ t.cumulative = s.cumulative + DiffLines(snapshot.base, snapshot.tree)
    /\ t.attempts = Append(s.attempts, Tried(s, snapshot, original, regression))
    /\ \/ /\ t.cumulative > s.budget /\ t.state = "escalated"
          /\ Measured(s, t, snapshot, original, regression)
       \/ /\ ~ (t.cumulative > s.budget) /\ t.state = "validating"
          /\ original /\ regression
          /\ Measured(s, t, snapshot, original, regression)
       \/ /\ ~ (t.cumulative > s.budget)
          /\ t.state = IF Len(t.attempts) >= MaxCompactCorrectionAttempts
                       THEN "escalated" ELSE "correction_required"
          /\ t.proposed = Nil /\ t.actual = Nil /\ t.fixDelta = {} /\ t.checks = {}

(* CompleteCorrection records the attempt before anything is decided.      *)
LEMMA CorrectionEffect ==
    ASSUME NEW s, Shaped(s), NEW snapshot,
           NEW original \in BOOLEAN, NEW regression \in BOOLEAN
    PROVE  LeftByCorrection(s, CorrectionCompleted(s, snapshot, original, regression),
                            snapshot, original, regression)
<1> DEFINE recorded == Recorded(s, snapshot, original, regression)
           settled  == Settled(recorded, snapshot, original, regression)
           t == CorrectionCompleted(s, snapshot, original, regression)
           Common(r) == /\ Shaped(r) /\ KeepsScope(s, r) /\ SameFindings(s, r)
                        /\ SameDecision(s, r) /\ r.current = snapshot
                        /\ r.cumulative = s.cumulative
                              + DiffLines(snapshot.base, snapshot.tree)
                        /\ r.attempts = Append(s.attempts,
                              Tried(s, snapshot, original, regression))
<1> USE DEF KeepsScope, SameFindings, SameDecision, LeftByCorrection
<1>1. Common(recorded) /\ recorded.proposed = s.proposed
  BY DEF Shaped, Recorded, Tried
<1>2. /\ t = IF recorded.cumulative > s.budget THEN [settled EXCEPT !.state = "escalated"]
             ELSE IF settled.checks = {<<TRUE, TRUE>>}
             THEN [settled EXCEPT !.state = "validating"]
             ELSE Reopened(settled)
  BY DEF CorrectionCompleted
<1> HIDE DEF recorded, t
<1>3. Common(settled) /\ Measured(s, settled, snapshot, original, regression)
  BY <1>1 DEF Shaped, Settled, Measured
<1> HIDE DEF settled
<1>4. (settled.checks = {<<TRUE, TRUE>>}) <=> original /\ regression
  <2>1. settled.checks = {<<original, regression>>}
    BY <1>3 DEF Measured
  <2>2. settled.checks = {<<TRUE, TRUE>>} <=> <<original, regression>> = <<TRUE, TRUE>>
    BY <2>1
  <2>3. \A x, y, u, v : <<x, y>> = <<u, v>> <=> x = u /\ y = v
    OBVIOUS
  <2>4. settled.checks = {<<TRUE, TRUE>>} <=> original = TRUE /\ regression = TRUE
    BY <2>2, <2>3, Zenon
  <2>5. \A b \in BOOLEAN : b = TRUE <=> b
    OBVIOUS
  <2> QED BY <2>4, <2>5, Zenon
<1>5. ASSUME NEW state, t = [settled EXCEPT !.state = state]
      PROVE  /\ Common(t) /\ t.state = state
             /\ Measured(s, t, snapshot, original, regression)
  BY <1>3, <1>5 DEF Shaped, Measured
<1>6. ASSUME t = Reopened(settled)
      PROVE  /\ Common(t) /\ t.proposed = Nil /\ t.actual = Nil
             /\ t.fixDelta = {} /\ t.checks = {}
             /\ t.state = IF Len(t.attempts) >= MaxCompactCorrectionAttempts
                          THEN "escalated" ELSE "correction_required"
  <2> DEFINE state == IF Len(settled.attempts) >= MaxCompactCorrectionAttempts
                      THEN "escalated" ELSE "correction_required"
  <2>1. t = [settled EXCEPT !.state = state, !.proposed = Nil, !.actual = Nil,
                            !.fixDelta = {}, !.checks = {}]
    BY <1>6 DEF Reopened
  <2> HIDE DEF state
  <2>2. /\ Common(t) /\ t.proposed = Nil /\ t.actual = Nil
        /\ t.fixDelta = {} /\ t.checks = {} /\ t.state = state
        /\ t.attempts = settled.attempts
    BY <1>3, <2>1 DEF Shaped
  <2> QED BY <2>2 DEF state
<1>7. settled.cumulative = recorded.cumulative
  BY <1>1, <1>3
<1>8. CASE recorded.cumulative > s.budget
  BY <1>1, <1>2, <1>5, <1>8 DEF t
<1>9. CASE ~ (recorded.cumulative > s.budget) /\ original /\ regression
  BY <1>1, <1>2, <1>4, <1>5, <1>9 DEF t
<1>10. CASE ~ (recorded.cumulative > s.budget) /\ ~ (original /\ regression)
  BY <1>1, <1>2, <1>4, <1>6, <1>10 DEF t
<1> QED BY <1>8, <1>9, <1>10

---------------------------------------------------------------------------
(* The lines charged to a correction. *)

(* What the loop of the validator adds up, attempt by attempt.  A review   *)
(* has at most three, so the recursion is unrolled instead of induced on.  *)
LEMMA ThreeCharges ==
    ASSUME NEW S, NEW attempts \in Seq(S), Len(attempts) <= 3,
           \A i \in 1 .. Len(attempts) : attempts[i].actual \in Nat
    PROVE LET n == Len(attempts) IN
          LinesCharged(attempts) =
             IF n = 0 THEN 0
             ELSE IF n = 1 THEN attempts[1].actual
             ELSE IF n = 2 THEN attempts[1].actual + attempts[2].actual
             ELSE attempts[1].actual + attempts[2].actual + attempts[3].actual
<1> DEFINE n == Len(attempts)
           a(i) == attempts[i].actual
           P(h) == h = [i \in 0 .. n |-> IF i = 0 THEN 0 ELSE h[i - 1] + a(i)]
           total(i) == IF i = 0 THEN 0 ELSE IF i = 1 THEN a(1)
                       ELSE IF i = 2 THEN a(1) + a(2) ELSE a(1) + a(2) + a(3)
           charged == CHOOSE h : P(h)
<1>0. n \in 0 .. 3 /\ \A i \in 1 .. n : a(i) \in Nat
  <2>1. Len(attempts) \in Nat
    BY LenProperties
  <2>2. \A m \in Nat : m <= 3 => m \in 0 .. 3
    OBVIOUS
  <2>3. \A i \in 1 .. n : a(i) \in Nat
    OBVIOUS
  <2> QED BY <2>1, <2>2, <2>3
<1>1. \E h : P(h)
  <2> DEFINE h == [i \in 0 .. n |-> total(i)]
  <2>1. \A i \in 0 .. n : i = 0 \/ (i \in {1, 2, 3} /\ i - 1 \in 0 .. n)
    BY <1>0
  <2>2. \A i \in 0 .. n : h[i] = total(i)
    OBVIOUS
  <2>3. DOMAIN h = 0 .. n
    OBVIOUS
  <2> HIDE DEF h, n, a
  <2>4. \A i \in 0 .. n : total(i) = IF i = 0 THEN 0 ELSE h[i - 1] + a(i)
    BY <1>0, <2>1, <2>2
  <2>5. h = [i \in 0 .. n |-> IF i = 0 THEN 0 ELSE h[i - 1] + a(i)]
    BY <2>4 DEF h
  <2> QED BY <2>5
<1>2. P(charged)
  BY <1>1, Zenon
<1>3. LinesCharged(attempts) = charged[n]
  BY DEF LinesCharged
<1> HIDE DEF charged, n, a
<1>4. charged[0] = 0 /\ \A i \in 1 .. n : charged[i] = charged[i - 1] + a(i)
  <2>1. \A i \in 0 .. n : charged[i] = IF i = 0 THEN 0 ELSE charged[i - 1] + a(i)
    BY <1>2
  <2> QED BY <1>0, <2>1
<1>5. charged[n] = total(n)
  BY <1>0, <1>4
<1> QED BY <1>3, <1>5 DEF n, a

(* One more attempt charges what it changed. *)
LEMMA AppendedCharge ==
    ASSUME NEW S, NEW attempts \in Seq(S), Len(attempts) < 3,
           \A i \in 1 .. Len(attempts) : attempts[i].actual \in Nat,
           NEW tried \in S, tried.actual \in Nat
    PROVE  LinesCharged(Append(attempts, tried)) = LinesCharged(attempts) + tried.actual
<1> DEFINE n == Len(attempts)
           longer == Append(attempts, tried)
<1>1. n \in Nat /\ longer \in Seq(S) /\ Len(longer) = n + 1
      /\ longer[n + 1] = tried /\ \A i \in 1 .. n : longer[i] = attempts[i]
  BY LenProperties, AppendProperties
<1>2. \A m \in Nat : m < 3 => m \in {0, 1, 2} /\ m + 1 <= 3 /\ m <= 3
  OBVIOUS
<1>3. n \in {0, 1, 2} /\ n + 1 <= 3 /\ n <= 3
  BY <1>1, <1>2
<1> HIDE DEF n, longer
<1>4. \A i \in 1 .. n + 1 : longer[i].actual \in Nat
  BY <1>1, <1>3 DEF n
<1>5. LinesCharged(longer) =
         IF n = 0 THEN longer[1].actual
         ELSE IF n = 1 THEN longer[1].actual + longer[2].actual
         ELSE longer[1].actual + longer[2].actual + longer[3].actual
  <2>1. Len(longer) <= 3 /\ \A i \in 1 .. Len(longer) : longer[i].actual \in Nat
    BY <1>1, <1>3, <1>4
  <2>2. LinesCharged(longer) =
           IF Len(longer) = 0 THEN 0
           ELSE IF Len(longer) = 1 THEN longer[1].actual
           ELSE IF Len(longer) = 2 THEN longer[1].actual + longer[2].actual
           ELSE longer[1].actual + longer[2].actual + longer[3].actual
    BY <1>1, <2>1, ThreeCharges
  <2> QED BY <1>1, <1>3, <2>2
<1>6. LinesCharged(attempts) =
         IF n = 0 THEN 0
         ELSE IF n = 1 THEN attempts[1].actual
         ELSE attempts[1].actual + attempts[2].actual
  BY <1>3, ThreeCharges DEF n
<1> QED BY <1>1, <1>3, <1>4, <1>5, <1>6 DEF longer

===============================================================================
