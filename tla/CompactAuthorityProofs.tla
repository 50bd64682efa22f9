------------------------ MODULE CompactAuthorityProofs ------------------------
(***************************************************************************)
(* What the recovery graph and the verdicts guarantee for any number of    *)
(* lineages, lenses, paths, budgets and generations.                       *)
(*                                                                         *)
(* The argument.  Every handler keeps the identity of a record (Keeps),    *)
(* and none moves a record that carries a verdict, so a step either        *)
(* advances one open record, creates one, recovers one from a closed one,  *)
(* or writes a receipt (StepKinds).  A closed record never changes, which  *)
(* keeps every predecessor link exact (RecoveryIsJustified); generations   *)
(* grow along links, which rules out cycles (AcyclicByGeneration).         *)
(***************************************************************************)
EXTENDS CompactAuthority, CompactStateProofs, WellFoundedInduction

---------------------------------------------------------------------------
(* The graph. *)

(* A set of natural numbers has a least member.                            *)
LEMMA LeastExists ==
    ASSUME NEW T, T \subseteq Nat, T # {}
    PROVE  \E least \in T : \A n \in T : ~ (n < least)
<1> DEFINE Less == OpToRel(<, Nat)
<1>1. IsWellFoundedOn(Less, Nat)
  BY NatLessThanWellFounded
<1>2. \A m, n \in Nat : m < n => <<m, n>> \in Less
  BY DEF OpToRel
<1> HIDE DEF Less
<1>3. \E least \in T : \A n \in T : ~ (<<n, least>> \in Less)
  BY <1>1, WFMin, Zenon
<1> QED BY <1>2, <1>3

(* Generations that grow by one along every predecessor link leave no room *)
(* for a cycle: a closed set of lineages has no member of least generation.*)
LEMMA AcyclicByGeneration ==
    ASSUME NEW auth,
           \A l \in Lineages : \A s, t \in auth[l] : s = t,
           \A l \in Lineages : \A s \in auth[l] : s.generation \in Nat,
           \A l \in Lineages : \A s \in auth[l] : \A r \in s.recovery :
              /\ r.predecessor \in Lineages
              /\ \E pred \in auth[r.predecessor] :
                    s.generation = pred.generation + 1
    PROVE  Acyclic(auth)
<1> SUFFICES ASSUME NEW S \in SUBSET Lineages,
                    \A l \in S : \E s \in auth[l] : \E r \in s.recovery :
                        r.predecessor \in S,
                    S # {}
             PROVE  FALSE
  BY DEF Acyclic
<1> DEFINE G == {g \in Nat : \E l \in S : \E s \in auth[l] : s.generation = g}
<1>1. G \subseteq Nat /\ G # {}
  OBVIOUS
<1>2. PICK least \in G : \A g \in G : ~ (g < least)
  <2> HIDE DEF G
  <2> QED BY <1>1, LeastExists
<1>3. PICK l \in S : \E s \in auth[l] : s.generation = least
  BY DEF G
<1>4. PICK s \in auth[l] : \E r \in s.recovery : r.predecessor \in S
  OBVIOUS
<1>5. s.generation = least
  BY <1>3
<1>6. PICK r \in s.recovery : r.predecessor \in S
  BY <1>4
<1>7. PICK pred \in auth[r.predecessor] : s.generation = pred.generation + 1
  OBVIOUS
<1>8. pred.generation \in G /\ pred.generation < least
  BY <1>5, <1>6, <1>7 DEF G
<1> QED
  BY <1>1, <1>2, <1>8

---------------------------------------------------------------------------
(* The inductive invariant. *)

Identified ==
    \A l \in Lineages : \A s \in authority[l] :
        Shaped(s) /\ \A r \in s.recovery : r.predecessor \in Lineages \ {l}

ReceiptsAreVerdicts ==
    \A l \in Lineages :
        \/ receipts[l] = {}
        \/ \E s \in authority[l] : s.state \in Receipted /\ receipts[l] = {Receipt(s)}

IInv ==
    /\ AuthorityTypeOK
    /\ Identified
    /\ RecoveryIsJustified
    /\ Unforked(authority)
    /\ ReceiptsAreVerdicts

(* The graph is valid whenever the invariant holds.                        *)
LEMMA InvariantGraph == IInv => GraphStaysValid
<1> SUFFICES ASSUME IInv PROVE GraphValid(authority)
  BY DEF GraphStaysValid
<1>1. Linked(authority)
  BY DEF IInv, RecoveryIsJustified, Linked
<1>2. Unforked(authority)
  BY DEF IInv
<1>3. Acyclic(authority)
  <2>1. \A l \in Lineages : \A s, t \in authority[l] : s = t
    BY DEF IInv, AuthorityTypeOK
  <2>2. \A l \in Lineages : \A s \in authority[l] : s.generation \in Nat
    BY DEF IInv, AuthorityTypeOK
  <2>3. \A l \in Lineages : \A s \in authority[l] : \A r \in s.recovery :
           /\ r.predecessor \in Lineages
           /\ \E pred \in authority[r.predecessor] :
                 s.generation = pred.generation + 1
    BY DEF IInv, Identified, RecoveryIsJustified
  <2> QED BY <2>1, <2>2, <2>3, AcyclicByGeneration
<1> QED BY <1>1, <1>2, <1>3 DEF GraphValid

---------------------------------------------------------------------------
(* The four kinds of steps. *)

Installs(l, t) == authority' = [authority EXCEPT ![l] = {t}] /\ receipts' = receipts

AdvancesOpen ==
    \E l \in Lineages : \E s \in authority[l] : \E t :
        s.state \notin Terminal /\ Keeps(s, t) /\ Installs(l, t)

CreatesFirst ==
    \E l \in Lineages : \E t :
        /\ authority[l] = {}
        /\ Shaped(t) /\ t.lineage = l /\ t.generation = 1
        /\ t.recovery = {} /\ t.state = "reviewing"
        /\ Installs(l, t)

RecoversClosed ==
    \E l, m \in Lineages : \E pred \in authority[l] :
    \E t : \E grant \in RecoveryGrants :
        /\ RecoverAllowed(authority, pred, t, grant)
        /\ Shaped(t) /\ t.lineage = m /\ t.state = "reviewing"
        /\ t.recovery = {Provenance(pred, grant)}
        /\ Installs(m, t)

ReceiptsVerdict ==
    \E l \in Lineages : \E s \in authority[l] :
        /\ s.state \in Receipted
        /\ receipts' = [receipts EXCEPT ![l] = {Receipt(s)}]
        /\ authority' = authority

(* Each command is a step of one of these kinds.                           *)
LEMMA StepKinds ==
    IInv /\ Next => AdvancesOpen \/ CreatesFirst \/ RecoversClosed \/ ReceiptsVerdict
<1> SUFFICES ASSUME IInv, Next
             PROVE  AdvancesOpen \/ CreatesFirst \/ RecoversClosed \/ ReceiptsVerdict
  OBVIOUS
<1> USE DEF Becomes, Installs
<1>0. \A l \in Lineages : \A s \in authority[l] : Shaped(s) /\ s.state \in States
  BY DEF IInv, Identified, AuthorityTypeOK
<1>1. CASE \E l \in Roots : Start(l)
  <2>1. PICK l \in Roots : Start(l)
    BY <1>1
  <2>2. PICK target \in StartTargets, lenses \in SUBSET Lenses :
            Becomes(l, NewCompactState(l, 1, target[1], target[2], target[3], lenses))
    BY <2>1 DEF Start
  <2>3. l \in Lineages /\ authority[l] = {}
    BY <2>1, RootsAssumption DEF Start
  <2> DEFINE fresh == NewCompactState(l, 1, target[1], target[2], target[3], lenses)
  <2>4. /\ Shaped(fresh) /\ fresh.lineage = l /\ fresh.generation = 1
        /\ fresh.recovery = {} /\ fresh.state = "reviewing"
    BY NewIsShaped
  <2>5. Installs(l, fresh)
    BY <2>2
  <2> HIDE DEF fresh
  <2> QED BY <2>3, <2>4, <2>5 DEF CreatesFirst
<1>2. ASSUME NEW l \in Lineages, CompleteReview(l) PROVE AdvancesOpen
  <2>1. PICK s \in authority[l], in \in ReviewInputs :
            CompleteReviewAllowed(s, in) /\ Becomes(l, ReviewCompleted(s, in))
    BY <1>2 DEF CompleteReview
  <2>2. s.state \notin Terminal
    BY <2>1 DEF CompleteReviewAllowed, Terminal
  <2> QED BY <1>0, <2>1, <2>2, ReviewKeeps DEF AdvancesOpen
<1>3. ASSUME NEW l \in Lineages, Invalidate(l) PROVE AdvancesOpen
  <2>1. PICK s \in authority[l], reason \in Reasons :
            PristineReviewing(s) /\ Becomes(l, Invalidated(s, reason))
    BY <1>3 DEF Invalidate
  <2>2. s.state \notin Terminal
    BY <2>1 DEF PristineReviewing, Terminal
  <2> QED BY <1>0, <2>1, <2>2, InvalidationKeeps DEF AdvancesOpen
<1>4. ASSUME NEW l \in Lineages, BeginCorrection(l) PROVE AdvancesOpen
  <2>1. PICK s \in authority[l], lines \in Forecasts :
            BeginCorrectionAllowed(s, lines) /\ Becomes(l, CorrectionBegun(s, lines))
    BY <1>4 DEF BeginCorrection
  <2>2. s.state \notin Terminal
    BY <2>1 DEF BeginCorrectionAllowed, Terminal
  <2> QED BY <1>0, <2>1, <2>2, ForecastKeeps DEF AdvancesOpen
<1>5. ASSUME NEW l \in Lineages, CompleteCorrection(l) PROVE AdvancesOpen
  <2>1. PICK s \in authority[l], tree \in FixedTrees, original \in BOOLEAN,
             regression \in BOOLEAN :
            LET snapshot == SnapshotOf("fix-diff", s.current.tree, tree, s.fix) IN
            /\ CompleteCorrectionAllowed(s, snapshot)
            /\ Becomes(l, CorrectionCompleted(s, snapshot, original, regression))
    BY <1>5 DEF CompleteCorrection
  <2>2. s.state \notin Terminal
    BY <2>1 DEF CompleteCorrectionAllowed, Terminal
  <2> QED BY <1>0, <2>1, <2>2, CorrectionKeeps DEF AdvancesOpen
<1>6. ASSUME NEW l \in Lineages, CompleteVerification(l) PROVE AdvancesOpen
  <2>1. PICK s \in authority[l], payload \in EvidencePayloads, approved \in BOOLEAN :
            s.state = "validating" /\ Becomes(l, Verified(s, payload, approved))
    BY <1>6 DEF CompleteVerification
  <2>2. s.state \notin Terminal
    BY <2>1 DEF Terminal
  <2> QED BY <1>0, <2>1, <2>2, VerificationKeeps DEF AdvancesOpen
<1>7. ASSUME NEW l \in Lineages, WriteReceipt(l) PROVE ReceiptsVerdict
  BY <1>7 DEF WriteReceipt, ReceiptsVerdict
<1>8. ASSUME NEW l \in Lineages, NEW m \in Lineages, Recover(l, m)
      PROVE  RecoversClosed
  <2>1. PICK pred \in authority[l], target \in StartTargets,
             lenses \in SUBSET Lenses, grant \in RecoveryGrants :
            LET next == Successor(pred, m, target[2], target[3], lenses, grant) IN
            /\ RecoverAllowed(authority, pred, next, grant)
            /\ Becomes(m, next)
    BY <1>8 DEF Recover
  <2> DEFINE fresh == NewCompactState(m, pred.generation + 1, "current-changes",
                                      target[2], target[3], lenses)
             next  == Successor(pred, m, target[2], target[3], lenses, grant)
  <2>2. Shaped(fresh) /\ fresh.lineage = m /\ fresh.state = "reviewing"
    BY NewIsShaped
  <2>3. next = [fresh EXCEPT !.recovery = {Provenance(pred, grant)}]
    BY DEF Successor
  <2> HIDE DEF fresh, next
  <2>4. /\ Shaped(next) /\ next.lineage = m /\ next.state = "reviewing"
        /\ next.recovery = {Provenance(pred, grant)}
    BY <2>2, <2>3 DEF Shaped
  <2>5. RecoverAllowed(authority, pred, next, grant) /\ Becomes(m, next)
    BY <2>1 DEF next
  <2> QED BY <2>4, <2>5 DEF RecoversClosed
<1> QED BY <1>1, <1>2, <1>3, <1>4, <1>5, <1>6, <1>7, <1>8 DEF Next

---------------------------------------------------------------------------
(* Each kind of step preserves the invariant. *)

(* At first nothing is on disk. *)
LEMMA InitInvariant == Init => IInv
BY DEF Init, IInv, AuthorityTypeOK, Identified, RecoveryIsJustified, Unforked,
       Children, ReceiptsAreVerdicts

(* What a predecessor link points to carries a verdict.                    *)
LEMMA PredecessorsAreClosed ==
    ASSUME IInv, NEW m \in Lineages, NEW s \in authority[m], NEW r \in s.recovery
    PROVE  \E pred \in authority[r.predecessor] : pred.state \in Terminal
BY DEF IInv, RecoveryIsJustified, Terminal

(* A handler moves one open record, which nobody has recovered from.       *)
LEMMA AdvanceInvariant == IInv /\ AdvancesOpen => IInv'
<1> SUFFICES ASSUME IInv, AdvancesOpen PROVE IInv'
  OBVIOUS
<1>1. PICK l \in Lineages : \E s \in authority[l] : \E t :
          s.state \notin Terminal /\ Keeps(s, t) /\ Installs(l, t)
  BY DEF AdvancesOpen
<1>0. PICK s \in authority[l] : \E t :
          s.state \notin Terminal /\ Keeps(s, t) /\ Installs(l, t)
  BY <1>1
<1>2. PICK t : s.state \notin Terminal /\ Keeps(s, t) /\ Installs(l, t)
  BY <1>0
<1>3. /\ authority'[l] = {t}
      /\ \A m \in Lineages \ {l} : authority'[m] = authority[m]
      /\ DOMAIN authority' = Lineages
      /\ receipts' = receipts
      /\ authority[l] = {s}
  BY <1>2 DEF Installs, IInv, AuthorityTypeOK
<1>4. AuthorityTypeOK'
  BY <1>2, <1>3 DEF IInv, AuthorityTypeOK, Keeps
<1>5. Identified'
  BY <1>2, <1>3 DEF IInv, Identified, Keeps
<1>6. \A m \in Lineages : \A x \in authority'[m] :
          \E y \in authority[m] :
              /\ x.recovery = y.recovery /\ x.generation = y.generation
              /\ x.initial = y.initial
  BY <1>2, <1>3 DEF Keeps
<1>7. \A m \in Lineages : \A y \in authority[m] : \A r \in y.recovery :
          r.predecessor # l /\ r.predecessor \in Lineages
  BY <1>2, <1>3, PredecessorsAreClosed DEF IInv, Identified
<1>8. RecoveryIsJustified'
  BY <1>3, <1>6, <1>7 DEF IInv, RecoveryIsJustified
<1>9. Unforked(authority')
  <2>1. \A n \in Lineages : Children(authority', n) \subseteq Children(authority, n)
    BY <1>6 DEF Children
  <2> QED BY <2>1 DEF IInv, Unforked
<1>10. ReceiptsAreVerdicts'
  <2>1. receipts[l] = {}
    BY <1>2, <1>3 DEF IInv, ReceiptsAreVerdicts, Receipted, Terminal
  <2> QED BY <1>3, <2>1 DEF IInv, ReceiptsAreVerdicts
<1> QED BY <1>4, <1>5, <1>8, <1>9, <1>10 DEF IInv

(* `review start` fills an empty directory, to which no link points.       *)
LEMMA CreateInvariant == IInv /\ CreatesFirst => IInv'
<1> SUFFICES ASSUME IInv, CreatesFirst PROVE IInv'
  OBVIOUS
<1>1. PICK l \in Lineages : \E t :
        /\ authority[l] = {}
        /\ Shaped(t) /\ t.lineage = l /\ t.generation = 1
        /\ t.recovery = {} /\ t.state = "reviewing"
        /\ Installs(l, t)
  BY DEF CreatesFirst
<1>2. PICK t :
        /\ authority[l] = {}
        /\ Shaped(t) /\ t.lineage = l /\ t.generation = 1
        /\ t.recovery = {} /\ t.state = "reviewing"
        /\ Installs(l, t)
  BY <1>1
<1>3. /\ authority'[l] = {t}
      /\ \A m \in Lineages \ {l} : authority'[m] = authority[m]
      /\ DOMAIN authority' = Lineages
      /\ receipts' = receipts
  BY <1>2 DEF Installs, IInv, AuthorityTypeOK
<1>4. AuthorityTypeOK'
  BY <1>2, <1>3 DEF IInv, AuthorityTypeOK, States
<1>5. Identified'
  BY <1>2, <1>3 DEF IInv, Identified
<1>6. \A m \in Lineages : \A y \in authority[m] : \A r \in y.recovery :
          r.predecessor # l /\ r.predecessor \in Lineages
  BY <1>2, PredecessorsAreClosed DEF IInv, Identified
<1>7. RecoveryIsJustified'
  BY <1>2, <1>3, <1>6 DEF IInv, RecoveryIsJustified
<1>8. Unforked(authority')
  <2>1. \A n \in Lineages : Children(authority', n) \subseteq Children(authority, n)
    BY <1>2, <1>3 DEF Children
  <2> QED BY <2>1 DEF IInv, Unforked
<1>9. ReceiptsAreVerdicts'
  BY <1>2, <1>3 DEF IInv, ReceiptsAreVerdicts
<1> QED BY <1>4, <1>5, <1>7, <1>8, <1>9 DEF IInv

(* Writing a receipt leaves the records alone.                             *)
LEMMA ReceiptInvariant == IInv /\ ReceiptsVerdict => IInv'
<1> SUFFICES ASSUME IInv, ReceiptsVerdict PROVE IInv'
  OBVIOUS
<1>1. PICK l \in Lineages : \E s \in authority[l] :
        /\ s.state \in Receipted
        /\ receipts' = [receipts EXCEPT ![l] = {Receipt(s)}]
        /\ authority' = authority
  BY DEF ReceiptsVerdict
<1>2. PICK s \in authority[l] :
        /\ s.state \in Receipted
        /\ receipts' = [receipts EXCEPT ![l] = {Receipt(s)}]
        /\ authority' = authority
  BY <1>1
<1>3. /\ receipts'[l] = {Receipt(s)}
      /\ \A m \in Lineages \ {l} : receipts'[m] = receipts[m]
      /\ DOMAIN receipts' = Lineages
  BY <1>2 DEF IInv, AuthorityTypeOK
<1>4. AuthorityTypeOK' /\ Identified' /\ RecoveryIsJustified' /\ Unforked(authority')
  BY <1>2, <1>3 DEF IInv, AuthorityTypeOK, Identified, RecoveryIsJustified
<1>5. ReceiptsAreVerdicts'
  BY <1>2, <1>3 DEF IInv, ReceiptsAreVerdicts
<1> QED BY <1>4, <1>5 DEF IInv

(* A recovery links an empty directory to a closed record without a child. *)
LEMMA RecoverInvariant == IInv /\ RecoversClosed => IInv'
<1> SUFFICES ASSUME IInv, RecoversClosed PROVE IInv'
  OBVIOUS
<1>1. PICK l \in Lineages, m \in Lineages : \E pred \in authority[l] :
      \E t : \E grant \in RecoveryGrants :
        /\ RecoverAllowed(authority, pred, t, grant)
        /\ Shaped(t) /\ t.lineage = m /\ t.state = "reviewing"
        /\ t.recovery = {Provenance(pred, grant)}
        /\ Installs(m, t)
  BY DEF RecoversClosed
<1>2. PICK pred \in authority[l] :
      \E t : \E grant \in RecoveryGrants :
        /\ RecoverAllowed(authority, pred, t, grant)
        /\ Shaped(t) /\ t.lineage = m /\ t.state = "reviewing"
        /\ t.recovery = {Provenance(pred, grant)}
        /\ Installs(m, t)
  BY <1>1
<1>3. PICK t : \E grant \in RecoveryGrants :
        /\ RecoverAllowed(authority, pred, t, grant)
        /\ Shaped(t) /\ t.lineage = m /\ t.state = "reviewing"
        /\ t.recovery = {Provenance(pred, grant)}
        /\ Installs(m, t)
  BY <1>2
<1>4. PICK grant \in RecoveryGrants :
        /\ RecoverAllowed(authority, pred, t, grant)
        /\ Shaped(t) /\ t.lineage = m /\ t.state = "reviewing"
        /\ t.recovery = {Provenance(pred, grant)}
        /\ Installs(m, t)
  BY <1>3
<1>5. /\ pred.lineage = l /\ pred.generation \in Nat
      /\ l # m
      /\ authority[m] = {}
      /\ t.generation = pred.generation + 1
      /\ \A n \in Lineages : n \notin Children(authority, l)
  BY <1>4 DEF RecoverAllowed, Superseded, IInv, AuthorityTypeOK, Children
<1> DEFINE link == Provenance(pred, grant)
<1>6. /\ link.predecessor = l
      /\ link.revision = Revision(pred)
      /\ link.disposition = grant[1] /\ link.authorized = grant[2]
  BY <1>5 DEF Provenance
<1>7. /\ \/ /\ grant[1] = "scope_changed" /\ pred.state = "approved"
            /\ ScopeChanged(pred.current, t.initial)
         \/ grant[1] = "invalidated" /\ pred.state = "invalidated"
         \/ grant[1] = "escalated" /\ pred.state = "escalated" /\ grant[2]
  BY <1>4 DEF RecoverAllowed, DispositionHolds
<1> HIDE DEF link
<1>8. /\ authority'[m] = {t}
      /\ \A n \in Lineages \ {m} : authority'[n] = authority[n]
      /\ DOMAIN authority' = Lineages
      /\ receipts' = receipts
  BY <1>4 DEF Installs, IInv, AuthorityTypeOK
<1>9. t.recovery = {link} /\ t.lineage = m /\ Shaped(t) /\ t.state \in States
  BY <1>4 DEF link, States
<1>10. AuthorityTypeOK'
  BY <1>5, <1>8, <1>9 DEF IInv, AuthorityTypeOK
<1>11. Identified'
  BY <1>5, <1>6, <1>8, <1>9 DEF IInv, Identified
<1>12. RecoveryIsJustified'
  <2>1. ASSUME NEW n \in Lineages, n # m, NEW s \in authority'[n], NEW r \in s.recovery
        PROVE  r.predecessor # m /\ r.predecessor \in Lineages /\ s \in authority[n]
    BY <1>5, <1>8, <2>1, PredecessorsAreClosed DEF IInv, Identified
  <2>2. pred \in authority'[link.predecessor]
    BY <1>5, <1>6, <1>8
  <2> QED BY <1>5, <1>6, <1>7, <1>8, <1>9, <2>1, <2>2 DEF IInv, RecoveryIsJustified
<1>13. Unforked(authority')
  <2>1. \A n \in Lineages \ {l} : Children(authority', n) \subseteq Children(authority, n)
    BY <1>6, <1>8, <1>9 DEF Children
  <2>2. Children(authority', l) \subseteq {m}
    BY <1>5, <1>8 DEF Children
  <2> QED BY <2>1, <2>2 DEF IInv, Unforked
<1>14. ReceiptsAreVerdicts'
  BY <1>5, <1>8 DEF IInv, ReceiptsAreVerdicts
<1> QED BY <1>10, <1>11, <1>12, <1>13, <1>14 DEF IInv

(* No step rewrites a verdict, a record somebody recovered from or a       *)
(* receipt: the action of VerdictsImmutable, kind by kind.                 *)
LEMMA StepKeepsVerdicts ==
    ASSUME IInv, Next, NEW l \in Lineages
    PROVE  /\ authority[l] # {} => authority'[l] # {}
           /\ (\E s \in authority[l] : s.state \in Terminal) \/ Superseded(authority, l)
                 => authority'[l] = authority[l]
           /\ receipts[l] # {} => receipts'[l] = receipts[l]
<1>1. Superseded(authority, l) => \E pred \in authority[l] : pred.state \in Terminal
  BY PredecessorsAreClosed DEF Superseded, Children
<1>2. DOMAIN authority = Lineages /\ DOMAIN receipts = Lineages
  BY DEF IInv, AuthorityTypeOK
<1>3. CASE AdvancesOpen
  <2>1. PICK m \in Lineages : \E s \in authority[m] : \E t :
            s.state \notin Terminal /\ Keeps(s, t) /\ Installs(m, t)
    BY <1>3 DEF AdvancesOpen
  <2>2. PICK s \in authority[m] : \E t : s.state \notin Terminal /\ Installs(m, t)
    BY <2>1
  <2>3. PICK t : Installs(m, t)
    BY <2>2
  <2>4. \A pred \in authority[m] : pred.state \notin Terminal
    BY <2>2 DEF IInv, AuthorityTypeOK
  <2> QED BY <1>1, <1>2, <2>3, <2>4 DEF Installs
<1>4. CASE CreatesFirst
  <2>1. PICK m \in Lineages : authority[m] = {} /\ \E t : Installs(m, t)
    BY <1>4 DEF CreatesFirst
  <2> QED BY <1>1, <1>2, <2>1 DEF Installs
<1>5. CASE RecoversClosed
  <2>1. PICK m \in Lineages : authority[m] = {} /\ \E t : Installs(m, t)
    BY <1>5 DEF RecoversClosed, RecoverAllowed
  <2> QED BY <1>1, <1>2, <2>1 DEF Installs
<1>6. CASE ReceiptsVerdict
  <2>1. PICK m \in Lineages : \E s \in authority[m] :
            /\ receipts' = [receipts EXCEPT ![m] = {Receipt(s)}]
            /\ authority' = authority
    BY <1>6 DEF ReceiptsVerdict
  <2>2. PICK s \in authority[m] : receipts' = [receipts EXCEPT ![m] = {Receipt(s)}]
    BY <2>1
  <2>3. receipts[m] # {} => receipts[m] = {Receipt(s)}
    BY <2>2, <1>2 DEF IInv, AuthorityTypeOK, ReceiptsAreVerdicts
  <2> QED BY <1>2, <2>1, <2>2, <2>3
<1> QED BY <1>3, <1>4, <1>5, <1>6, StepKinds

---------------------------------------------------------------------------
(* The theorems. *)

(* The invariant only speaks of the two variables.                         *)
LEMMA StutterInvariant == IInv /\ UNCHANGED vars => IInv'
BY DEF IInv, vars, AuthorityTypeOK, Identified, RecoveryIsJustified, Unforked,
       Children, ReceiptsAreVerdicts

(* Every command preserves it. *)
LEMMA NextInvariant == IInv /\ Next => IInv'
BY StepKinds, AdvanceInvariant, CreateInvariant, RecoverInvariant, ReceiptInvariant

(* The invariant holds in every reachable state.                           *)
THEOREM Invariance == Spec => []IInv
BY NextInvariant, InitInvariant, StutterInvariant, PTL DEF Spec

(* One record of the right lineage per directory: discovery can trust the  *)
(* directory it finds a record in.                                         *)
THEOREM TypeCorrectness == Spec => []AuthorityTypeOK
<1>1. IInv => AuthorityTypeOK
  BY DEF IInv
<1> QED BY <1>1, Invariance, PTL

(* RecoverCompactAuthority never forks, dangles or closes a cycle.         *)
THEOREM GraphSafety == Spec => []GraphStaysValid
BY InvariantGraph, Invariance, PTL

(* Every successor stays justified by the record it was recovered from.    *)
THEOREM RecoverySafety == Spec => []RecoveryIsJustified
<1>1. IInv => RecoveryIsJustified
  BY DEF IInv
<1> QED BY <1>1, Invariance, PTL

(* Each receipt is the one its record implies.                             *)
THEOREM ReceiptSafety == Spec => []ReceiptMatchesRecord
<1>1. IInv => ReceiptMatchesRecord
  BY DEF IInv, ReceiptsAreVerdicts, ReceiptMatchesRecord
<1> QED BY <1>1, Invariance, PTL

(* Verdicts, superseded records and receipts never change again.           *)
THEOREM VerdictSafety == Spec => VerdictsImmutable
<1> DEFINE Keep == \A l \in Lineages :
        /\ authority[l] # {} => authority'[l] # {}
        /\ (\E s \in authority[l] : s.state \in Terminal) \/ Superseded(authority, l)
              => authority'[l] = authority[l]
        /\ receipts[l] # {} => receipts'[l] = receipts[l]
<1>1. IInv /\ [Next]_vars => [Keep]_vars
  BY StepKeepsVerdicts
<1>2. VerdictsImmutable <=> [][Keep]_vars
  BY DEF VerdictsImmutable
<1> HIDE DEF Keep
<1> QED BY <1>1, <1>2, Invariance, PTL DEF Spec
===============================================================================
