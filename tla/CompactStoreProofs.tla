-------------------------- MODULE CompactStoreProofs --------------------------
(***************************************************************************)
(* Overlapping and crashing commands implement atomic ones, for any number *)
(* of processes, lineages and generations.                                 *)
(*                                                                         *)
(* The argument.  What a command means to write is fixed when it is        *)
(* computed and does not depend on the disk any more (Prepared).  Under    *)
(* the lock it is compared with the disk (Authorized), and only the holder *)
(* of the lock publishes, so nothing moves between the comparison and the  *)
(* rename.  The receipt, written without the lock from a copy, is right    *)
(* because a copy that carries a verdict is still what the disk holds      *)
(* (Loaded): no command ever moves a verdict (StepKeepsVerdicts).  The     *)
(* revision stands for the whole record (SameRevision), which is where     *)
(* the argument needs the hash to be injective.                            *)
(***************************************************************************)
EXTENDS CompactStore, CompactAuthorityProofs

---------------------------------------------------------------------------
(* The inductive invariant. *)

Holding == {"locked", "staged", "release"}

Operations ==
    {"none", "review/start", "review/finalize", "review/invalidate",
     "review/recover", "review/complete-review", "review/begin-fix",
     "review/complete-fix", "review/complete-verification"}

CommandTyped(c) ==
    c \in [pc : {"idle", "drive", "replace"} \cup Holding, op : Operations,
           done : 0 .. 4, lineage : SUBSET Lineages, pred : SUBSET Lineages,
           expected : {c.expected}, state : {c.state}, next : {c.next}]

(* The record a revision stands for is the one the command computed from.  *)
PreparedStart(c) ==
    /\ c.op = "review/start" /\ c.expected = {}
    /\ \E l \in Roots, target \in StartTargets, lenses \in SUBSET Lenses :
          LET next == NewCompactState(l, 1, target[1], target[2], target[3], lenses) IN
          c.lineage = {l} /\ c.next = {next} /\ Valid(next)

PreparedInvalidate(c) ==
    /\ c.op = "review/invalidate"
    /\ \E l \in Lineages, r \in c.expected, reason \in Reasons :
          /\ c.lineage = {l} /\ c.expected = {r} /\ r = Revision(r.sha256)
          /\ \/ c.next = {r.sha256}
             \/ /\ PristineReviewing(r.sha256)
                /\ c.next = {Invalidated(r.sha256, reason)}
                /\ Valid(Invalidated(r.sha256, reason))

PreparedRecover(c) ==
    /\ c.op = "review/recover"
    /\ \E l, m \in Lineages, r \in c.expected, target \in StartTargets,
          lenses \in SUBSET Lenses, grant \in RecoveryGrants :
          /\ c.pred = {l} /\ c.lineage = {m}
          /\ c.expected = {r} /\ r = Revision(r.sha256)
          /\ r.sha256.generation < MaxGeneration
          /\ c.next = {Successor(r.sha256, m, target[2], target[3], lenses, grant)}

PreparedFinalize(c) ==
    /\ c.op \in {"review/complete-review", "review/begin-fix",
                 "review/complete-fix", "review/complete-verification"}
    /\ \E l \in Lineages, s \in c.state, t \in c.next :
          /\ c.lineage = {l} /\ c.state = {s} /\ c.next = {t}
          /\ c.expected = {Revision(s)}
          /\ t \in Computed(s, c.op) /\ Valid(t)

Prepared(c) ==
    \/ PreparedStart(c) \/ PreparedInvalidate(c)
    \/ PreparedRecover(c) \/ PreparedFinalize(c)

(* The copy finalize works on; a verdict in it is still on disk.           *)
Loaded(c) ==
    \E l \in Lineages, s \in c.state :
        /\ c.lineage = {l} /\ c.state = {s} /\ c.expected = {Revision(s)}
        /\ s.state \in Terminal => authority[l] = {s}

(* The comparison under the lock still holds.                              *)
Authorized(c) ==
    IF c.op = "review/recover"
    THEN \E l \in c.pred, next \in c.next :
            /\ Revisions(l) = c.expected
            /\ \E pred \in authority[l], r \in next.recovery :
                  RecoverAllowed(authority, pred, next, <<r.disposition, r.authorized>>)
    ELSE \A l \in c.lineage : Revisions(l) = c.expected /\ authority[l] # c.next

(* The record is in place. *)
Installed(c) == \A l \in c.lineage : authority[l] = c.next

CommandInv(p) ==
    /\ CommandTyped(proc[p])
    /\ proc[p].pc \in Holding => lock = {p}
    /\ proc[p].pc \in {"replace"} \cup Holding => Prepared(proc[p])
    /\ proc[p].pc = "drive" => Loaded(proc[p])
    /\ proc[p].pc = "staged" => Authorized(proc[p])
    /\ proc[p].pc = "release" => Installed(proc[p])

RecordsValid == \A l \in Lineages : \A s \in authority[l] : Valid(s)

StoreIInv ==
    /\ IInv
    /\ RecordsValid
    /\ DOMAIN proc = Procs
    /\ \A p \in Procs : CommandInv(p)

---------------------------------------------------------------------------
(* The steps of a command implement an atomic one. *)

(* The hash of a record identifies it. *)
LEMMA SameRevision ==
    ASSUME NEW s, NEW t, Revision(s) = Revision(t)
    PROVE  s = t
<1>1. Revision(s).sha256 = s /\ Revision(t).sha256 = t
  BY DEF Revision
<1> QED BY <1>1

(* finalize applies four operations. *)
LEMMA FinalizeRange ==
    /\ DOMAIN FinalizeOperations = 1 .. 4
    /\ {FinalizeOperations[i] : i \in DOMAIN FinalizeOperations}
          = {"review/complete-review", "review/begin-fix",
             "review/complete-fix", "review/complete-verification"}
<1>1. DOMAIN FinalizeOperations = 1 .. 4
  BY DEF FinalizeOperations
<1>2. 1 .. 4 = {1, 2, 3, 4}
  OBVIOUS
<1>3. /\ FinalizeOperations[1] = "review/complete-review"
      /\ FinalizeOperations[2] = "review/begin-fix"
      /\ FinalizeOperations[3] = "review/complete-fix"
      /\ FinalizeOperations[4] = "review/complete-verification"
  BY DEF FinalizeOperations
<1> QED BY <1>1, <1>2, <1>3

(* A directory whose revisions are that of s holds s and nothing else.     *)
LEMMA RevisionFixesRecord ==
    ASSUME IInv, NEW l \in Lineages, NEW s, Revisions(l) = {Revision(s)}
    PROVE  authority[l] = {s}
<1>1. PICK t \in authority[l] : Revision(t) = Revision(s)
  BY DEF Revisions
<1>2. t = s
  BY <1>1, SameRevision
<1>3. \A u, v \in authority[l] : u = v
  BY DEF IInv, AuthorityTypeOK
<1> QED BY <1>1, <1>2, <1>3

(* A directory without a revision is empty. *)
LEMMA NoRevisionNoRecord ==
    ASSUME NEW l, Revisions(l) = {}
    PROVE  authority[l] = {}
BY DEF Revisions

(* A directory that is not empty holds one record.                         *)
LEMMA OneRecord ==
    ASSUME IInv, NEW l \in Lineages, NEW s \in authority[l]
    PROVE  authority[l] = {s} /\ Revisions(l) = {Revision(s)}
BY DEF IInv, AuthorityTypeOK, Revisions

(* Publishing what an operation of finalize computed from the record on    *)
(* disk is that operation. *)
LEMMA ComputedIsHandler ==
    ASSUME NEW l \in Lineages, NEW s \in authority[l], NEW t, NEW op,
           op \in {"review/complete-review", "review/begin-fix",
                   "review/complete-fix", "review/complete-verification"},
           t \in Computed(s, op), Becomes(l, t)
    PROVE  Next
<1>1. CASE op = "review/complete-review"
  <2>1. \E in \in ReviewInputs : CompleteReviewAllowed(s, in) /\ t = ReviewCompleted(s, in)
    BY <1>1 DEF Computed
  <2> QED BY <2>1 DEF CompleteReview, Next
<1>2. CASE op = "review/begin-fix"
  <2>1. \E lines \in Forecasts :
            BeginCorrectionAllowed(s, lines) /\ t = CorrectionBegun(s, lines)
    BY <1>2 DEF Computed
  <2> QED BY <2>1 DEF BeginCorrection, Next
<1>3. CASE op = "review/complete-fix"
  <2>1. PICK snapshot \in {SnapshotOf("fix-diff", s.current.tree, tree, s.fix) :
                              tree \in FixedTrees} :
            /\ CompleteCorrectionAllowed(s, snapshot)
            /\ \E o, r \in BOOLEAN : t = CorrectionCompleted(s, snapshot, o, r)
    BY <1>3 DEF Computed
  <2>2. PICK tree \in FixedTrees :
            snapshot = SnapshotOf("fix-diff", s.current.tree, tree, s.fix)
    OBVIOUS
  <2>3. PICK o \in BOOLEAN, r \in BOOLEAN : t = CorrectionCompleted(s, snapshot, o, r)
    BY <2>1
  <2>4. CompleteCorrection(l)
    BY <2>1, <2>2, <2>3 DEF CompleteCorrection
  <2> QED BY <2>4 DEF Next
<1>4. CASE op = "review/complete-verification"
  <2>1. /\ s.state = "validating"
        /\ \E payload \in EvidencePayloads, approved \in BOOLEAN :
              t = Verified(s, payload, approved)
    BY <1>4 DEF Computed
  <2> QED BY <2>1 DEF CompleteVerification, Next
<1> QED BY <1>1, <1>2, <1>3, <1>4

(* Withdrawing a review that has not produced data leaves a valid record,  *)
(* What a holder of the lock publishes is one atomic command.              *)
LEMMA PublishIsCommand ==
    ASSUME StoreIInv, NEW p \in Procs, Publish(p)
    PROVE  Next
<1> DEFINE cmd == proc[p]
<1>1. IInv /\ Prepared(cmd) /\ Authorized(cmd) /\ cmd.pc = "staged"
  BY DEF StoreIInv, CommandInv, Publish, Holding
<1>2. receipts' = receipts
  BY DEF Publish
<1>3. PICK l \in cmd.lineage : authority' = [authority EXCEPT ![l] = cmd.next]
  BY DEF Publish
<1> HIDE DEF cmd
<1>4. CASE PreparedStart(cmd)
  <2>1. PICK m \in Roots, target \in StartTargets, lenses \in SUBSET Lenses :
          LET next == NewCompactState(m, 1, target[1], target[2], target[3], lenses) IN
          cmd.lineage = {m} /\ cmd.next = {next} /\ Valid(next)
    BY <1>4 DEF PreparedStart
  <2>2. Revisions(l) = {}
    BY <1>1, <1>4 DEF PreparedStart, Authorized
  <2>3. l = m /\ authority[m] = {}
    BY <2>1, <2>2, NoRevisionNoRecord
  <2>4. Start(m)
    BY <1>2, <1>3, <2>1, <2>3 DEF Start, Becomes
  <2> QED BY <2>4 DEF Next
<1>5. CASE PreparedInvalidate(cmd)
  <2>1. PICK m \in Lineages, r \in cmd.expected, reason \in Reasons :
          /\ cmd.lineage = {m} /\ cmd.expected = {r} /\ r = Revision(r.sha256)
          /\ \/ cmd.next = {r.sha256}
             \/ /\ PristineReviewing(r.sha256)
                /\ cmd.next = {Invalidated(r.sha256, reason)}
                /\ Valid(Invalidated(r.sha256, reason))
    BY <1>5 DEF PreparedInvalidate
  <2>2. l = m
    BY <2>1
  <2>3. Revisions(m) = {Revision(r.sha256)} /\ authority[m] # cmd.next
    BY <1>1, <1>5, <2>1, <2>2 DEF PreparedInvalidate, Authorized
  <2>4. authority[m] = {r.sha256}
    BY <1>1, <2>3, RevisionFixesRecord
  <2>5. Invalidate(m)
    BY <1>2, <1>3, <2>1, <2>2, <2>3, <2>4 DEF Invalidate, Becomes
  <2> QED BY <2>5 DEF Next
<1>6. CASE PreparedRecover(cmd)
  <2>1. PICK k \in Lineages, m \in Lineages, r \in cmd.expected,
             target \in StartTargets, lenses \in SUBSET Lenses,
             grant \in RecoveryGrants :
          /\ cmd.pred = {k} /\ cmd.lineage = {m}
          /\ cmd.expected = {r} /\ r = Revision(r.sha256)
          /\ r.sha256.generation < MaxGeneration
          /\ cmd.next = {Successor(r.sha256, m, target[2], target[3], lenses, grant)}
    BY <1>6 DEF PreparedRecover
  <2> DEFINE s == r.sha256
             next == Successor(s, m, target[2], target[3], lenses, grant)
  <2>2. /\ Revisions(k) = {Revision(s)}
        /\ \E pred \in authority[k], g \in next.recovery :
              RecoverAllowed(authority, pred, next, <<g.disposition, g.authorized>>)
    BY <1>1, <1>6, <2>1 DEF PreparedRecover, Authorized
  <2>3. authority[k] = {s}
    BY <1>1, <2>2, RevisionFixesRecord
  <2>4. next.recovery = {Provenance(s, grant)}
    BY DEF Successor, NewCompactState
  <2>5. RecoverAllowed(authority, s, next,
            <<Provenance(s, grant).disposition, Provenance(s, grant).authorized>>)
    BY <2>2, <2>3, <2>4
  <2>6. <<Provenance(s, grant).disposition, Provenance(s, grant).authorized>> = grant
    BY GrantAssumption DEF Provenance
  <2>7. RecoverAllowed(authority, s, next, grant)
    BY <2>5, <2>6
  <2>8. authority' = [authority EXCEPT ![m] = {next}] /\ Valid(next)
    BY <1>3, <2>1, <2>7 DEF RecoverAllowed
  <2>9. s \in authority[k] /\ s.generation < MaxGeneration /\ Becomes(m, next)
    BY <1>2, <2>1, <2>3, <2>8 DEF Becomes
  <2> HIDE DEF s
  <2>10. Recover(k, m)
    BY <2>7, <2>9 DEF Recover
  <2> QED BY <2>10 DEF Next
<1>7. CASE PreparedFinalize(cmd)
  <2>1. PICK m \in Lineages, s \in cmd.state, t \in cmd.next :
          /\ cmd.lineage = {m} /\ cmd.state = {s} /\ cmd.next = {t}
          /\ cmd.expected = {Revision(s)}
          /\ t \in Computed(s, cmd.op) /\ Valid(t)
    BY <1>7 DEF PreparedFinalize
  <2>2. Revisions(m) = {Revision(s)}
    BY <1>1, <1>7, <2>1 DEF PreparedFinalize, Authorized
  <2>3. authority[m] = {s}
    BY <1>1, <2>2, RevisionFixesRecord
  <2>4. Becomes(m, t)
    BY <1>2, <1>3, <2>1 DEF Becomes
  <2> QED BY <1>7, <2>1, <2>3, <2>4, ComputedIsHandler DEF PreparedFinalize
<1> QED BY <1>1, <1>4, <1>5, <1>6, <1>7 DEF Prepared

(* A receipt written from a copy is the receipt of the record on disk.     *)
LEMMA ReceiptIsCommand ==
    ASSUME StoreIInv, NEW p \in Procs, WriteReceiptFile(p)
    PROVE  Next
<1>1. PICK s \in proc[p].state, l \in proc[p].lineage :
          /\ s.state \in Receipted
          /\ receipts' = [receipts EXCEPT ![l] = {Receipt(s)}]
  BY DEF WriteReceiptFile
<1>2. Loaded(proc[p])
  BY DEF WriteReceiptFile, StoreIInv, CommandInv
<1>3. s.state \in Terminal
  BY <1>1 DEF Receipted, Terminal
<1>4. l \in Lineages /\ authority[l] = {s}
  BY <1>2, <1>3 DEF Loaded
<1>5. WriteReceipt(l)
  BY <1>1, <1>4 DEF WriteReceipt, WriteReceiptFile
<1> QED BY <1>4, <1>5 DEF Next

(* No other step of a process touches the records or the receipts.         *)
LEMMA StepIsCommand ==
    StoreIInv /\ StoreNext => UNCHANGED vars \/ Next
<1> SUFFICES ASSUME StoreIInv, NEW p \in Procs, Begin(p) \/ Step(p) \/ Crash(p)
             PROVE  UNCHANGED vars \/ Next
  BY DEF StoreNext
<1>1. CASE Begin(p)
  BY <1>1 DEF Begin, BeginStart, BeginFinalize, BeginInvalidate, BeginRecover, Disk, vars
<1>2. CASE Step(p)
  BY <1>2, PublishIsCommand, ReceiptIsCommand
     DEF Step, Drive, Return, Acquire, Check, Fail, Release, Disk, vars
<1>3. CASE Crash(p)
  BY <1>3 DEF Crash, vars
<1> QED BY <1>1, <1>2, <1>3

---------------------------------------------------------------------------
(* The invariant is inductive. *)

(* Nothing runs at first. *)
LEMMA StoreInitInvariant == StoreInit => StoreIInv
<1> SUFFICES ASSUME StoreInit PROVE StoreIInv
  OBVIOUS
<1>1. IInv
  BY InitInvariant DEF StoreInit
<1>2. RecordsValid
  BY DEF StoreInit, Init, RecordsValid
<1>3. DOMAIN proc = Procs /\ \A p \in Procs : proc[p] = Idle
  BY DEF StoreInit
<1>4. CommandTyped(Idle)
  BY DEF CommandTyped, Idle, Operations
<1>5. Idle.pc = "idle"
  BY DEF Idle
<1> QED BY <1>1, <1>2, <1>3, <1>4, <1>5 DEF StoreIInv, CommandInv, Holding

(* Each command keeps the invariant of the atomic ones.                    *)
LEMMA CommandsKeep == IInv /\ (UNCHANGED vars \/ Next) => IInv'
BY StepKinds, AdvanceInvariant, CreateInvariant, RecoverInvariant,
   ReceiptInvariant, StutterInvariant

(* Each command leaves records that load again.                            *)
LEMMA RecordsStayValid ==
    ASSUME IInv, RecordsValid, UNCHANGED vars \/ Next
    PROVE  RecordsValid'
<1>1. \A l \in Lineages : \A t : Becomes(l, t) => RecordsValid'
  BY DEF Becomes, RecordsValid, IInv, AuthorityTypeOK
<1>2. UNCHANGED authority => RecordsValid'
  BY DEF RecordsValid
<1>3. CASE UNCHANGED vars
  BY <1>2, <1>3 DEF vars
<1>4. CASE \E l \in Roots : Start(l)
  BY <1>1, <1>4, RootsAssumption DEF Start
<1>5. ASSUME NEW l \in Lineages,
             \/ CompleteReview(l) \/ Invalidate(l)
             \/ BeginCorrection(l) \/ CompleteCorrection(l)
             \/ CompleteVerification(l) \/ WriteReceipt(l)
      PROVE  RecordsValid'
  BY <1>1, <1>2, <1>5 DEF CompleteReview, Invalidate, BeginCorrection,
     CompleteCorrection, CompleteVerification, WriteReceipt
<1>6. ASSUME NEW l \in Lineages, NEW m \in Lineages, Recover(l, m)
      PROVE  RecordsValid'
  BY <1>1, <1>6 DEF Recover
<1> QED BY <1>3, <1>4, <1>5, <1>6 DEF Next

(* What a command means to write does not depend on where it is.           *)
LEMMA PreparedStays ==
    ASSUME NEW c, NEW d, Prepared(c),
           d.op = c.op, d.lineage = c.lineage, d.pred = c.pred,
           d.expected = c.expected, d.state = c.state, d.next = c.next
    PROVE  Prepared(d)
<1>1. PreparedStart(c) => PreparedStart(d)
  BY DEF PreparedStart
<1>2. PreparedInvalidate(c) => PreparedInvalidate(d)
  BY DEF PreparedInvalidate
<1>3. PreparedRecover(c) => PreparedRecover(d)
  BY DEF PreparedRecover
<1>4. PreparedFinalize(c) => PreparedFinalize(d)
  BY DEF PreparedFinalize
<1> QED BY <1>1, <1>2, <1>3, <1>4 DEF Prepared

(* A copy that carries a verdict stays what is on disk.                    *)
LEMMA LoadedStays ==
    ASSUME IInv, UNCHANGED vars \/ Next, NEW c, Loaded(c)
    PROVE  Loaded(c)'
<1>1. PICK l \in Lineages, s \in c.state :
        /\ c.lineage = {l} /\ c.state = {s} /\ c.expected = {Revision(s)}
        /\ s.state \in Terminal => authority[l] = {s}
  BY DEF Loaded
<1>2. s.state \in Terminal => authority'[l] = {s}
  <2>1. CASE UNCHANGED vars
    BY <1>1, <2>1 DEF vars
  <2>2. CASE Next
    BY <1>1, <2>2, StepKeepsVerdicts
  <2> QED BY <2>1, <2>2
<1> QED BY <1>1, <1>2 DEF Loaded

(* While somebody else acts, the invariant of a command stays: records     *)
(* move only under a lock that somebody else holds.                        *)
LEMMA BystanderKeeps ==
    ASSUME StoreIInv, UNCHANGED vars \/ Next, NEW q \in Procs,
           proc'[q] = proc[q],
           proc[q].pc \in Holding => lock' = lock /\ UNCHANGED authority
    PROVE  CommandInv(q)'
<1>1. CommandInv(q) /\ IInv
  BY DEF StoreIInv
<1>2. CommandTyped(proc[q])'
  BY <1>1 DEF CommandInv, CommandTyped
<1>3. (proc[q].pc \in Holding => lock = {q})'
  BY <1>1 DEF CommandInv
<1>4. (proc[q].pc \in {"replace"} \cup Holding => Prepared(proc[q]))'
  BY <1>1 DEF CommandInv
<1>5. (proc[q].pc = "drive" => Loaded(proc[q]))'
  <2>1. ASSUME proc[q].pc = "drive" PROVE Loaded(proc[q])'
    <3> DEFINE cmd == proc[q]
    <3>1. Loaded(cmd) /\ cmd' = cmd
      BY <1>1, <2>1 DEF CommandInv
    <3> QED BY <1>1, <3>1, LoadedStays DEF Loaded
  <2> QED BY <2>1
<1>6. (proc[q].pc = "staged" => Authorized(proc[q]))'
  <2>1. ASSUME proc[q].pc = "staged" PROVE Authorized(proc[q])'
    <3>1. Authorized(proc[q]) /\ authority' = authority
      BY <1>1, <2>1 DEF CommandInv, Holding
    <3> QED BY <3>1 DEF Authorized, Revisions
  <2> QED BY <2>1
<1>7. (proc[q].pc = "release" => Installed(proc[q]))'
  BY <1>1 DEF CommandInv, Installed, Holding
<1> QED BY <1>2, <1>3, <1>4, <1>5, <1>6, <1>7 DEF CommandInv

(* A process that has returned or died is in no obligation.                *)
LEMMA IdleKeeps ==
    ASSUME NEW p, proc'[p] = Idle
    PROVE  CommandInv(p)'
<1>1. CommandTyped(Idle) /\ Idle.pc = "idle"
  BY DEF CommandTyped, Idle, Operations
<1> QED BY <1>1 DEF CommandInv, Holding

(* A command that begins has computed what it means to write, or has       *)
(* loaded what it is going to work on.                                     *)
LEMMA BeginKeeps ==
    ASSUME StoreIInv, NEW p \in Procs, Begin(p)
    PROVE  CommandInv(p)'
<1>0. IInv /\ RecordsValid /\ p \in DOMAIN proc
  BY DEF StoreIInv
<1>1. ASSUME NEW l \in Roots, BeginStart(p, l) PROVE CommandInv(p)'
  <2>1. PICK target \in StartTargets, lenses \in SUBSET Lenses :
          LET next == NewCompactState(l, 1, target[1], target[2], target[3], lenses) IN
          /\ Valid(next)
          /\ Goes(p, [Idle EXCEPT !.pc = "replace", !.op = "review/start",
                                  !.lineage = {l}, !.next = {next}])
    BY <1>1 DEF BeginStart
  <2> DEFINE next == NewCompactState(l, 1, target[1], target[2], target[3], lenses)
             cmd == proc'[p]
  <2>2. cmd = [pc |-> "replace", op |-> "review/start", done |-> 0,
               lineage |-> {l}, pred |-> {}, expected |-> {},
               state |-> {}, next |-> {next}]
    BY <1>0, <2>1 DEF Goes, Idle
  <2> HIDE DEF next
  <2>3. /\ cmd.pc = "replace" /\ cmd.op = "review/start" /\ cmd.lineage = {l}
        /\ cmd.expected = {} /\ cmd.next = {next} /\ CommandTyped(cmd)
    BY <2>2, RootsAssumption DEF CommandTyped, Operations
  <2> HIDE DEF cmd
  <2>4. Prepared(cmd)
    BY <2>1, <2>3 DEF Prepared, PreparedStart, next
  <2> QED BY <2>3, <2>4 DEF CommandInv, Holding, cmd
<1>2. ASSUME NEW l \in Lineages, BeginFinalize(p, l) PROVE CommandInv(p)'
  <2> DEFINE cmd == proc'[p]
  <2>1. cmd = [pc |-> "drive", op |-> "review/finalize", done |-> 0,
               lineage |-> {l}, pred |-> {}, expected |-> Revisions(l),
               state |-> authority[l], next |-> {}]
    BY <1>0, <1>2 DEF BeginFinalize, Goes, Idle
  <2>2. PICK s \in authority[l] : TRUE
    BY <1>2 DEF BeginFinalize
  <2>3. authority[l] = {s} /\ Revisions(l) = {Revision(s)}
    BY <1>0, OneRecord
  <2>4. /\ cmd.pc = "drive" /\ cmd.lineage = {l}
        /\ cmd.expected = {Revision(s)} /\ cmd.state = {s} /\ CommandTyped(cmd)
    BY <2>1, <2>3 DEF CommandTyped, Operations
  <2> HIDE DEF cmd
  <2>5. authority' = authority
    BY <1>2 DEF BeginFinalize, Disk
  <2>6. Loaded(proc[p])'
    BY <2>3, <2>4, <2>5 DEF Loaded, cmd
  <2> QED BY <2>4, <2>6 DEF CommandInv, Holding, cmd
<1>3. ASSUME NEW l \in Lineages, BeginInvalidate(p, l) PROVE CommandInv(p)'
  <2>1. PICK s \in authority[l], reason \in Reasons :
          \E next \in (IF s.state = "invalidated" /\ s.reason = {reason} THEN {s}
                       ELSE {t \in {Invalidated(s, reason)} : PristineReviewing(s)}) :
             Goes(p, [Idle EXCEPT !.pc = "replace", !.op = "review/invalidate",
                                  !.lineage = {l}, !.expected = Revisions(l),
                                  !.next = {next}])
    BY <1>3 DEF BeginInvalidate
  <2>2. PICK next :
          /\ \/ next = s
             \/ next = Invalidated(s, reason) /\ PristineReviewing(s)
          /\ Goes(p, [Idle EXCEPT !.pc = "replace", !.op = "review/invalidate",
                                  !.lineage = {l}, !.expected = Revisions(l),
                                  !.next = {next}])
    BY <2>1
  <2> DEFINE cmd == proc'[p]
  <2>3. cmd = [pc |-> "replace", op |-> "review/invalidate", done |-> 0,
               lineage |-> {l}, pred |-> {}, expected |-> Revisions(l),
               state |-> {}, next |-> {next}]
    BY <1>0, <2>2 DEF Goes, Idle
  <2>4. Revisions(l) = {Revision(s)}
    BY <1>0, OneRecord
  <2>5. /\ cmd.pc = "replace" /\ cmd.op = "review/invalidate" /\ cmd.lineage = {l}
        /\ cmd.expected = {Revision(s)} /\ cmd.next = {next} /\ CommandTyped(cmd)
    BY <2>3, <2>4 DEF CommandTyped, Operations
  <2> HIDE DEF cmd
  <2>6. Revision(s).sha256 = s
    BY DEF Revision
  <2>7. Shaped(s) /\ Valid(s)
    BY <1>0 DEF IInv, Identified, RecordsValid
  <2>8. PristineReviewing(s) => Valid(Invalidated(s, reason))
    BY <2>7, WithdrawnIsValid
  <2>9. Prepared(cmd)
    BY <2>2, <2>5, <2>6, <2>8 DEF Prepared, PreparedInvalidate
  <2> QED BY <2>5, <2>9 DEF CommandInv, Holding, cmd
<1>4. ASSUME NEW l \in Lineages, NEW m \in Lineages, BeginRecover(p, l, m)
      PROVE  CommandInv(p)'
  <2>1. PICK pred \in authority[l], target \in StartTargets,
             lenses \in SUBSET Lenses, grant \in RecoveryGrants :
          LET next == Successor(pred, m, target[2], target[3], lenses, grant) IN
          /\ pred.generation < MaxGeneration
          /\ Goes(p, [Idle EXCEPT !.pc = "replace", !.op = "review/recover",
                                  !.lineage = {m}, !.pred = {l},
                                  !.expected = Revisions(l), !.next = {next}])
    BY <1>4 DEF BeginRecover
  <2> DEFINE next == Successor(pred, m, target[2], target[3], lenses, grant)
             cmd == proc'[p]
  <2>2. cmd = [pc |-> "replace", op |-> "review/recover", done |-> 0,
               lineage |-> {m}, pred |-> {l}, expected |-> Revisions(l),
               state |-> {}, next |-> {next}]
    BY <1>0, <2>1 DEF Goes, Idle
  <2> HIDE DEF next
  <2>3. Revisions(l) = {Revision(pred)} /\ Revision(pred).sha256 = pred
    BY <1>0, OneRecord DEF Revision
  <2>4. /\ cmd.pc = "replace" /\ cmd.op = "review/recover"
        /\ cmd.pred = {l} /\ cmd.lineage = {m}
        /\ cmd.expected = {Revision(pred)} /\ cmd.next = {next} /\ CommandTyped(cmd)
    BY <2>2, <2>3 DEF CommandTyped, Operations
  <2> HIDE DEF cmd
  <2>5. PreparedRecover(cmd)
    BY <2>1, <2>3, <2>4 DEF PreparedRecover, next
  <2> QED BY <2>4, <2>5 DEF CommandInv, Holding, cmd, Prepared
<1> QED BY <1>1, <1>2, <1>3, <1>4 DEF Begin

(* A command writes one record, into one directory.                        *)
LEMMA PreparedForOne ==
    ASSUME NEW c, Prepared(c)
    PROVE  \E l \in Lineages : c.lineage = {l}
<1>1. PreparedStart(c) => \E l \in Lineages : c.lineage = {l}
  BY RootsAssumption DEF PreparedStart
<1>2. PreparedInvalidate(c) => \E l \in Lineages : c.lineage = {l}
  BY DEF PreparedInvalidate
<1>3. PreparedRecover(c) => \E l \in Lineages : c.lineage = {l}
  BY DEF PreparedRecover
<1>4. PreparedFinalize(c) => \E l \in Lineages : c.lineage = {l}
  BY DEF PreparedFinalize
<1> QED BY <1>1, <1>2, <1>3, <1>4 DEF Prepared

(* finalize computes an operation: what it installs comes from its copy.   *)
LEMMA DriveKeeps ==
    ASSUME StoreIInv, NEW p \in Procs, Drive(p)
    PROVE  CommandInv(p)'
<1> DEFINE cmd == proc[p]
           new == proc'[p]
<1>1. CommandTyped(cmd) /\ Loaded(cmd) /\ p \in DOMAIN proc
  BY DEF StoreIInv, CommandInv, Drive
<1>2. PICK s \in cmd.state, i \in DOMAIN FinalizeOperations :
          \E next \in Computed(s, FinalizeOperations[i]) :
             /\ Valid(next)
             /\ Goes(p, [cmd EXCEPT !.pc = "replace", !.done = i,
                                    !.op = FinalizeOperations[i], !.next = {next}])
  BY DEF Drive
<1>3. PICK next \in Computed(s, FinalizeOperations[i]) :
             /\ Valid(next)
             /\ Goes(p, [cmd EXCEPT !.pc = "replace", !.done = i,
                                    !.op = FinalizeOperations[i], !.next = {next}])
  BY <1>2
<1> DEFINE op == FinalizeOperations[i]
<1>4. i \in 0 .. 4
      /\ op \in {"review/complete-review", "review/begin-fix",
                 "review/complete-fix", "review/complete-verification"}
  BY FinalizeRange
<1>5. new = [cmd EXCEPT !.pc = "replace", !.done = i, !.op = op, !.next = {next}]
  BY <1>1, <1>3 DEF Goes
<1> HIDE DEF cmd, op
<1>6. /\ new.pc = "replace" /\ new.done = i /\ new.op = op /\ new.next = {next}
      /\ new.lineage = cmd.lineage /\ new.pred = cmd.pred
      /\ new.expected = cmd.expected /\ new.state = cmd.state
      /\ CommandTyped(new)
  BY <1>1, <1>4, <1>5 DEF CommandTyped, Operations
<1> HIDE DEF new
<1>7. PreparedFinalize(new)
  BY <1>1, <1>2, <1>3, <1>4, <1>6 DEF PreparedFinalize, Loaded, op
<1> QED BY <1>6, <1>7 DEF CommandInv, Holding, Prepared, new

(* Taking the lock changes nothing but who holds it.                       *)
LEMMA AcquireKeeps ==
    ASSUME StoreIInv, NEW p \in Procs, Acquire(p)
    PROVE  CommandInv(p)'
<1> DEFINE cmd == proc[p]
           new == proc'[p]
<1>1. CommandTyped(cmd) /\ Prepared(cmd) /\ p \in DOMAIN proc
  BY DEF StoreIInv, CommandInv, Acquire
<1>2. CASE lock # {}
  BY <1>1, <1>2, IdleKeeps DEF Acquire, Goes
<1>3. CASE lock = {}
  <2>1. lock' = {p} /\ new = [cmd EXCEPT !.pc = "locked"]
    BY <1>1, <1>3 DEF Acquire, Goes
  <2> HIDE DEF cmd
  <2>2. /\ new.pc = "locked" /\ new.op = cmd.op /\ new.next = cmd.next
        /\ new.lineage = cmd.lineage /\ new.pred = cmd.pred
        /\ new.expected = cmd.expected /\ new.state = cmd.state
        /\ CommandTyped(new)
    BY <1>1, <2>1 DEF CommandTyped, Holding
  <2> HIDE DEF new
  <2>3. Prepared(new)
    BY <1>1, <2>2, PreparedStays
  <2> QED BY <2>1, <2>2, <2>3 DEF CommandInv, new
<1> QED BY <1>2, <1>3

(* What the comparison under the lock establishes.                         *)
LEMMA CheckKeeps ==
    ASSUME StoreIInv, NEW p \in Procs, Check(p)
    PROVE  CommandInv(p)'
<1> DEFINE cmd == proc[p]
           new == proc'[p]
<1>1. CommandTyped(cmd) /\ Prepared(cmd) /\ p \in DOMAIN proc /\ lock = {p}
  BY DEF StoreIInv, CommandInv, Check, Holding
<1>2. UNCHANGED <<authority, lock>>
  BY DEF Check, Disk
<1>3. PICK l \in Lineages : cmd.lineage = {l}
  BY <1>1, PreparedForOne
<1>4. ASSUME NEW pc \in {"release", "staged"}, new = [cmd EXCEPT !.pc = pc]
      PROVE  /\ new.pc = pc /\ new.op = cmd.op /\ new.next = cmd.next
             /\ new.lineage = cmd.lineage /\ new.pred = cmd.pred
             /\ new.expected = cmd.expected /\ new.state = cmd.state
             /\ CommandTyped(new) /\ Prepared(new)
  <2> HIDE DEF cmd
  <2>1. /\ new.pc = pc /\ new.op = cmd.op /\ new.next = cmd.next
        /\ new.lineage = cmd.lineage /\ new.pred = cmd.pred
        /\ new.expected = cmd.expected /\ new.state = cmd.state
        /\ CommandTyped(new)
    BY <1>1, <1>4 DEF CommandTyped, Holding
  <2> HIDE DEF new
  <2> QED BY <1>1, <2>1, PreparedStays
<1>5. CASE RetryRecognized(p) /\ new = [cmd EXCEPT !.pc = "release"]
  <2>1. authority[l] = cmd.next
    BY <1>3, <1>5 DEF RetryRecognized, ExactRetry
  <2>2. Installed(proc[p])'
    BY <1>2, <1>3, <1>4, <1>5, <2>1 DEF Installed
  <2> QED BY <1>1, <1>2, <1>4, <1>5, <2>2 DEF CommandInv, Holding
<1>6. CASE /\ ~ RetryRecognized(p) /\ Checked(p)
           /\ new = [cmd EXCEPT !.pc = "staged"]
  <2>1. ASSUME cmd.op = "review/recover" PROVE Authorized(cmd)
    <3>1. RecoverChecked(p)
      BY <1>6, <2>1 DEF Checked
    <3> QED BY <2>1, <3>1 DEF Authorized, RecoverChecked
  <2>2. ASSUME cmd.op # "review/recover" PROVE Authorized(cmd)
    <3>1. Revisions(l) = cmd.expected
      BY <1>3, <1>6, <2>2 DEF Checked, ReplaceChecked
    <3>2. authority[l] # cmd.next
      BY <1>3, <1>6, <2>2 DEF RetryRecognized, ExactRetry
    <3> QED BY <1>3, <2>2, <3>1, <3>2 DEF Authorized
  <2>3. Authorized(cmd)
    BY <2>1, <2>2
  <2>4. Authorized(proc[p])'
    BY <1>2, <1>4, <1>6, <2>3 DEF Authorized, Revisions
  <2> QED BY <1>1, <1>2, <1>4, <1>6, <2>4 DEF CommandInv, Holding
<1> QED BY <1>1, <1>5, <1>6 DEF Check, Goes

(* The rename puts the record in place. *)
LEMMA PublishKeeps ==
    ASSUME StoreIInv, NEW p \in Procs, Publish(p)
    PROVE  CommandInv(p)'
<1> DEFINE cmd == proc[p]
           new == proc'[p]
<1>1. /\ CommandTyped(cmd) /\ Prepared(cmd) /\ p \in DOMAIN proc /\ lock = {p}
      /\ DOMAIN authority = Lineages
  BY DEF StoreIInv, CommandInv, Publish, Holding, IInv, AuthorityTypeOK
<1>2. PICK l \in Lineages : cmd.lineage = {l}
  BY <1>1, PreparedForOne
<1>3. authority'[l] = cmd.next /\ lock' = lock
  BY <1>1, <1>2 DEF Publish
<1>4. new = [cmd EXCEPT !.pc = "release"]
  BY <1>1 DEF Publish, Goes
<1> HIDE DEF cmd
<1>5. /\ new.pc = "release" /\ new.op = cmd.op /\ new.next = cmd.next
      /\ new.lineage = cmd.lineage /\ new.pred = cmd.pred
      /\ new.expected = cmd.expected /\ new.state = cmd.state
      /\ CommandTyped(new)
  BY <1>1, <1>4 DEF CommandTyped, Holding
<1>6. Installed(proc[p])'
  BY <1>2, <1>3, <1>5 DEF Installed
<1> HIDE DEF new
<1>7. Prepared(new)
  BY <1>1, <1>5, PreparedStays
<1> QED BY <1>1, <1>3, <1>5, <1>6, <1>7 DEF CommandInv, Holding, new

(* finalize goes on from the record it has put in place.                   *)
LEMMA ReleaseKeeps ==
    ASSUME StoreIInv, NEW p \in Procs, Release(p)
    PROVE  CommandInv(p)'
<1> DEFINE cmd == proc[p]
           new == proc'[p]
           drives == cmd.op \in {"review/complete-review", "review/begin-fix",
                                 "review/complete-fix", "review/complete-verification"}
<1>1. CommandTyped(cmd) /\ Prepared(cmd) /\ Installed(cmd) /\ p \in DOMAIN proc
  BY DEF StoreIInv, CommandInv, Release, Holding
<1>2. CASE ~ drives
  BY <1>1, <1>2, FinalizeRange, IdleKeeps DEF Release, Goes
<1>3. CASE drives
  <2>1. new = [cmd EXCEPT !.pc = "drive", !.state = cmd.next, !.next = {},
                          !.expected = {Revision(s) : s \in cmd.next}]
    BY <1>1, <1>3, FinalizeRange DEF Release, Goes
  <2>2. PICK l \in Lineages, t \in cmd.next : cmd.lineage = {l} /\ cmd.next = {t}
    <3>1. PreparedFinalize(cmd)
      BY <1>1, <1>3 DEF Prepared, PreparedStart, PreparedInvalidate, PreparedRecover
    <3> QED BY <3>1 DEF PreparedFinalize
  <2>3. authority[l] = {t} /\ authority' = authority
    BY <1>1, <2>2 DEF Installed, Release
  <2> HIDE DEF cmd, drives
  <2>4. /\ new.pc = "drive" /\ new.lineage = {l} /\ new.state = {t}
        /\ new.expected = {Revision(t)} /\ CommandTyped(new)
    <3>1. new = [pc |-> "drive", op |-> cmd.op, done |-> cmd.done,
                 lineage |-> cmd.lineage, pred |-> cmd.pred,
                 expected |-> {Revision(s) : s \in cmd.next},
                 state |-> cmd.next, next |-> {}]
      BY <1>1, <2>1 DEF CommandTyped
    <3>2. {Revision(s) : s \in cmd.next} = {Revision(t)}
      BY <2>2
    <3> HIDE DEF new
    <3> QED BY <1>1, <2>2, <3>1, <3>2 DEF CommandTyped
  <2>5. Loaded(proc[p])'
    BY <2>3, <2>4 DEF Loaded
  <2> QED BY <2>4, <2>5 DEF CommandInv, Holding
<1> QED BY <1>2, <1>3

(* Each step of a process leaves it where its invariant holds.             *)
LEMMA ActorKeeps ==
    ASSUME StoreIInv, NEW p \in Procs, Begin(p) \/ Step(p) \/ Crash(p)
    PROVE  CommandInv(p)'
<1>1. p \in DOMAIN proc
  BY DEF StoreIInv
<1>2. CASE Begin(p)
  BY <1>2, BeginKeeps
<1>3. CASE WriteReceiptFile(p) \/ Return(p) \/ Fail(p) \/ Crash(p)
  BY <1>1, <1>3, IdleKeeps DEF WriteReceiptFile, Return, Fail, Crash, Goes
<1> QED BY <1>2, <1>3, DriveKeeps, AcquireKeeps, CheckKeeps, PublishKeeps,
           ReleaseKeeps DEF Step

(* A process that acts leaves the others alone, and moves the lock or the  *)
(* records only when nobody else holds the lock.                           *)
LEMMA OthersUndisturbed ==
    ASSUME StoreIInv, NEW p \in Procs, Begin(p) \/ Step(p) \/ Crash(p),
           NEW q \in Procs \ {p}
    PROVE  /\ proc'[q] = proc[q]
           /\ proc[q].pc \in Holding => lock' = lock /\ UNCHANGED authority
<1>1. p \in DOMAIN proc /\ q \in DOMAIN proc
  BY DEF StoreIInv
<1>2. /\ proc[q].pc \in Holding => lock = {q}
      /\ proc[p].pc \in Holding => lock = {p}
  BY DEF StoreIInv, CommandInv
<1>3. CASE Begin(p)
  BY <1>1, <1>3 DEF Begin, BeginStart, BeginFinalize, BeginInvalidate, BeginRecover,
                    Disk, Goes
<1>4. CASE Drive(p) \/ WriteReceiptFile(p) \/ Return(p) \/ Acquire(p) \/ Check(p)
  BY <1>1, <1>2, <1>4 DEF Drive, WriteReceiptFile, Return, Acquire, Check, Disk, Goes
<1>5. CASE Fail(p) \/ Publish(p) \/ Release(p)
  BY <1>1, <1>2, <1>5 DEF Fail, Publish, Release, Goes, Holding
<1>6. CASE Crash(p)
  BY <1>1, <1>2, <1>6 DEF Crash, Goes
<1> QED BY <1>3, <1>4, <1>5, <1>6 DEF Step

(* The invariant is inductive. *)
LEMMA StoreStepInvariant == StoreIInv /\ StoreNext => StoreIInv'
<1> SUFFICES ASSUME StoreIInv, NEW p \in Procs, Begin(p) \/ Step(p) \/ Crash(p)
             PROVE  StoreIInv'
  BY DEF StoreNext
<1>1. UNCHANGED vars \/ Next
  BY StepIsCommand DEF StoreNext
<1>2. IInv' /\ RecordsValid'
  BY <1>1, CommandsKeep, RecordsStayValid DEF StoreIInv
<1>3. DOMAIN proc' = Procs
  BY DEF StoreIInv, Begin, BeginStart, BeginFinalize, BeginInvalidate, BeginRecover,
         Step, Drive, WriteReceiptFile, Return, Acquire, Check, Fail, Publish, Release,
         Crash, Goes
<1>4. ASSUME NEW q \in Procs PROVE CommandInv(q)'
  <2>1. CASE q = p
    BY <2>1, ActorKeeps
  <2>2. CASE q # p
    BY <1>1, <2>2, OthersUndisturbed, BystanderKeeps
  <2> QED BY <2>1, <2>2
<1> QED BY <1>2, <1>3, <1>4 DEF StoreIInv

(* A step of the rest of the world leaves it alone. *)
LEMMA StoreStutter == StoreIInv /\ UNCHANGED storeVars => StoreIInv'
<1> SUFFICES ASSUME StoreIInv, UNCHANGED storeVars PROVE StoreIInv'
  OBVIOUS
<1>1. UNCHANGED <<authority, receipts, lock, residue, proc>> /\ UNCHANGED vars
  BY DEF storeVars, vars
<1>2. IInv' /\ RecordsValid'
  BY <1>1, CommandsKeep, RecordsStayValid DEF StoreIInv
<1>3. ASSUME NEW q \in Procs PROVE CommandInv(q)'
  BY <1>1, BystanderKeeps DEF StoreIInv
<1> QED BY <1>1, <1>2, <1>3 DEF StoreIInv

(* The records, the lock and what every command holds stay as they should. *)
THEOREM StoreInvariance == StoreSpec => []StoreIInv
BY StoreInitInvariant, StoreStepInvariant, StoreStutter, PTL DEF StoreSpec

(* Overlapping commands that may die at any point do to the records what   *)
(* commands that run one at a time do.                                     *)
THEOREM StoreRefinement == StoreSpec => ImplementsAuthority
<1>1. StoreInit => Init
  BY DEF StoreInit
<1>2. StoreIInv /\ [StoreNext]_storeVars => [UNCHANGED vars \/ Next]_vars
  BY StepIsCommand DEF storeVars, vars
<1> QED BY <1>1, <1>2, StoreInvariance, PTL DEF StoreSpec, ImplementsAuthority

(* What is proved of atomic commands holds of overlapping ones.            *)
LEMMA StoreIsAuthority == StoreSpec => Spec
<1>1. [UNCHANGED vars \/ Next]_vars => [Next]_vars
  OBVIOUS
<1> QED BY <1>1, StoreRefinement, PTL DEF ImplementsAuthority, Spec

(* Processes that overlap and die never fork, dangle or close the graph of *)
(* recoveries.                                                             *)
THEOREM StoreGraphSafety == StoreSpec => []GraphStaysValid
BY StoreIsAuthority, GraphSafety, PTL

(* Every successor on disk stays justified by the record it was recovered  *)
(* from, although both were compared before the lock was taken.            *)
THEOREM StoreRecoverySafety == StoreSpec => []RecoveryIsJustified
BY StoreIsAuthority, RecoverySafety, PTL

(* The receipt, written outside the lock from a copy, is the one of the    *)
(* record on disk.                                                         *)
THEOREM StoreReceiptSafety == StoreSpec => []ReceiptMatchesRecord
BY StoreIsAuthority, ReceiptSafety, PTL

(* Verdicts, superseded records and receipts survive every interleaving.   *)
THEOREM StoreVerdictSafety == StoreSpec => VerdictsImmutable
BY StoreIsAuthority, VerdictSafety, PTL

(* Whatever a crash leaves behind, every record on disk loads again.       *)
THEOREM StoreRecordsValid == StoreSpec => []RecordsValid
<1>1. StoreIInv => RecordsValid
  BY DEF StoreIInv
<1> QED BY <1>1, StoreInvariance, PTL
=============================================================================
