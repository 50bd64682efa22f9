--------------------------- MODULE CompactGateProofs ---------------------------
(***************************************************************************)
(* What `review validate` allows, for any number of validators, branches,  *)
(* trees and reviews.                                                      *)
(*                                                                         *)
(* The argument.  Whoever looks at everything a second time holds the lock *)
(* (LockHeld), and no record changes while it is held.  Under it the       *)
(* record is the one whose receipt was checked and the target the one that *)
(* was decided upon (Checks), so that what was found one after the other   *)
(* without the lock holds at the one instant of the second look.           *)
(***************************************************************************)
EXTENDS CompactGate, CompactAuthorityProofs

---------------------------------------------------------------------------
(* The inductive invariant. *)

Formed(g) ==
    g \in [pc : {g.pc}, gate : {g.gate}, receipt : {g.receipt},
           attested : {g.attested}, record : {g.record}, target : {g.target}]

(* The local state of a validator, field by field.                         *)
Is(g, pc, name, receipt, attested, record, target) ==
    /\ Formed(g) /\ g.pc = pc /\ g.gate = name /\ g.receipt = receipt
    /\ g.attested = attested /\ g.record = record /\ g.target = target

(* The lock is held by the validator in its critical section.              *)
LockHeld == \A v \in Validators : gate[v].pc \in {"locked", "allowed"} => lock = {v}

Busy == {"begun", "loaded", "checked", "bound", "locked", "allowed"}

(* v looks at one receipt of one lineage, for one of the gates.            *)
Asks(v) ==
    /\ gate[v].gate \in Gates
    /\ \E receipt : gate[v].receipt = {receipt} /\ receipt.lineage \in Lineages

(* The record v has loaded is approved, and its receipt the one validated. *)
Approves(v) ==
    \A receipt \in gate[v].receipt : \E s \in gate[v].record :
        s.state = "approved" /\ Receipt(s) = receipt

(* The target v has bound is one its gate allows.                          *)
Decided(v) ==
    \E target : /\ gate[v].target = {target}
                /\ \A receipt \in gate[v].receipt :
                      Decision(gate[v].gate, receipt, target, gate[v].attested) = "allow"

(* What the second look has found. *)
Found(v) ==
    /\ GraphValid(authority)
    /\ \A receipt \in gate[v].receipt :
          /\ receipt.lineage \in Leaves(authority)
          /\ authority[receipt.lineage] = gate[v].record

(* What v knows, phase by phase. *)
Checks(v) ==
    /\ Formed(gate[v])
    /\ gate[v].pc \in Busy \cup {"idle"}
    /\ gate[v].pc # "idle" => Asks(v)
    /\ gate[v].pc \notin {"idle", "begun"} => \A s, t \in gate[v].record : s = t
    /\ gate[v].pc \in {"checked", "bound", "locked", "allowed"} => Approves(v)
    /\ gate[v].pc \in {"bound", "locked", "allowed"} => Decided(v)
    /\ gate[v].pc = "allowed" => Found(v)

(* The publication range has a first commit, the merge base.               *)
RangeOK == commits \in Seq(Trees) /\ commits # <<>> /\ worktree \in Trees

GateIInv ==
    /\ IInv
    /\ RangeOK
    /\ DOMAIN gate = Validators
    /\ LockHeld
    /\ \A v \in Validators : Checks(v)

---------------------------------------------------------------------------
(* The local state of a validator. *)

(* It forgets everything but its question. *)
LEMMA Begun ==
    ASSUME NEW name, NEW receipt, NEW attested
    PROVE  Is([Idle EXCEPT !.pc = "begun", !.gate = name, !.receipt = receipt,
                           !.attested = attested],
              "begun", name, receipt, attested, {}, {})
<1> DEFINE asked == [Idle EXCEPT !.pc = "begun", !.gate = name]
<1>1. Is(asked, "begun", name, {}, {}, {}, {})
  BY DEF Idle, Is, Formed
<1> HIDE DEF asked
<1>2. Is([asked EXCEPT !.receipt = receipt, !.attested = attested],
         "begun", name, receipt, attested, {}, {})
  BY <1>1 DEF Is, Formed
<1> QED BY <1>2 DEF asked

(* It loads the record. *)
LEMMA Loaded ==
    ASSUME NEW g, Formed(g), NEW record
    PROVE  Is([g EXCEPT !.pc = "loaded", !.record = record],
              "loaded", g.gate, g.receipt, g.attested, record, g.target)
BY DEF Is, Formed

(* It binds a target. *)
LEMMA TargetBound ==
    ASSUME NEW g, Formed(g), NEW target
    PROVE  Is([g EXCEPT !.pc = "bound", !.target = target],
              "bound", g.gate, g.receipt, g.attested, g.record, target)
BY DEF Is, Formed

(* It goes on with what it has. *)
LEMMA GoesOn ==
    ASSUME NEW g, Formed(g), NEW pc
    PROVE  Is([g EXCEPT !.pc = pc], pc, g.gate, g.receipt, g.attested, g.record, g.target)
BY DEF Is, Formed

---------------------------------------------------------------------------
(* The steps. *)

(* A verdict on what v has bound holds for the next state as it does now.  *)
LEMMA DecidedStays ==
    ASSUME commits'[1] = commits[1], NEW v, Decided(v),
           gate'[v].gate = gate[v].gate, gate'[v].receipt = gate[v].receipt,
           gate'[v].attested = gate[v].attested, gate'[v].target = gate[v].target
    PROVE  Decided(v)'
BY DEF Decided, Decision, CompatibleAdvance

(* The merge base is never given up. *)
LEMMA RangeStays ==
    ASSUME RangeOK, Edit \/ Commit \/ Uncommit \/ UNCHANGED <<commits, worktree>>
    PROVE  RangeOK' /\ commits'[1] = commits[1]
<1>1. Len(commits) \in Nat /\ Len(commits) >= 1
  BY LenProperties, EmptySeq DEF RangeOK
<1>2. CASE Edit
  BY <1>2, EditsAssumption DEF RangeOK, Edit
<1>3. CASE Commit
  <2>1. commits' = Append(commits, worktree) /\ worktree' = worktree
    BY <1>3 DEF Commit
  <2> QED BY <1>1, <2>1, AppendProperties, EmptySeq DEF RangeOK
<1>4. CASE Uncommit
  <2>1. /\ commits' = SubSeq(commits, 1, Len(commits) - 1) /\ worktree' = worktree
        /\ Len(commits) > 1
    BY <1>4 DEF Uncommit
  <2>2. /\ commits' \in Seq(Trees) /\ Len(commits') = Len(commits) - 1
        /\ commits'[1] = commits[1]
    BY <1>1, <2>1 DEF RangeOK
  <2>3. Len(commits') # 0 /\ worktree' = worktree
    BY <1>1, <2>1, <2>2
  <2>4. commits' # <<>>
    BY <2>3
  <2> QED BY <2>2, <2>3, <2>4 DEF RangeOK
<1>5. CASE UNCHANGED <<commits, worktree>>
  BY <1>5 DEF RangeOK
<1> QED BY <1>2, <1>3, <1>4, <1>5

(* What a validator knows stays true while it waits, because the records   *)
(* do not change once it has found them.                                   *)
LEMMA ChecksStay ==
    ASSUME NEW v, Checks(v), gate'[v] = gate[v],
           gate[v].pc = "allowed" => authority' = authority,
           commits'[1] = commits[1]
    PROVE  Checks(v)'
<1>1. Formed(gate[v])'
  BY DEF Checks, Formed
<1>2. /\ Asks(v)' <=> Asks(v)
      /\ Approves(v)' <=> Approves(v)
      /\ Decided(v) => Decided(v)'
  BY DecidedStays DEF Asks, Approves
<1>3. gate[v].pc = "allowed" => Found(v)'
  BY DEF Checks, Found, Leaves, Superseded, Children, GraphValid, Linked, Unforked, Acyclic
<1> QED BY <1>1, <1>2, <1>3 DEF Checks

(* The repository moves, and the commands run, around the validators.      *)
LEMMA AroundKeeps ==
    ASSUME GateIInv, UNCHANGED <<lock, gate>>, IInv', RangeOK', commits'[1] = commits[1],
           authority' # authority => lock = {}
    PROVE  GateIInv'
<1>1. LockHeld'
  BY DEF GateIInv, LockHeld
<1>2. ASSUME NEW v \in Validators PROVE Checks(v)'
  <2>1. gate[v].pc = "allowed" => authority' = authority
    BY DEF GateIInv, LockHeld
  <2> QED BY <2>1, ChecksStay DEF GateIInv
<1> QED BY <1>1, <1>2 DEF GateIInv

(* One validator moves, and nothing else.                                  *)
LEMMA MoveKeeps ==
    ASSUME GateIInv, NEW v \in Validators, NEW local, Goes(v, local),
           UNCHANGED <<authority, receipts, repository>>,
           Checks(v)',
           \/ lock' = lock /\ (local.pc \in {"locked", "allowed"} => lock = {v})
           \/ lock = {} /\ lock' = {v}
           \/ lock = {v} /\ lock' = {} /\ local.pc = "idle"
    PROVE  GateIInv'
<1>1. /\ gate'[v] = local /\ DOMAIN gate' = Validators
      /\ \A u \in Validators \ {v} : gate'[u] = gate[u]
  BY DEF Goes, GateIInv
<1>2. IInv' /\ RangeOK' /\ commits'[1] = commits[1]
  BY StutterInvariant DEF GateIInv, vars, RangeOK, repository
<1>3. LockHeld'
  <2> SUFFICES ASSUME NEW u \in Validators, gate'[u].pc \in {"locked", "allowed"}
               PROVE  lock' = {u}
    BY DEF LockHeld
  <2>1. CASE u = v
    BY <1>1, <2>1
  <2>2. CASE u # v
    BY <1>1, <2>2 DEF GateIInv, LockHeld
  <2> QED BY <2>1, <2>2
<1>4. ASSUME NEW u \in Validators PROVE Checks(u)'
  <2>1. CASE u = v
    BY <2>1
  <2>2. CASE u # v
    BY <1>1, <1>2, <2>2, ChecksStay DEF GateIInv
  <2> QED BY <2>1, <2>2
<1> QED BY <1>1, <1>2, <1>3, <1>4 DEF GateIInv

(* A denial forgets everything. *)
LEMMA IdleKeeps ==
    ASSUME GateIInv, NEW v \in Validators, Goes(v, Idle),
           UNCHANGED <<authority, receipts, repository>>,
           lock' = lock \/ (lock = {v} /\ lock' = {})
    PROVE  GateIInv'
<1>1. gate'[v] = Idle /\ Idle.pc = "idle"
  BY DEF Goes, GateIInv, Idle
<1>2. Checks(v)'
  BY <1>1 DEF Checks, Formed, Idle
<1> QED BY <1>1, <1>2, MoveKeeps

(* A validator's own steps. *)
LEMMA ValidateKeeps ==
    ASSUME GateIInv, NEW v \in Validators, Validate(v)
    PROVE  GateIInv'
<1> DEFINE g == gate[v]
<1>0. /\ Checks(v) /\ Formed(gate[v]) /\ IInv /\ AuthorityTypeOK /\ DOMAIN gate = Validators
      /\ g.pc \in {"locked", "allowed"} => lock = {v}
      /\ UNCHANGED <<authority, receipts, repository>>
  BY DEF GateIInv, Checks, IInv, LockHeld, Validate, Begin, LoadRecord, CheckAuthority,
         BindTarget, Acquire, Authorize, Allow
<1>b. commits'[1] = commits[1]
  BY <1>0 DEF repository
<1>a. ASSUME NEW local, Goes(v, local) PROVE gate'[v] = local
  BY <1>0, <1>a DEF Goes
<1>1. CASE Begin(v)
  <2>1. PICK l \in Lineages, k \in Gates : \E receipt \in receipts[l] : \E attested :
             Goes(v, [Idle EXCEPT !.pc = "begun", !.gate = k,
                                  !.receipt = {receipt}, !.attested = attested])
    BY <1>1 DEF Begin
  <2>a. PICK receipt \in receipts[l] : \E attested :
             Goes(v, [Idle EXCEPT !.pc = "begun", !.gate = k,
                                  !.receipt = {receipt}, !.attested = attested])
    BY <2>1
  <2>2. PICK attested :
             Goes(v, [Idle EXCEPT !.pc = "begun", !.gate = k,
                                  !.receipt = {receipt}, !.attested = attested])
    BY <2>a
  <2> DEFINE local == [Idle EXCEPT !.pc = "begun", !.gate = k,
                                   !.receipt = {receipt}, !.attested = attested]
  <2>3. Is(local, "begun", k, {receipt}, attested, {}, {}) /\ gate'[v] = local
    BY <1>a, <2>2, Begun
  <2>4. receipt.lineage = l
    BY <1>0, <2>2 DEF IInv, ReceiptsAreVerdicts, Receipt, AuthorityTypeOK
  <2>5. Goes(v, local) /\ lock' = lock
    BY <1>1, <2>2 DEF Begin
  <2> HIDE DEF local
  <2>6. Checks(v)'
    BY <2>3, <2>4 DEF Checks, Is, Asks, Busy
  <2> QED BY <1>0, <2>3, <2>5, <2>6, MoveKeeps DEF Is
<1>2. CASE LoadRecord(v)
  <2>1. PICK receipt \in g.receipt :
             Goes(v, [g EXCEPT !.pc = "loaded", !.record = authority[receipt.lineage]])
    BY <1>2 DEF LoadRecord
  <2> DEFINE local == [g EXCEPT !.pc = "loaded", !.record = authority[receipt.lineage]]
  <2>2. /\ Is(local, "loaded", g.gate, g.receipt, g.attested,
              authority[receipt.lineage], g.target)
        /\ gate'[v] = local
    BY <1>0, <1>a, <2>1, Loaded
  <2>3. Goes(v, local) /\ lock' = lock
    BY <1>2, <2>1 DEF LoadRecord
  <2> HIDE DEF local
  <2>4. Asks(v) /\ receipt.lineage \in Lineages
    BY <1>0, <1>2, <2>1 DEF LoadRecord, Checks, Asks
  <2>5. \A s, t \in authority[receipt.lineage] : s = t
    BY <1>0, <2>4 DEF AuthorityTypeOK
  <2>6. Checks(v)'
    BY <2>2, <2>4, <2>5 DEF Checks, Is, Asks, Busy
  <2> QED BY <1>0, <2>2, <2>3, <2>6, MoveKeeps DEF Is
<1>3. CASE CheckAuthority(v)
  <2>1. PICK receipt \in g.receipt :
             \/ /\ AuthorityBinds(g.record, receipt) /\ receipt.terminal # "escalated"
                /\ Goes(v, [g EXCEPT !.pc = "checked"]) /\ lock' = lock
             \/ Goes(v, Idle) /\ lock' = lock
    BY <1>3 DEF CheckAuthority, Deny
  <2>2. CASE Goes(v, Idle) /\ lock' = lock
    BY <1>0, <2>2, IdleKeeps
  <2>3. CASE /\ AuthorityBinds(g.record, receipt) /\ receipt.terminal # "escalated"
             /\ Goes(v, [g EXCEPT !.pc = "checked"]) /\ lock' = lock
    <3> DEFINE local == [g EXCEPT !.pc = "checked"]
    <3>1. /\ Is(local, "checked", g.gate, g.receipt, g.attested, g.record, g.target)
          /\ gate'[v] = local /\ Goes(v, local)
      BY <1>0, <1>a, <2>3, GoesOn
    <3> HIDE DEF local
    <3>2. Asks(v) /\ \A s, t \in g.record : s = t
      BY <1>0, <1>3 DEF CheckAuthority, Checks
    <3>3. \E s \in g.record : s.state = "approved" /\ Receipt(s) = receipt
      BY <2>3 DEF AuthorityBinds, Receipted, Receipt
    <3>4. \A r \in g.receipt : r = receipt
      BY <2>1, <3>2 DEF Asks
    <3>5. Checks(v)'
      BY <3>1, <3>2, <3>3, <3>4 DEF Checks, Is, Asks, Approves, Busy
    <3> QED BY <1>0, <2>3, <3>1, <3>5, MoveKeeps DEF Is
  <2> QED BY <2>1, <2>2, <2>3
<1>4. CASE BindTarget(v)
  <2>1. PICK receipt \in g.receipt, s \in g.record :
             \/ \E target \in Live(g.gate, s) :
                   /\ Decision(g.gate, receipt, target, g.attested) = "allow"
                   /\ Goes(v, [g EXCEPT !.pc = "bound", !.target = {target}])
                   /\ lock' = lock
             \/ Goes(v, Idle) /\ lock' = lock
    BY <1>4 DEF BindTarget, Deny
  <2>2. CASE Goes(v, Idle) /\ lock' = lock
    BY <1>0, <2>2, IdleKeeps
  <2>3. ASSUME NEW target,
               Decision(g.gate, receipt, target, g.attested) = "allow",
               Goes(v, [g EXCEPT !.pc = "bound", !.target = {target}]), lock' = lock
        PROVE  GateIInv'
    <3> DEFINE local == [g EXCEPT !.pc = "bound", !.target = {target}]
    <3>1. /\ Is(local, "bound", g.gate, g.receipt, g.attested, g.record, {target})
          /\ gate'[v] = local /\ Goes(v, local)
      BY <1>0, <1>a, <2>3, TargetBound
    <3> HIDE DEF local
    <3>2. Asks(v) /\ Approves(v) /\ \A r, t \in g.record : r = t
      BY <1>0, <1>4 DEF BindTarget, Checks
    <3>3. \A r \in g.receipt : r = receipt
      BY <2>1, <3>2 DEF Asks
    <3>4. Approves(v)' /\ Asks(v)'
      BY <3>1, <3>2 DEF Approves, Asks, Is
    <3>5. Decided(v)'
      BY <1>b, <2>3, <3>1, <3>3 DEF Decided, Decision, CompatibleAdvance, Is
    <3>6. Checks(v)'
      BY <3>1, <3>2, <3>4, <3>5 DEF Checks, Is, Busy
    <3> QED BY <1>0, <2>3, <3>1, <3>6, MoveKeeps DEF Is
  <2> QED BY <2>1, <2>2, <2>3
<1>5. CASE Acquire(v)
  <2>1. CASE lock # {}
    BY <1>0, <1>5, <2>1, IdleKeeps DEF Acquire, Deny
  <2>2. CASE lock = {}
    <3> DEFINE local == [g EXCEPT !.pc = "locked"]
    <3>1. Goes(v, local) /\ lock' = {v}
      BY <1>5, <2>2 DEF Acquire
    <3>2. /\ Is(local, "locked", g.gate, g.receipt, g.attested, g.record, g.target)
          /\ gate'[v] = local
      BY <1>0, <1>a, <3>1, GoesOn
    <3> HIDE DEF local
    <3>3. Asks(v) /\ Approves(v) /\ Decided(v) /\ \A r, t \in g.record : r = t
      BY <1>0, <1>5 DEF Acquire, Checks
    <3>4. Approves(v)' /\ Asks(v)' /\ Decided(v)'
      BY <1>b, <3>2, <3>3, DecidedStays DEF Approves, Asks, Is
    <3>5. Checks(v)'
      BY <3>2, <3>3, <3>4 DEF Checks, Is, Busy
    <3> QED BY <1>0, <2>2, <3>1, <3>5, MoveKeeps
  <2> QED BY <2>1, <2>2
<1>6. CASE Authorize(v)
  <2>1. CASE ~ FinalMatches(v)
    BY <1>0, <1>6, <2>1, IdleKeeps DEF Authorize
  <2>2. CASE FinalMatches(v)
    <3> DEFINE local == [g EXCEPT !.pc = "allowed"]
    <3>1. Goes(v, local) /\ lock' = lock
      BY <1>6, <2>2 DEF Authorize
    <3>2. /\ Is(local, "allowed", g.gate, g.receipt, g.attested, g.record, g.target)
          /\ gate'[v] = local
      BY <1>0, <1>a, <3>1, GoesOn
    <3> HIDE DEF local
    <3>3. Asks(v) /\ Approves(v) /\ Decided(v) /\ \A r, t \in g.record : r = t
      BY <1>0, <1>6 DEF Authorize, Checks
    <3>4. Approves(v)' /\ Asks(v)' /\ Decided(v)'
      BY <1>b, <3>2, <3>3, DecidedStays DEF Approves, Asks, Is
    <3>5. Found(v)
      <4>1. PICK receipt \in g.receipt :
                 /\ authority[receipt.lineage] = g.record
                 /\ GraphValid(authority)
                 /\ ~ Superseded(authority, receipt.lineage)
        BY <2>2 DEF FinalMatches
      <4>2. /\ g.record # {} /\ receipt.lineage \in Lineages
            /\ \A r \in g.receipt : r = receipt
        BY <3>3, <4>1 DEF Asks, Approves
      <4> QED BY <4>1, <4>2 DEF Found, Leaves
    <3>6. Found(v)'
      <4>1. authority' = authority /\ gate'[v].receipt = g.receipt
            /\ gate'[v].record = g.record
        BY <1>0, <3>2 DEF Is
      <4> QED BY <3>5, <4>1 DEF Found
    <3>7. Checks(v)'
      BY <3>2, <3>3, <3>4, <3>6 DEF Checks, Is, Busy
    <3>8. lock = {v}
      BY <1>0, <1>6 DEF Authorize
    <3> QED BY <1>0, <3>1, <3>7, <3>8, MoveKeeps
  <2> QED BY <2>1, <2>2
<1>7. CASE Allow(v)
  BY <1>0, <1>7, IdleKeeps DEF Allow
<1> QED BY <1>1, <1>2, <1>3, <1>4, <1>5, <1>6, <1>7 DEF Validate

(* Nobody validates at first. *)
LEMMA GateInitInvariant == GateInit => GateIInv
<1> SUFFICES ASSUME GateInit PROVE GateIInv
  OBVIOUS
<1>1. \A v \in Validators : gate[v] = Idle
  BY DEF GateInit
<1>2. RangeOK
  BY EditsAssumption, EmptySeq DEF GateInit, RangeOK
<1> QED BY <1>1, <1>2, InitInvariant DEF GateInit, GateIInv, LockHeld, Checks, Formed, Idle

(* Every step preserves the invariant. *)
LEMMA GateStep == GateIInv /\ [GateNext]_gateVars => GateIInv'
<1> SUFFICES ASSUME GateIInv, [GateNext]_gateVars PROVE GateIInv'
  OBVIOUS
<1>1. CASE Command
  <2>1. IInv'
    BY <1>1, NextInvariant DEF Command, GateIInv
  <2>2. RangeOK' /\ commits'[1] = commits[1]
    BY <1>1, RangeStays DEF Command, repository, GateIInv
  <2> QED BY <1>1, <2>1, <2>2, AroundKeeps DEF Command
<1>2. CASE Edit \/ Commit \/ Uncommit \/ Advance \/ Rebuild \/ UNCHANGED gateVars
  <2>1. UNCHANGED <<authority, receipts, lock, gate>>
    BY <1>2 DEF Edit, Commit, Uncommit, Advance, Rebuild, gateVars
  <2>2. IInv'
    BY <2>1, StutterInvariant DEF GateIInv, vars
  <2>3. RangeOK' /\ commits'[1] = commits[1]
    BY <1>2, RangeStays DEF Advance, Rebuild, gateVars, GateIInv
  <2> QED BY <2>1, <2>2, <2>3, AroundKeeps
<1>3. CASE \E v \in Validators : Validate(v)
  BY <1>3, ValidateKeeps
<1> QED BY <1>1, <1>2, <1>3 DEF GateNext

(* The commands keep the authority whole also among validators, and each   *)
(* validator knows what it has looked at.                                  *)
THEOREM GateInvariance == GateSpec => []GateIInv
BY GateInitInvariant, GateStep, PTL DEF GateSpec

(* A superseded, reopened or replaced review never authorizes a delivery,  *)
(* whatever ran between the first look at the authority and the last.      *)
THEOREM AllowSafety == GateSpec => []AllowIsBacked
<1>1. GateIInv => AllowIsBacked
  <2> SUFFICES ASSUME GateIInv, NEW v \in Validators, gate[v].pc = "allowed"
               PROVE  \E receipt \in gate[v].receipt :
                         /\ receipt.lineage \in Leaves(authority)
                         /\ \E s \in authority[receipt.lineage] :
                               s.state = "approved" /\ Receipt(s) = receipt
                         /\ GraphValid(authority)
    BY DEF AllowIsBacked
  <2>1. Asks(v) /\ Approves(v) /\ Found(v)
    BY DEF GateIInv, Checks
  <2> QED BY <2>1 DEF Asks, Approves, Found
<1> QED BY <1>1, GateInvariance, PTL

---------------------------------------------------------------------------
(* What is delivered. *)

(* The event publishes the reviewed contents of the reviewed paths, on     *)
(* their reviewed base, and nothing else.                                  *)
Delivers(event, receipt) ==
    /\ ChangedPaths(event[1], event[2]) = receipt.paths
    /\ \A p \in receipt.paths :
          event[1][p] = receipt.base[p] /\ event[2][p] = receipt.final[p]

(* A target that starts from the reviewed base and ends in the reviewed    *)
(* tree delivers the review.                                               *)
LEMMA ExactDelivers ==
    ASSUME NEW base, NEW tree, NEW receipt, NEW target,
           target = Target(base, tree) \/ (target.base = base /\ target.tree = tree
                                           /\ target.paths = ChangedPaths(base, tree)),
           target.base = receipt.base, target.tree = receipt.final,
           target.paths = receipt.paths
    PROVE  Delivers(<<base, tree>>, receipt)
<1>1. base = receipt.base /\ tree = receipt.final /\ ChangedPaths(base, tree) = receipt.paths
  BY DEF Target
<1> QED BY <1>1 DEF Delivers

(* A merge delivers the review also when the publication branch has moved  *)
(* elsewhere.                                                              *)
LEMMA AdvanceDelivers ==
    ASSUME NEW receipt, NEW onto, NEW tree, tree = receipt.final,
           ChangedPaths(receipt.base, receipt.final) = receipt.paths,
           receipt.paths \cap ChangedPaths(receipt.base, onto) = {}
    PROVE  Delivers(<<onto, Merged(Target(onto, tree), receipt.base)>>, receipt)
<1> DEFINE merged == Merged(Target(onto, tree), receipt.base)
<1>1. \A p \in Paths :
         merged[p] = IF tree[p] # receipt.base[p] THEN tree[p] ELSE onto[p]
  BY DEF Merged, Target
<1> HIDE DEF merged
<1>2. \A p \in Paths : p \in receipt.paths <=> receipt.base[p] # receipt.final[p]
  BY DEF ChangedPaths
<1>3. receipt.paths \subseteq Paths
  BY DEF ChangedPaths
<1>4. \A p \in receipt.paths : onto[p] = receipt.base[p] /\ merged[p] = receipt.final[p]
  BY <1>1, <1>2, <1>3 DEF ChangedPaths
<1>5. \A p \in Paths \ receipt.paths : merged[p] = onto[p]
  BY <1>1, <1>2
<1>6. ChangedPaths(onto, merged) = receipt.paths
  BY <1>2, <1>3, <1>4, <1>5 DEF ChangedPaths
<1>7. Delivers(<<onto, merged>>, receipt)
  BY <1>4, <1>6 DEF Delivers
<1> QED BY <1>7 DEF merged

(* The second look at the live target ties the decision to what an event   *)
(* at that instant publishes, through each of the five gates.              *)
LEMMA AllowDelivers ==
    ASSUME GateIInv, NEW v \in Validators, Authorize(v), gate'[v].pc = "allowed"
    PROVE  \E receipt \in gate[v].receipt, s \in gate[v].record :
              (gate[v].gate = "pre-pr" => commits[1] = receipt.base) =>
                  Delivers(Publication(gate[v].gate, s), receipt)
<1> DEFINE g == gate[v]
<1>1. FinalMatches(v) /\ Asks(v) /\ Decided(v) /\ DOMAIN gate = Validators
  BY DEF Authorize, Goes, Idle, GateIInv, Checks
<1>2. PICK receipt \in g.receipt, s \in g.record : Live(g.gate, s) = g.target
  BY <1>1 DEF FinalMatches
<1>3. PICK target : /\ g.target = {target}
                    /\ Decision(g.gate, receipt, target, g.attested) = "allow"
  BY <1>1 DEF Decided
<1>4. target \in Live(g.gate, s)
  BY <1>2, <1>3
<1>5. g.gate \in {"post-apply", "pre-commit", "pre-push", "pre-pr", "release"}
  BY <1>1, GatesAssumption DEF Asks
<1> SUFFICES ASSUME g.gate = "pre-pr" => commits[1] = receipt.base
             PROVE  Delivers(Publication(g.gate, s), receipt)
  OBVIOUS
<1> HIDE DEF g
<1>6. \/ CompatibleAdvance(g.gate, receipt, target, g.attested)
      \/ /\ target.base = receipt.base /\ target.tree = receipt.final
         /\ target.paths = receipt.paths
  BY <1>3 DEF Decision
<1>7. g.gate # "pre-pr" => /\ target.base = receipt.base /\ target.tree = receipt.final
                           /\ target.paths = receipt.paths
  BY <1>6 DEF CompatibleAdvance
<1>8. CASE g.gate \in {"post-apply", "pre-commit"}
  <2>1. target = Target(HeadTree, worktree)
    BY <1>4, <1>8 DEF Live
  <2>2. Publication(g.gate, s) = <<HeadTree, worktree>>
    BY <1>8 DEF Publication
  <2> QED BY <1>7, <1>8, <2>1, <2>2, ExactDelivers
<1>9. CASE g.gate = "release"
  <2>1. target \in {[Target(commits[i], HeadTree) EXCEPT !.artifacts = {artifacts}] :
                       i \in {j \in DOMAIN commits : j = Len(commits) - 1}}
    BY <1>4, <1>9 DEF Live
  <2>2. target = [Target(commits[Len(commits) - 1], HeadTree)
                     EXCEPT !.artifacts = {artifacts}]
    BY <2>1
  <2>3. /\ target.base = commits[Len(commits) - 1] /\ target.tree = HeadTree
        /\ target.paths = ChangedPaths(commits[Len(commits) - 1], HeadTree)
    BY <2>2 DEF Target
  <2>4. Publication(g.gate, s) = <<commits[Len(commits) - 1], HeadTree>>
    BY <1>9 DEF Publication
  <2> QED BY <1>7, <1>9, <2>3, <2>4, ExactDelivers
<1>10. CASE g.gate = "pre-push"
  <2>1. target \in {[Target(commits[i], HeadTree) EXCEPT !.refs = <<tip, commits>>] :
                       i \in PushBases(s)}
    BY <1>4, <1>10 DEF Live
  <2>2. PICK i \in PushBases(s) :
             target = [Target(commits[i], HeadTree) EXCEPT !.refs = <<tip, commits>>]
    BY <2>1
  <2>3. /\ target.base = commits[i] /\ target.tree = HeadTree
        /\ target.paths = ChangedPaths(commits[i], HeadTree)
    BY <2>2 DEF Target
  <2>4. Publication(g.gate, s) = <<commits[i], HeadTree>>
    <3>1. CASE s.initial.kind = "current-changes"
      <4>1. Len(commits) - i = 1 /\ i \in DOMAIN commits
        BY <3>1 DEF PushBases, DeliveryBases
      <4>2. DOMAIN commits = 1 .. Len(commits) /\ Len(commits) \in Nat
        BY LenProperties DEF GateIInv, RangeOK
      <4>3. i = Len(commits) - 1
        BY <4>1, <4>2
      <4> QED BY <1>10, <3>1, <4>3 DEF Publication
    <3>2. CASE s.initial.kind # "current-changes"
      <4>1. i = 1
        BY <3>2 DEF PushBases
      <4> QED BY <1>10, <3>2, <4>1 DEF Publication
    <3> QED BY <3>1, <3>2
  <2> QED BY <1>7, <1>10, <2>3, <2>4, ExactDelivers
<1>11. CASE g.gate = "pre-pr"
  <2>1. target = [Target(tip, HeadTree) EXCEPT !.refs = <<tip, commits>>]
    BY <1>4, <1>11 DEF Live
  <2>2. /\ target.base = tip /\ target.tree = HeadTree
        /\ target.paths = ChangedPaths(tip, HeadTree)
    BY <2>1 DEF Target
  <2>3. /\ Publication(g.gate, s) = <<tip, Merged(Target(tip, HeadTree), receipt.base)>>
        /\ HeadTree = receipt.final
    BY <1>6, <1>11, <2>2 DEF Publication, CompatibleAdvance
  <2>4. /\ ChangedPaths(receipt.base, receipt.final) = receipt.paths
        /\ receipt.paths \cap ChangedPaths(receipt.base, tip) = {}
    <3>1. CASE CompatibleAdvance(g.gate, receipt, target, g.attested)
      BY <2>2, <3>1 DEF CompatibleAdvance
    <3>2. CASE target.base = receipt.base /\ target.tree = receipt.final
               /\ target.paths = receipt.paths
      BY <2>2, <3>2 DEF ChangedPaths
    <3> QED BY <1>6, <3>1, <3>2
  <2> QED BY <2>3, <2>4, AdvanceDelivers
<1> QED BY <1>5, <1>8, <1>9, <1>10, <1>11

(* Only an authorization lets a validator allow. *)
LEMMA AllowIsAuthorized ==
    ASSUME GateIInv, [GateNext]_gateVars, NEW v \in Validators,
           gate[v].pc = "locked", gate'[v].pc = "allowed"
    PROVE  Authorize(v)
<1>1. gate' # gate
  OBVIOUS
<1>2. PICK u \in Validators : Validate(u)
  BY <1>1 DEF GateNext, Command, Edit, Commit, Uncommit, Advance, Rebuild, gateVars
<1>3. u = v
  <2>1. \E local : Goes(u, local)
    BY <1>2 DEF Validate, Begin, LoadRecord, CheckAuthority, BindTarget, Acquire,
                Authorize, Allow, Deny
  <2> QED BY <2>1 DEF Goes
<1>4. Validate(v) /\ gate[v].pc = "locked"
  BY <1>2, <1>3
<1>5. ~ (Begin(v) \/ LoadRecord(v) \/ CheckAuthority(v) \/ BindTarget(v)
         \/ Acquire(v) \/ Allow(v))
  <2>1. Idle.pc = "idle"
    BY DEF Idle
  <2>2. ~ Begin(v) /\ ~ LoadRecord(v)
    BY <1>4, <2>1 DEF Begin, LoadRecord
  <2>3. ~ CheckAuthority(v) /\ ~ BindTarget(v)
    BY <1>4 DEF CheckAuthority, BindTarget
  <2>4. ~ Acquire(v) /\ ~ Allow(v)
    BY <1>4 DEF Acquire, Allow
  <2> QED BY <2>2, <2>3, <2>4
<1> QED BY <1>4, <1>5 DEF Validate

(* At the instant a delivery is allowed it is the reviewed one.            *)
THEOREM DeliverySafety == GateSpec => AllowedDeliveryIsReviewed
<1> DEFINE Reviewed ==
        \A v \in Validators :
          gate[v].pc = "locked" /\ gate'[v].pc = "allowed" =>
              \E receipt \in gate[v].receipt, s \in gate[v].record :
                  LET event == Publication(gate[v].gate, s) IN
                  (gate[v].gate = "pre-pr" => commits[1] = receipt.base) =>
                      /\ ChangedPaths(event[1], event[2]) = receipt.paths
                      /\ \A p \in receipt.paths :
                            /\ event[1][p] = receipt.base[p]
                            /\ event[2][p] = receipt.final[p]
<1>1. GateIInv /\ [GateNext]_gateVars => [Reviewed]_gateVars
  BY AllowIsAuthorized, AllowDelivers DEF Delivers
<1>2. AllowedDeliveryIsReviewed <=> [][Reviewed]_gateVars
  BY DEF AllowedDeliveryIsReviewed
<1> HIDE DEF Reviewed
<1> QED BY <1>1, <1>2, GateInvariance, PTL DEF GateSpec
===============================================================================
