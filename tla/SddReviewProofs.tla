---------------------------- MODULE SddReviewProofs ----------------------------
(***************************************************************************)
(* What `sdd-status` recommends and what `review bind-sdd` publishes, for  *)
(* any number of reviews, binders, trees and disturbances.                 *)
(*                                                                         *)
(* The argument.  The status holds no lock, so nothing it has looked at    *)
(* need still be so when it answers.  But a record with a verdict and a    *)
(* receipt stay, and a lineage once superseded remains so (Settled): the   *)
(* second gate on a binding, by finding its lineage not superseded, says   *)
(* so of the instant at which the binding was read again as well, and only *)
(* the files may have moved in between.                                    *)
(***************************************************************************)
EXTENDS SddReview, FiniteSetTheorems, TLAPS

---------------------------------------------------------------------------
(* The inductive invariant. *)

Bindings == [lineage : Lineages, record : Records]

(* One record per lineage, and receipts of verdicts only.                  *)
AuthorityOK ==
    /\ authority \in [Lineages -> SUBSET Records]
    /\ \A l \in Lineages : \A r, s \in authority[l] : r = s
    /\ \A l \in receipts : l \in Lineages /\
          \E r \in authority[l] : r.state \in {"approved", "escalated"}
    /\ worktree \in Trees
    /\ scopes \in [Lineages -> {"change", "mixed", "elsewhere"}]

BinderPhases == {"idle", "read", "confirmed", "compared", "done"}

Binding == [pc : BinderPhases, expected : SUBSET Bindings, new : SUBSET Bindings]

(* A binder has one binding to publish; in its critical section it holds   *)
(* the lock, and the binding on disk is the one it expects.                *)
Publishes(b) ==
    /\ binder[b] \in Binding
    /\ binder[b].pc = "idle" => binder[b].new = {}
    /\ binder[b].pc # "idle" => \E x \in Bindings : binder[b].new = {x}
    /\ binder[b].pc = "compared" => lock = {b} /\ binding = binder[b].expected

BindingOK ==
    /\ binding \in SUBSET Bindings /\ \A x, y \in binding : x = y
    /\ DOMAIN binder = Binders /\ binder = [b \in Binders |-> binder[b]]
    /\ \A b \in Binders : Publishes(b)

(* The artifacts of a change, of which planning ones are the known four.   *)
Change(c) ==
    /\ c \in [planning : SUBSET Planning, tasks : {c.tasks}, specs : {c.specs},
              report : {c.report}, progress : {c.progress},
              transaction : {c.transaction}, mirror : {c.mirror}]

FormedCall(k) ==
    k \in [pc : {k.pc}, c : {k.c}, binding : {k.binding}, todo : {k.todo},
           eligible : {k.eligible}, bridge : {k.bridge}, status : {k.status}]

FormedStatus(s) ==
    s \in [apply : {s.apply}, verify : {s.verify}, archive : {s.archive}, next : {s.next}]

(* What commands never take back: the record of b is approved and has its  *)
(* receipt.                                                                *)
Settled(b) ==
    /\ b.lineage \in receipts
    /\ authority[b.lineage] = {b.record} /\ b.record.state = "approved"

(* An archive is only ready after a strict verification.                   *)
ArchiveNeeds(c, s) ==
    s.archive = "ready" \/ s.next = "archive" =>
        s.verify = "all_done" /\ Verified(c) /\ AllComplete(c) /\ CoreReady(c)

(* A verification is only ready for a change that has not passed it: a     *)
(* first one on an authority or for a v1 transaction that waits, another   *)
(* one on another authority or after its remediation; that the authority   *)
(* was seen is seen.                                                       *)
VerifyNeeds(c, s, bridge, seen) ==
    s.verify = "ready" \/ s.next = "verify" =>
        /\ ApplyState(c) = "all_done" /\ ~ Verified(c)
        /\ c.report = {} => seen \/ V1Waits(c)
        /\ c.report # {} =>
              \E report \in c.report :
                 \/ /\ AuthorityOnly(report)
                    /\ seen /\ bridge.eligible /\ bridge.revision # report.observed
                 \/ Remediated(c, report)

FirstLook == {"bound", "gated", "reread", "list", "bridge"}
CallPhases == FirstLook \cup {"idle", "receipt", "gate", "act"}

(* What the call has found out about b, the binding it goes by.            *)
Watches(b) ==
    /\ call.pc \in {"gated", "reread"} => Settled(b) /\ held >= 1
    /\ call.pc = "reread" => held >= 2 \/ Superseded(b.lineage)

(* What the call knows of the change c and has concluded in s.             *)
Concludes(c, s) ==
    /\ call.pc \in FirstLook => s = Initial(c)
    /\ call.pc = "list" => NeedsBridge(c)
    /\ call.pc = "bridge" =>
          (call.todo # {} \/ call.eligible # {} \/ call.bridge.relevant => NeedsBridge(c))
    /\ call.pc \in {"receipt", "gate"} =>
          s.verify = "all_done" /\ s.next # "verify" /\ ArchiveNeeds(c, s)
    /\ call.pc = "act" =>
          /\ ArchiveNeeds(c, s)
          /\ s.archive = "ready" \/ s.next = "archive" => held = 3
          /\ VerifyNeeds(c, s, call.bridge, held = 3)

CallOK ==
    /\ FormedCall(call) /\ call.pc \in CallPhases /\ held \in 0 .. 3
    /\ call.pc # "idle" =>
          \E c, s : /\ call.c = {c} /\ call.status = {s}
                    /\ Change(c) /\ FormedStatus(s) /\ Concludes(c, s)
    /\ call.pc \in {"bound", "gated", "reread"} =>
          \E b \in Bindings : call.binding = {b} /\ Watches(b)
    /\ call.pc \in FirstLook \ {"bridge"} =>
          call.todo = {} /\ call.eligible = {} /\ call.bridge = NoBridge
    /\ call.pc = "bridge" /\ call.eligible # {} => held = 3

SddIInv ==
    /\ AuthorityOK /\ BindingOK /\ CallOK
    /\ Change(change)

---------------------------------------------------------------------------
(* What a status says, without state. *)

(* Only the known planning artifacts decide which comes next.              *)
LEMMA PlanningNext ==
    ASSUME NEW c, Change(c)
    PROVE  NextPlanning(c) \in {"propose", "spec", "design", "tasks", "resolve-blockers"}
<1>1. c.planning \subseteq Planning
  BY DEF Change
<1> QED BY <1>1 DEF NextPlanning, Planning

(* The first answer claims no archive without a strict verification, and   *)
(* no verification that is not due.                                        *)
LEMMA InitialClaims ==
    ASSUME NEW c, Change(c)
    PROVE  LET s == Initial(c) IN
           /\ FormedStatus(s) /\ ArchiveNeeds(c, s)
           /\ s.verify = "ready" \/ s.next = "verify" =>
                 /\ ApplyState(c) = "all_done" /\ ~ Verified(c)
                 /\ c.report # {} => \E report \in c.report : Remediated(c, report)
           /\ s.verify = "all_done" => s.next # "verify"
           /\ c.report = {} => s.verify # "all_done"
<1> DEFINE s == Initial(c)
           d == Dependencies(c)
<1>1. /\ s.apply = d.apply /\ s.verify = d.verify /\ s.archive = d.archive
      /\ s.next = NextRecommended(c, d) /\ FormedStatus(s)
  BY DEF Initial, FormedStatus
<1>2. /\ d.apply = ApplyState(c)
      /\ d.verify \in {"all_done", "ready", "blocked"}
      /\ d.verify = "all_done" => CoreReady(c) /\ AllComplete(c) /\ Verified(c)
      /\ d.verify = "ready" =>
            /\ ApplyState(c) = "all_done" /\ ~ Verified(c)
            /\ c.report = {} \/ Remediation(c).complete
      /\ d.archive = "ready" => d.verify = "all_done" /\ AllComplete(c)
  BY DEF Dependencies, ApplyState
<1>3. Remediation(c).complete => \E report \in c.report : Remediated(c, report)
  BY DEF Remediation, Remediated, Matches
<1>4. /\ s.next = "archive" => d.verify = "all_done"
      /\ s.next = "verify" => d.verify = "ready"
  BY <1>1, PlanningNext DEF NextRecommended
<1>5. Verified(c) => c.report # {}
  BY DEF Verified
<1> HIDE DEF s, d
<1>6. ArchiveNeeds(c, s)
  BY <1>1, <1>2, <1>4 DEF ArchiveNeeds
<1> QED BY <1>1, <1>2, <1>3, <1>4, <1>5, <1>6 DEF s

(* The answers that send the agent to the review, or to the verification.  *)
LEMMA Answers ==
    ASSUME NEW s, FormedStatus(s)
    PROVE  /\ FormedStatus(Blocked(s)) /\ Blocked(s).verify = "blocked"
           /\ Blocked(s).archive = "blocked" /\ Blocked(s).next = "resolve-review"
           /\ FormedStatus(ReadyToVerify(s)) /\ ReadyToVerify(s).verify = "ready"
           /\ ReadyToVerify(s).archive = "blocked" /\ ReadyToVerify(s).next = "verify"
           /\ FormedStatus(GateBlocked(s)) /\ GateBlocked(s).verify = s.verify
           /\ GateBlocked(s).archive = "blocked" /\ GateBlocked(s).next = "resolve-review"
BY DEF FormedStatus, Blocked, ReadyToVerify, GateBlocked

(* The pre-verification routing, from the first answer.                    *)
LEMMA RoutedClaims ==
    ASSUME NEW c, Change(c)
    PROVE  LET s == Routed(c, Initial(c)) IN
           /\ FormedStatus(s) /\ ArchiveNeeds(c, s)
           /\ s.verify = "ready" \/ s.next = "verify" =>
                 /\ ApplyState(c) = "all_done" /\ ~ Verified(c)
                 /\ c.report = {} => V1Waits(c)
                 /\ c.report # {} => \E report \in c.report : Remediated(c, report)
           /\ s.verify = "all_done" => s.next # "verify"
<1> DEFINE i == Initial(c)
           s == Routed(c, Initial(c))
<1>1. FormedStatus(i) /\ ArchiveNeeds(c, i)
  BY InitialClaims
<1>2. CASE ApplyState(c) # "all_done" \/ c.report # {}
  <2>1. s = i
    BY <1>2 DEF Routed
  <2> QED BY <1>2, <2>1, InitialClaims
<1>3. CASE ApplyState(c) = "all_done" /\ c.report = {}
  <2>1. i.archive # "ready"
    BY <1>1, <1>3, InitialClaims DEF ArchiveNeeds
  <2>2. /\ FormedStatus(s) /\ s.archive = i.archive
        /\ s.next \in {"verify", "resolve-review", "review"}
        /\ s.verify \in {"ready", "blocked"}
        /\ s.verify = "ready" \/ s.next = "verify" => V1Waits(c)
    <3> HIDE DEF i
    <3>1. FormedStatus(i)
      BY <1>1 DEF i
    <3>2. s = IF V1Waits(c) THEN [i EXCEPT !.verify = "ready", !.next = "verify"]
              ELSE IF \E t \in c.transaction : t.state \in {"escalated", "approved"}
              THEN [i EXCEPT !.verify = "blocked", !.next = "resolve-review"]
              ELSE [i EXCEPT !.verify = "blocked", !.next = "review"]
      BY <1>3 DEF Routed, V1Waits, i
    <3> HIDE DEF s
    <3> QED BY <3>1, <3>2 DEF FormedStatus
  <2>3. ~ Verified(c)
    BY <1>3 DEF Verified
  <2> QED BY <1>3, <2>1, <2>2, <2>3 DEF ArchiveNeeds
<1> QED BY <1>2, <1>3

(* What a binding that holds makes of the first answer.                    *)
LEMMA BoundClaims ==
    ASSUME NEW c, Change(c), NEW bridge
    PROVE  LET s == Bound(c, TRUE, Initial(c)) IN
           FormedStatus(s) /\ ArchiveNeeds(c, s) /\ VerifyNeeds(c, s, bridge, TRUE)
<1> DEFINE i == Initial(c)
<1>1. FormedStatus(i)
  BY InitialClaims
<1>2. CASE ApplyState(c) = "all_done" /\ c.report = {}
  <2>1. Bound(c, TRUE, i) = ReadyToVerify(i)
    BY <1>2 DEF Bound
  <2>2. ~ Verified(c)
    BY <1>2 DEF Verified
  <2> QED BY <1>1, <1>2, <2>1, <2>2, Answers DEF ArchiveNeeds, VerifyNeeds
<1>3. CASE ~ (ApplyState(c) = "all_done" /\ c.report = {})
  <2>1. Bound(c, TRUE, i) = i
    BY <1>3 DEF Bound
  <2> QED BY <1>3, <2>1, InitialClaims DEF VerifyNeeds
<1> QED BY <1>2, <1>3

(* What the search for an authority makes of it, when what was found was   *)
(* seen to be good, and nothing was looked for without need.               *)
LEMMA UnboundClaims ==
    ASSUME NEW c, Change(c), NEW bridge, NEW seen,
           bridge.eligible \in BOOLEAN, bridge.relevant \in BOOLEAN,
           bridge.eligible => seen,
           bridge.eligible \/ bridge.relevant => NeedsBridge(c)
    PROVE  LET s == Unbound(c, bridge, Initial(c)) IN
           /\ FormedStatus(s) /\ ArchiveNeeds(c, s) /\ VerifyNeeds(c, s, bridge, seen)
           /\ s.verify = "all_done" => s.next # "verify"
<1> DEFINE i == Initial(c)
           retried == Retried(c, bridge, i)
           s == Unbound(c, bridge, i)
<1>1. FormedStatus(i)
  BY InitialClaims
<1>2. CASE ~ bridge.eligible /\ ~ bridge.relevant
  <2>1. retried = i
    BY <1>2 DEF Retried
  <2>2. Bridged(c, bridge, i) = i
    BY <1>2 DEF Bridged
  <2>3. s = Routed(c, i)
    BY <1>2, <2>1, <2>2 DEF Unbound
  <2> QED BY <2>3, RoutedClaims DEF VerifyNeeds
<1>3. CASE bridge.eligible
  <2>1. NeedsBridge(c) /\ seen
    BY <1>3
  <2>2. ApplyState(c) = "all_done" /\ c.transaction = {} /\ ~ Verified(c)
    BY <2>1 DEF NeedsBridge, Verified, Passing, AuthorityOnly
  <2>3. CASE c.report = {}
    <3>1. retried = i
      BY <2>3 DEF Retried
    <3>2. s = ReadyToVerify(i)
      BY <1>3, <2>2, <2>3, <3>1 DEF Unbound, Bridged
    <3> QED BY <1>1, <2>1, <2>2, <2>3, <3>2, Answers DEF ArchiveNeeds, VerifyNeeds
  <2>4. CASE c.report # {}
    <3>1. s = retried
      BY <1>3, <2>4 DEF Unbound, Bridged
    <3>2. CASE \E report \in c.report :
                  AuthorityOnly(report) /\ report.observed # bridge.revision
      <4>1. s = ReadyToVerify(i)
        BY <1>3, <3>1, <3>2 DEF Retried
      <4> QED BY <1>1, <1>3, <2>1, <2>2, <3>2, <4>1, Answers DEF ArchiveNeeds, VerifyNeeds
    <3>3. CASE ~ \E report \in c.report :
                  AuthorityOnly(report) /\ report.observed # bridge.revision
      <4>1. s = i
        BY <3>1, <3>3 DEF Retried
      <4> QED BY <2>4, <4>1, InitialClaims DEF VerifyNeeds
    <3> QED BY <3>2, <3>3
  <2> QED BY <2>3, <2>4
<1>4. CASE ~ bridge.eligible /\ bridge.relevant
  <2>1. ApplyState(c) = "all_done" /\ c.transaction = {}
    BY <1>4 DEF NeedsBridge
  <2>2. retried = i
    BY <1>4 DEF Retried
  <2>3. s = Bridged(c, bridge, i)
    BY <1>4, <2>2 DEF Unbound
  <2>4. CASE c.report = {}
    <3>1. s = Blocked(i)
      BY <1>4, <2>1, <2>3, <2>4 DEF Bridged
    <3> QED BY <1>1, <3>1, Answers DEF ArchiveNeeds, VerifyNeeds
  <2>5. CASE c.report # {}
    <3>1. s = i
      BY <2>3, <2>5 DEF Bridged
    <3> QED BY <2>5, <3>1, InitialClaims DEF VerifyNeeds
  <2> QED BY <2>4, <2>5
<1> QED BY <1>2, <1>3, <1>4

---------------------------------------------------------------------------
(* The authorities. *)

(* One step on one record: it stays of its form, a verdict with its receipt *)
(* stays, and a lineage once superseded remains so.                        *)
AuthorityStep ==
    /\ AuthorityOK'
    /\ \A b \in Bindings : Settled(b) => Settled(b)'
    /\ \A l : Superseded(l) => Superseded(l)'

(* Writing an open lineage, or one that has none, with what it recovers.   *)
LEMMA WritesKeep ==
    ASSUME AuthorityOK, NEW l \in Lineages, NEW r \in Records, Writes(l, r),
           \A s \in authority[l] : s.state = "open" /\ r.recovers = s.recovers,
           UNCHANGED <<scopes, worktree>>
    PROVE  AuthorityStep
<1>1. /\ authority' = [authority EXCEPT ![l] = {r}] /\ receipts' = receipts
      /\ authority \in [Lineages -> SUBSET Records]
  BY DEF Writes, AuthorityOK
<1>2. \A m \in Lineages : authority'[m] = IF m = l THEN {r} ELSE authority[m]
  BY <1>1
<1>3. l \notin receipts
  BY DEF AuthorityOK
<1>4. AuthorityOK'
  <2>1. authority' \in [Lineages -> SUBSET Records]
    BY <1>1
  <2>2. \A m \in Lineages : \A s, t \in authority'[m] : s = t
    BY <1>2 DEF AuthorityOK
  <2>3. \A m \in receipts' : m \in Lineages /\
            \E s \in authority'[m] : s.state \in {"approved", "escalated"}
    BY <1>1, <1>2, <1>3 DEF AuthorityOK
  <2> QED BY <2>1, <2>2, <2>3 DEF AuthorityOK
<1>5. ASSUME NEW b \in Bindings, Settled(b) PROVE Settled(b)'
  BY <1>1, <1>2, <1>3, <1>5 DEF Settled, Bindings
<1>6. ASSUME NEW m, Superseded(m) PROVE Superseded(m)'
  <2>1. PICK n \in Lineages : \E s \in authority[n] : m \in s.recovers
    BY <1>6 DEF Superseded
  <2>2. \E s \in authority'[n] : m \in s.recovers
    BY <1>2, <2>1
  <2> QED BY <2>2 DEF Superseded
<1> QED BY <1>4, <1>5, <1>6 DEF AuthorityStep

(* Every review command is such a step. *)
LEMMA CommandKeeps ==
    ASSUME AuthorityOK, Command
    PROVE  AuthorityStep
<1>0. /\ UNCHANGED <<scopes, worktree>> /\ Roots \subseteq Lineages /\ worktree \in Trees
      /\ scopes \in [Lineages -> {"change", "mixed", "elsewhere"}]
      /\ authority \in [Lineages -> SUBSET Records]
  BY LineagesAssumption DEF Command, AuthorityOK
<1>1. CASE \E l \in Roots : Start(l)
  <2>1. PICK l \in Roots : Start(l)
    BY <1>1
  <2> DEFINE r == [state |-> "open", tree |-> worktree, scope |-> scopes[l], recovers |-> {}]
  <2>2. l \in Lineages /\ r \in Records /\ Writes(l, r) /\ authority[l] = {}
    BY <1>0, <2>1 DEF Start, Records
  <2> QED BY <1>0, <2>2, WritesKeep
<1>2. CASE \E l \in Lineages : Conclude(l)
  <2>1. PICK l \in Lineages : Conclude(l)
    BY <1>2
  <2>2. PICK r \in authority[l], verdict \in Verdicts, tree \in Trees :
            /\ r.state = "open"
            /\ Writes(l, [r EXCEPT !.state = verdict, !.tree = tree])
    BY <2>1 DEF Conclude
  <2>3. r \in Records
    BY <1>0
  <2> DEFINE t == [r EXCEPT !.state = verdict, !.tree = tree]
  <2>4. t \in Records /\ t.recovers = r.recovers
    BY <2>3 DEF Records
  <2>5. Writes(l, t) /\ \A s \in authority[l] : s = r
    BY <2>2 DEF AuthorityOK
  <2> HIDE DEF t
  <2> QED BY <1>0, <2>2, <2>4, <2>5, WritesKeep
<1>3. CASE \E l \in Lineages : WriteReceipt(l)
  <2>1. PICK l \in Lineages : WriteReceipt(l)
    BY <1>3
  <2>2. /\ receipts' = receipts \cup {l} /\ authority' = authority
        /\ \E r \in authority[l] : r.state \in {"approved", "escalated"}
    BY <2>1 DEF WriteReceipt
  <2>3. AuthorityOK'
    BY <1>0, <2>2 DEF AuthorityOK
  <2>4. /\ \A b \in Bindings : Settled(b) => Settled(b)'
        /\ \A m : Superseded(m) => Superseded(m)'
    BY <2>2 DEF Settled, Superseded
  <2> QED BY <2>3, <2>4 DEF AuthorityStep
<1>4. CASE \E l, m \in Lineages : Recover(l, m)
  <2>1. PICK l \in Lineages, m \in Lineages : Recover(l, m)
    BY <1>4
  <2>2. PICK r \in authority[l] :
            /\ authority[m] = {}
            /\ Writes(m, [state |-> "open", tree |-> worktree, scope |-> r.scope,
                          recovers |-> {l}])
    BY <2>1 DEF Recover
  <2> DEFINE t == [state |-> "open", tree |-> worktree, scope |-> r.scope, recovers |-> {l}]
  <2>3. r \in Records
    BY <1>0
  <2>4. t \in Records
    BY <1>0, <2>3 DEF Records
  <2> QED BY <1>0, <2>2, <2>4, WritesKeep
<1> QED BY <1>1, <1>2, <1>3, <1>4 DEF Command

---------------------------------------------------------------------------
(* The status, step by step. *)

(* What every step notes of the authority of the call.                     *)
Observes ==
    held' = IF call'.pc = "idle" THEN 0
            ELSE IF Good' \/ (held >= 2 /\ Holds') THEN 3
            ELSE IF held = 1 /\ Named' THEN 2
            ELSE IF held = 0 /\ Holds' THEN 1 ELSE held

(* What has been seen during a call stays seen, and more is added to it.   *)
LEMMA SeenStays ==
    ASSUME held \in 0 .. 3, Observes
    PROVE  /\ held' \in 0 .. 3
           /\ call'.pc # "idle" =>
                 /\ held' >= held
                 /\ held = 3 => held' = 3
                 /\ Good' => held' = 3
                 /\ Holds' => held' >= 1
                 /\ held >= 1 /\ Named' => held' >= 2
                 /\ held >= 2 /\ Holds' => held' = 3
BY DEF Observes

(* A step of somebody else leaves the call what it knows.                  *)
LEMMA OthersKeep ==
    ASSUME CallOK, Observes, call' = call,
           \A b \in Bindings : Settled(b) => Settled(b)',
           \A l : Superseded(l) => Superseded(l)'
    PROVE  CallOK'
<1>1. /\ FormedCall(call)' /\ (call.pc \in CallPhases)' /\ held \in 0 .. 3 /\ held' \in 0 .. 3
      /\ call.pc # "idle" => held' >= held /\ (held = 3 => held' = 3)
  BY SeenStays DEF CallOK, FormedCall
<1>2. ASSUME call.pc # "idle"
      PROVE  \E c, s : /\ (call.c = {c})' /\ (call.status = {s})'
                       /\ Change(c) /\ FormedStatus(s) /\ Concludes(c, s)'
  <2>1. PICK c, s : /\ call.c = {c} /\ call.status = {s}
                    /\ Change(c) /\ FormedStatus(s) /\ Concludes(c, s)
    BY <1>2 DEF CallOK
  <2>2. Concludes(c, s)'
    BY <1>1, <1>2, <2>1 DEF Concludes, VerifyNeeds
  <2> QED BY <2>1, <2>2
<1>3. ASSUME call.pc \in {"bound", "gated", "reread"}
      PROVE  \E b \in Bindings : (call.binding = {b})' /\ Watches(b)'
  <2>1. PICK b \in Bindings : call.binding = {b} /\ Watches(b)
    BY <1>3 DEF CallOK
  <2>2. Watches(b)'
    BY <1>1, <1>3, <2>1 DEF Watches
  <2> QED BY <2>1, <2>2
<1>4. /\ (call.pc \in FirstLook \ {"bridge"} =>
             call.todo = {} /\ call.eligible = {} /\ call.bridge = NoBridge)'
      /\ (call.pc = "bridge" /\ call.eligible # {} => held = 3)'
  BY <1>1 DEF CallOK
<1> QED BY <1>1, <1>2, <1>3, <1>4 DEF CallOK

(* The local state of the call, field by field.                            *)
Is(k, pc, c, read, todo, eligible, bridge, status) ==
    /\ FormedCall(k) /\ k.pc = pc /\ k.c = c /\ k.binding = read /\ k.todo = todo
    /\ k.eligible = eligible /\ k.bridge = bridge /\ k.status = status

(* What the steps change of it: the phase, the answer, the search.         *)
LEMMA PhaseEffect ==
    ASSUME NEW k, FormedCall(k), NEW pc
    PROVE  Is([k EXCEPT !.pc = pc],
              pc, k.c, k.binding, k.todo, k.eligible, k.bridge, k.status)
BY DEF FormedCall, Is

LEMMA AnswerEffect ==
    ASSUME NEW k, FormedCall(k), NEW pc, NEW status
    PROVE  Is([k EXCEPT !.pc = pc, !.status = status],
              pc, k.c, k.binding, k.todo, k.eligible, k.bridge, status)
BY DEF FormedCall, Is

LEMMA ListEffect ==
    ASSUME NEW k, FormedCall(k), NEW pc, NEW todo
    PROVE  Is([k EXCEPT !.pc = pc, !.todo = todo],
              pc, k.c, k.binding, todo, k.eligible, k.bridge, k.status)
BY DEF FormedCall, Is

LEMMA SearchEffect ==
    ASSUME NEW k, FormedCall(k), NEW todo, NEW eligible, NEW bridge
    PROVE  /\ Is([k EXCEPT !.todo = todo],
                 k.pc, k.c, k.binding, todo, k.eligible, k.bridge, k.status)
           /\ Is([k EXCEPT !.eligible = eligible],
                 k.pc, k.c, k.binding, k.todo, eligible, k.bridge, k.status)
           /\ Is([k EXCEPT !.todo = todo, !.eligible = eligible, !.bridge = bridge],
                 k.pc, k.c, k.binding, todo, eligible, bridge, k.status)
BY DEF FormedCall, Is

LEMMA RouteEffect ==
    ASSUME NEW k, FormedCall(k), NEW status, NEW bridge, NEW eligible, NEW pc
    PROVE  Is([k EXCEPT !.status = status, !.bridge = bridge, !.eligible = eligible,
                        !.pc = pc],
              pc, k.c, k.binding, k.todo, eligible, bridge, status)
BY DEF FormedCall, Is

(* An answer is given.                                                     *)
LEMMA AnswerKeeps ==
    ASSUME FormedCall(call'), call'.pc = "act", held' \in 0 .. 3,
           NEW c, NEW s, call'.c = {c}, call'.status = {s}, Change(c), FormedStatus(s),
           ArchiveNeeds(c, s), s.archive = "ready" \/ s.next = "archive" => held' = 3,
           VerifyNeeds(c, s, call'.bridge, held' = 3)
    PROVE  CallOK'
<1>1. Concludes(c, s)'
  BY DEF Concludes, FirstLook
<1>2. CallOK' <=>
        /\ FormedCall(call') /\ call'.pc \in CallPhases /\ held' \in 0 .. 3
        /\ \E d, t : /\ call'.c = {d} /\ call'.status = {t}
                     /\ Change(d) /\ FormedStatus(t) /\ Concludes(d, t)'
  BY DEF CallOK, FirstLook
<1> QED BY <1>1, <1>2 DEF CallPhases

(* An answer that waits for the receipt.                                   *)
LEMMA ReceiptKeeps ==
    ASSUME FormedCall(call'), call'.pc \in {"receipt", "gate"}, held' \in 0 .. 3,
           NEW c, NEW s, call'.c = {c}, call'.status = {s}, Change(c), FormedStatus(s),
           s.verify = "all_done", s.next # "verify", ArchiveNeeds(c, s)
    PROVE  CallOK'
<1>1. Concludes(c, s)'
  BY DEF Concludes, FirstLook
<1>2. CallOK' <=>
        /\ FormedCall(call') /\ call'.pc \in CallPhases /\ held' \in 0 .. 3
        /\ \E d, t : /\ call'.c = {d} /\ call'.status = {t}
                     /\ Change(d) /\ FormedStatus(t) /\ Concludes(d, t)'
  BY DEF CallOK, FirstLook
<1> QED BY <1>1, <1>2 DEF CallPhases

(* A binding that does not hold blocks.                                    *)
LEMMA InvalidKeeps ==
    ASSUME CallOK, Observes, call.pc \in {"bound", "gated", "reread"}, Invalid
    PROVE  CallOK'
<1>1. PICK c \in call.c, s \in call.status :
          call' = [call EXCEPT !.pc = "act", !.status = {Bound(c, FALSE, s)}]
  BY DEF Invalid, Becomes
<1>2. /\ call.c = {c} /\ call.status = {s} /\ Change(c) /\ FormedStatus(s) /\ FormedCall(call)
      /\ held \in 0 .. 3
  BY <1>1 DEF CallOK
<1>3. Is(call', "act", call.c, call.binding, call.todo, call.eligible, call.bridge,
         {Bound(c, FALSE, s)})
  BY <1>1, <1>2, AnswerEffect
<1>4. Bound(c, FALSE, s) = Blocked(s)
  BY DEF Bound
<1>5. /\ FormedStatus(Blocked(s)) /\ ArchiveNeeds(c, Blocked(s))
      /\ Blocked(s).archive # "ready" /\ Blocked(s).next # "archive"
      /\ \A bridge, seen : VerifyNeeds(c, Blocked(s), bridge, seen)
  BY <1>2, Answers DEF ArchiveNeeds, VerifyNeeds
<1> QED BY <1>2, <1>3, <1>4, <1>5, AnswerKeeps, SeenStays DEF Is

(* The call's own steps leave what it looks at alone.                      *)
LEMMA SameSight ==
    ASSUME UNCHANGED <<worktree, authority, receipts, binding>>
    PROVE  /\ \A b : BoundHolds(b)' <=> BoundHolds(b)
           /\ \A b : Stands(b)' <=> Stands(b)
           /\ \A b : Settled(b)' <=> Settled(b)
           /\ \A l : Superseded(l)' <=> Superseded(l)
           /\ \A l : Allowed(l)' <=> Allowed(l)
BY DEF BoundHolds, Stands, Settled, Superseded, Allowed, Gate

(* A gate that allows finds its record settled and not superseded.         *)
LEMMA GateFinds ==
    ASSUME AuthorityOK, NEW l, Allowed(l)
    PROVE  /\ ~ Superseded(l) /\ l \in receipts
           /\ \E r \in authority[l] : authority[l] = {r} /\ r.state = "approved"
BY DEF Allowed, Gate

(* The first gate, the second reading, the second gate.                    *)
LEMMA BoundKeeps ==
    ASSUME CallOK, AuthorityOK, Observes, CallStays,
           ValidateBound \/ RereadBound \/ AuthorizeBound
    PROVE  CallOK'
<1>1. CASE \E b \in call.binding : Invalid
  BY <1>1, InvalidKeeps DEF ValidateBound, RereadBound, AuthorizeBound
<1>2. CASE ~ \E b \in call.binding : Invalid
  <2>1. /\ call.pc \in {"bound", "gated", "reread"} /\ FormedCall(call) /\ held \in 0 .. 3
        /\ call.pc \in FirstLook
    BY DEF ValidateBound, RereadBound, AuthorizeBound, CallOK, FirstLook
  <2>2. PICK b \in Bindings : call.binding = {b} /\ Watches(b)
    BY <2>1 DEF CallOK
  <2>3. PICK c, s : /\ call.c = {c} /\ call.status = {s} /\ s = Initial(c)
                    /\ Change(c) /\ FormedStatus(s)
    BY <2>1 DEF CallOK, Concludes
  <2>4. call.todo = {} /\ call.eligible = {} /\ call.bridge = NoBridge
    BY <2>1 DEF CallOK, FirstLook
  <2>5. UNCHANGED <<worktree, authority, receipts, binding>>
    BY DEF CallStays
  <2>6. CASE ValidateBound
    <3>1. BoundHolds(b) /\ call' = [call EXCEPT !.pc = "gated"]
      BY <1>2, <2>2, <2>6 DEF ValidateBound, Becomes
    <3>2. Is(call', "gated", {c}, {b}, {}, {}, NoBridge, {s})
      BY <2>1, <2>2, <2>3, <2>4, <3>1, PhaseEffect
    <3>3. Settled(b)' /\ Holds'
      <4>1. Settled(b) /\ BoundHolds(b)'
        BY <2>5, <3>1, GateFinds, SameSight DEF BoundHolds, Settled
      <4> QED BY <2>5, <3>2, <4>1, SameSight DEF Holds, Is
    <3>4. held' \in 0 .. 3 /\ held' >= 1
      BY <2>1, <3>2, <3>3, SeenStays DEF Is
    <3>5. Watches(b)' /\ Concludes(c, s)'
      BY <2>3, <3>2, <3>3, <3>4 DEF Watches, Concludes, Is
    <3> QED BY <2>2, <2>3, <3>2, <3>4, <3>5 DEF CallOK, Is, CallPhases, FirstLook
  <2>7. CASE RereadBound
    <3>1. /\ call.pc = "gated" /\ UnchangedBinding(b)
          /\ call' = [call EXCEPT !.pc = "reread"]
      BY <1>2, <2>2, <2>7 DEF RereadBound, Becomes
    <3>2. Is(call', "reread", {c}, {b}, {}, {}, NoBridge, {s})
      BY <2>1, <2>2, <2>3, <2>4, <3>1, PhaseEffect
    <3>3. Settled(b)' /\ held >= 1
      BY <2>2, <2>5, <3>1, SameSight DEF Watches
    <3>4. ~ Superseded(b.lineage) => Named'
      <4>1. binding' = {b} /\ (~ Superseded(b.lineage) => Stands(b)')
        BY <2>5, <3>1, <3>3, SameSight DEF Stands, Settled, UnchangedBinding
      <4> QED BY <3>2, <4>1 DEF Named, Is
    <3>5. /\ held' \in 0 .. 3 /\ held' >= 1
          /\ held' >= 2 \/ Superseded(b.lineage)'
      BY <2>1, <2>5, <3>2, <3>3, <3>4, SeenStays, SameSight DEF Is
    <3>6. Watches(b)' /\ Concludes(c, s)'
      BY <2>3, <3>2, <3>3, <3>5 DEF Watches, Concludes, Is
    <3> QED BY <2>2, <2>3, <3>2, <3>5, <3>6 DEF CallOK, Is, CallPhases, FirstLook
  <2>8. CASE AuthorizeBound
    <3> DEFINE t == Bound(c, TRUE, s)
               status == {t}
    <3>1. /\ call.pc = "reread" /\ BoundHolds(b)
          /\ call' = [call EXCEPT !.pc = "act", !.status = status]
      BY <1>2, <2>2, <2>3, <2>8 DEF AuthorizeBound, Becomes
    <3> HIDE DEF status
    <3>2. Is(call', "act", {c}, {b}, {}, {}, NoBridge, status)
      <4>1. Is(call', "act", call.c, call.binding, call.todo, call.eligible, call.bridge,
               status)
        BY <2>1, <3>1, AnswerEffect
      <4> QED BY <2>2, <2>3, <2>4, <4>1
    <3>3. held >= 2
      BY <2>2, <3>1, GateFinds DEF Watches, BoundHolds
    <3>4. Holds'
      BY <2>5, <3>1, <3>2, SameSight DEF Holds, Is
    <3>5. held' = 3
      BY <2>1, <3>2, <3>3, <3>4, SeenStays DEF Is
    <3>6. /\ FormedStatus(Bound(c, TRUE, s)) /\ ArchiveNeeds(c, Bound(c, TRUE, s))
          /\ VerifyNeeds(c, Bound(c, TRUE, s), NoBridge, held' = 3)
      BY <2>3, <3>5, BoundClaims
    <3>7. /\ FormedCall(call') /\ call'.pc = "act" /\ call'.c = {c} /\ call'.status = {t}
          /\ call'.bridge = NoBridge /\ held' \in 0 .. 3
      BY <3>2, <3>5 DEF Is, status
    <3> HIDE DEF t
    <3>8. VerifyNeeds(c, t, call'.bridge, held' = 3)
      BY <3>6, <3>7 DEF t
    <3> QED BY <2>3, <3>5, <3>6, <3>7, <3>8, AnswerKeeps DEF t
  <2> QED BY <2>6, <2>7, <2>8
<1> QED BY <1>1, <1>2

(* The search for an authority.  What it takes is good when it is taken.   *)
LEMMA SearchKeeps ==
    ASSUME CallOK, AuthorityOK, Observes, CallStays,
           ListLeaves \/ \E l \in Lineages : BridgeLeaf(l)
    PROVE  CallOK'
<1>0. /\ call.pc \in {"list", "bridge"} /\ FormedCall(call) /\ held \in 0 .. 3
      /\ UNCHANGED <<worktree, authority, receipts, binding>>
  BY DEF ListLeaves, BridgeLeaf, CallOK, CallStays
<1>1. PICK c, s : /\ call.c = {c} /\ call.status = {s} /\ s = Initial(c)
                  /\ Change(c) /\ FormedStatus(s) /\ Concludes(c, s)
  BY <1>0 DEF CallOK, Concludes, FirstLook
<1>2. ASSUME NEW todo, NEW eligible, NEW bridge,
             Is(call', "bridge", call.c, call.binding, todo, eligible, bridge, call.status),
             NeedsBridge(c) \/ (todo = {} /\ eligible = {} /\ ~ bridge.relevant),
             eligible # {} => held' = 3
      PROVE  CallOK'
  <2>1. held' \in 0 .. 3
    BY <1>0, SeenStays
  <2>2. Concludes(c, s)'
    BY <1>1, <1>2 DEF Concludes, Is, FirstLook
  <2> QED BY <1>1, <1>2, <2>1, <2>2 DEF CallOK, Is, CallPhases, FirstLook
<1>3. CASE ListLeaves
  <2>1. call.pc = "list" /\ call' = [call EXCEPT !.pc = "bridge", !.todo = Leaves]
    BY <1>3 DEF ListLeaves, Becomes
  <2>2. Is(call', "bridge", call.c, call.binding, Leaves, call.eligible, call.bridge,
           call.status)
    BY <1>0, <2>1, ListEffect
  <2>3. call.eligible = {} /\ NeedsBridge(c)
    BY <1>1, <2>1 DEF CallOK, Concludes, FirstLook
  <2> QED BY <1>2, <2>2, <2>3
<1>4. CASE \E l \in Lineages : BridgeLeaf(l)
  <2>1. PICK l \in Lineages : BridgeLeaf(l)
    BY <1>4
  <2> DEFINE next == [call EXCEPT !.todo = call.todo \ {l}]
             found(r) == call.eligible \cup {[lineage |-> l, record |-> r]}
             lost == [NoBridge EXCEPT !.relevant = TRUE]
  <2>2. call.pc = "bridge" /\ l \in call.todo /\ NeedsBridge(c)
    BY <1>1, <2>1 DEF BridgeLeaf, Concludes
  <2>3. PICK r \in authority[l] :
            \/ call' = next
            \/ Allowed(l) /\ call' = [next EXCEPT !.eligible = found(r)]
            \/ call' = [call EXCEPT !.todo = {}, !.eligible = {}, !.bridge = lost]
    <3>1. Is(next, "bridge", call.c, call.binding, call.todo \ {l}, call.eligible, call.bridge,
             call.status)
      BY <1>0, <2>2, SearchEffect
    <3>2. next.eligible = call.eligible
      BY <3>1 DEF Is
    <3> HIDE DEF next
    <3> QED BY <2>1, <3>2 DEF BridgeLeaf, Becomes, next
  <2>4. /\ call'.pc # "idle" => (held = 3 => held' = 3)
        /\ call.eligible # {} => held = 3
    BY <1>0, <2>2, SeenStays DEF CallOK
  <2>5. Is(next, "bridge", call.c, call.binding, call.todo \ {l}, call.eligible, call.bridge,
           call.status)
    BY <1>0, <2>2, SearchEffect
  <2> HIDE DEF next
  <2>6. CASE call' = next
    <3>1. Is(call', "bridge", call.c, call.binding, call.todo \ {l}, call.eligible, call.bridge,
             call.status)
      BY <2>5, <2>6
    <3>2. call.eligible # {} => held' = 3
      BY <2>4, <3>1 DEF Is
    <3> QED BY <1>2, <2>2, <3>1, <3>2
  <2>7. CASE Allowed(l) /\ call' = [next EXCEPT !.eligible = found(r)]
    <3> DEFINE eligible == found(r)
    <3> HIDE DEF eligible
    <3>1. FormedCall(next) /\ call' = [next EXCEPT !.eligible = eligible]
      BY <2>5, <2>7 DEF Is, eligible
    <3>2. Is(call', next.pc, next.c, next.binding, next.todo, eligible, next.bridge,
             next.status)
      BY <3>1, SearchEffect
    <3>3. Is(call', "bridge", call.c, call.binding, call.todo \ {l}, eligible, call.bridge,
             call.status)
      BY <2>5, <3>2 DEF Is
    <3>4. Good'
      <4> DEFINE a == [lineage |-> l, record |-> r]
      <4>1. authority[l] = {r}
        BY <2>3 DEF AuthorityOK
      <4>2. a.lineage = l /\ a.record = r /\ a \in call'.eligible
        BY <3>3 DEF Is, eligible
      <4>3. BoundHolds(a)
        BY <2>7, <4>1, <4>2 DEF BoundHolds
      <4>4. BoundHolds(a)'
        BY <1>0, <4>3, SameSight
      <4> HIDE DEF a
      <4> QED BY <4>2, <4>4 DEF Good
    <3>5. held' = 3
      BY <1>0, <3>3, <3>4, SeenStays DEF Is
    <3> QED BY <1>2, <2>2, <3>3, <3>5
  <2>8. CASE call' = [call EXCEPT !.todo = {}, !.eligible = {}, !.bridge = lost]
    <3> HIDE DEF lost
    <3>1. Is(call', call.pc, call.c, call.binding, {}, {}, lost, call.status)
      BY <1>0, <2>8, SearchEffect
    <3>2. Is(call', "bridge", call.c, call.binding, {}, {}, lost, call.status)
      BY <2>2, <3>1
    <3> QED BY <1>2, <2>2, <3>2
  <2> QED BY <2>3, <2>6, <2>7, <2>8
<1> QED BY <1>3, <1>4

(* The search ends: what it found decides the answer, unless a receipt is  *)
(* needed.                                                                 *)
LEMMA RouteKeeps ==
    ASSUME CallOK, Observes, CallStays, Route
    PROVE  CallOK'
<1>0. call.pc = "bridge" /\ FormedCall(call) /\ held \in 0 .. 3 /\ call.todo = {}
  BY DEF Route, CallOK
<1>1. PICK c, s : /\ call.c = {c} /\ call.status = {s} /\ s = Initial(c)
                  /\ Change(c) /\ FormedStatus(s) /\ Concludes(c, s)
  BY <1>0 DEF CallOK, Concludes, FirstLook
<1> DEFINE routed == IF home = "openspec" THEN Unbound(c, Bridge, s) ELSE Routed(c, s)
           status == {routed}
           bridge == Bridge
           pc == IF GateNeeded(c, routed) THEN "receipt" ELSE "act"
<1>2. call' = [call EXCEPT !.status = status, !.bridge = bridge, !.eligible = {}, !.pc = pc]
  BY <1>1 DEF Route, Becomes
<1>3. /\ bridge.eligible \in BOOLEAN /\ bridge.relevant \in BOOLEAN
      /\ bridge.eligible => call.eligible # {}
      /\ bridge.relevant => call.bridge.relevant \/ call.eligible # {}
  <2>1. CASE call.bridge.relevant \/ Cardinality(call.eligible) # 1
    <3>1. bridge = [eligible |-> FALSE,
                    relevant |-> call.bridge.relevant \/ call.eligible # {},
                    revision |-> NoEvidence]
      BY <2>1 DEF Bridge, NoBridge
    <3> QED BY <3>1
  <2>2. CASE ~ (call.bridge.relevant \/ Cardinality(call.eligible) # 1)
    <3>1. bridge = [eligible |-> TRUE, relevant |-> FALSE, revision |-> call.eligible]
      BY <2>2 DEF Bridge
    <3>2. call.eligible # {}
      BY <2>2, FS_EmptySet
    <3> QED BY <3>1, <3>2
  <2> QED BY <2>1, <2>2
<1>4. /\ bridge.eligible => held = 3
      /\ bridge.eligible \/ bridge.relevant => NeedsBridge(c)
  BY <1>0, <1>1, <1>3 DEF CallOK, Concludes
<1> DEFINE seen == held = 3
<1>5. /\ FormedStatus(routed) /\ ArchiveNeeds(c, routed)
      /\ VerifyNeeds(c, routed, bridge, seen)
      /\ routed.verify = "all_done" => routed.next # "verify"
  <2> HIDE DEF bridge
  <2>1. /\ FormedStatus(Unbound(c, bridge, s)) /\ ArchiveNeeds(c, Unbound(c, bridge, s))
        /\ VerifyNeeds(c, Unbound(c, bridge, s), bridge, seen)
        /\ Unbound(c, bridge, s).verify = "all_done" =>
              Unbound(c, bridge, s).next # "verify"
    BY <1>1, <1>3, <1>4, UnboundClaims
  <2>2. /\ FormedStatus(Routed(c, s)) /\ ArchiveNeeds(c, Routed(c, s))
        /\ VerifyNeeds(c, Routed(c, s), bridge, seen)
        /\ Routed(c, s).verify = "all_done" => Routed(c, s).next # "verify"
    BY <1>1, RoutedClaims DEF VerifyNeeds
  <2>3. routed = Unbound(c, bridge, s) \/ routed = Routed(c, s)
    BY DEF bridge
  <2> QED BY <2>1, <2>2, <2>3
<1> HIDE DEF routed, bridge, pc, seen
<1>6. Is(call', pc, {c}, call.binding, {}, {}, bridge, status)
  <2> HIDE DEF status
  <2>1. Is(call', pc, call.c, call.binding, call.todo, {}, bridge, status)
    BY <1>0, <1>2, RouteEffect
  <2> QED BY <1>0, <1>1, <2>1
<1>7. held' \in 0 .. 3 /\ (pc # "idle" /\ held = 3 => held' = 3)
  BY <1>0, <1>6, SeenStays DEF Is
<1>8. CASE GateNeeded(c, routed)
  <2>1. pc = "receipt" /\ routed.verify = "all_done"
    BY <1>8 DEF GateNeeded, pc
  <2>2. /\ FormedCall(call') /\ call'.pc = "receipt" /\ call'.c = {c}
        /\ call'.status = {routed}
    BY <1>6, <2>1 DEF Is, status
  <2> QED BY <1>1, <1>5, <1>7, <2>1, <2>2, ReceiptKeeps
<1>9. CASE ~ GateNeeded(c, routed)
  <2>1. pc = "act"
    BY <1>9 DEF pc
  <2>2. routed.archive # "ready" /\ routed.next # "archive"
    BY <1>5, <1>9 DEF ArchiveNeeds, GateNeeded
  <2>3. VerifyNeeds(c, routed, bridge, held' = 3)
    BY <1>5, <1>7, <2>1 DEF VerifyNeeds, seen
  <2>4. /\ FormedCall(call') /\ call'.pc = "act" /\ call'.c = {c} /\ call'.status = {routed}
        /\ call'.bridge = bridge
    BY <1>6, <2>1 DEF Is, status
  <2> QED BY <1>1, <1>5, <1>7, <2>2, <2>3, <2>4, AnswerKeeps
<1> QED BY <1>8, <1>9

(* The receipt and its gate: an archive that stays ready was allowed.      *)
LEMMA GateKeeps ==
    ASSUME CallOK, AuthorityOK, Observes, CallStays, FindReceipt \/ ReviewGate
    PROVE  CallOK'
<1>0. /\ call.pc \in {"receipt", "gate"} /\ FormedCall(call) /\ held \in 0 .. 3
      /\ UNCHANGED <<worktree, authority, receipts, binding>>
  BY DEF FindReceipt, ReviewGate, CallOK, CallStays
<1>1. PICK c, s : /\ call.c = {c} /\ call.status = {s} /\ Change(c) /\ FormedStatus(s)
                  /\ s.verify = "all_done" /\ s.next # "verify" /\ ArchiveNeeds(c, s)
  BY <1>0 DEF CallOK, Concludes
<1>2. /\ FormedStatus(GateBlocked(s)) /\ GateBlocked(s).verify = "all_done"
      /\ GateBlocked(s).archive = "blocked" /\ GateBlocked(s).next = "resolve-review"
  BY <1>1, Answers
<1>3. ASSUME NEW t \in {s, GateBlocked(s)}, NEW status, status = {t},
             call' = [call EXCEPT !.pc = "act", !.status = status],
             t.archive = "ready" \/ t.next = "archive" => \E l \in call.todo : Allowed(l)
      PROVE  CallOK'
  <2>1. Is(call', "act", call.c, call.binding, call.todo, call.eligible, call.bridge, status)
    BY <1>0, <1>3, AnswerEffect
  <2>2. /\ FormedCall(call') /\ call'.pc = "act" /\ call'.c = {c} /\ call'.status = {t}
        /\ call'.bridge = call.bridge /\ call'.todo = call.todo
    BY <1>1, <1>3, <2>1 DEF Is
  <2>3. t.archive = "ready" \/ t.next = "archive" => Good'
    <3>1. \A l : Allowed(l)' <=> Allowed(l)
      BY <1>0, SameSight
    <3> QED BY <1>3, <2>2, <3>1 DEF Good
  <2>4. /\ held' \in 0 .. 3
        /\ t.archive = "ready" \/ t.next = "archive" => held' = 3
    BY <1>0, <2>2, <2>3, SeenStays
  <2>5. FormedStatus(t) /\ ArchiveNeeds(c, t) /\ VerifyNeeds(c, t, call'.bridge, held' = 3)
    BY <1>1, <1>2 DEF ArchiveNeeds, VerifyNeeds
  <2> QED BY <1>1, <2>2, <2>4, <2>5, AnswerKeeps
<1> DEFINE blocked == {GateBlocked(s)}
<1>4. CASE call' = [call EXCEPT !.pc = "act", !.status = blocked]
  BY <1>2, <1>3, <1>4
<1>5. CASE FindReceipt
  <2>1. PICK found : \/ call' = [call EXCEPT !.pc = "gate", !.todo = found]
                     \/ call' = [call EXCEPT !.pc = "act", !.status = blocked]
    BY <1>1, <1>5 DEF FindReceipt, Becomes
  <2>2. CASE call' = [call EXCEPT !.pc = "gate", !.todo = found]
    <3>1. Is(call', "gate", call.c, call.binding, found, call.eligible, call.bridge,
             call.status)
      BY <1>0, <2>2, ListEffect
    <3>2. /\ FormedCall(call') /\ call'.pc = "gate" /\ call'.c = {c} /\ call'.status = {s}
      BY <1>1, <3>1 DEF Is
    <3>3. held' \in 0 .. 3
      BY <1>0, SeenStays
    <3> QED BY <1>1, <3>2, <3>3, ReceiptKeeps
  <2> QED BY <1>4, <2>1, <2>2
<1>6. CASE ReviewGate
  <2>1. PICK l \in call.todo :
            call' = [call EXCEPT !.pc = "act",
                                 !.status = {IF Delivers(l) THEN s ELSE GateBlocked(s)}]
    BY <1>1, <1>6 DEF ReviewGate, Becomes
  <2> DEFINE kept == {s}
  <2>2. CASE Delivers(l)
    <3>1. call' = [call EXCEPT !.pc = "act", !.status = kept]
      BY <2>1, <2>2
    <3> QED BY <1>3, <2>2, <3>1 DEF Delivers
  <2>3. CASE ~ Delivers(l)
    BY <1>4, <2>1, <2>3
  <2> QED BY <2>2, <2>3
<1> QED BY <1>5, <1>6

(* A call begins with the change as it is, and ends when the agent acts.   *)
LEMMA CallBegins ==
    ASSUME CallOK, BindingOK, Change(change), Observes, Read
    PROVE  CallOK'
<1>0. PICK c : c = change /\ Change(c)
  OBVIOUS
<1> DEFINE status == {Initial(c)}
           read == IF home = "openspec" THEN binding ELSE {}
           pc == IF home = "openspec" /\ binding # {} THEN "bound"
                 ELSE IF home = "openspec" /\ NeedsBridge(c) THEN "list" ELSE "bridge"
           k == [Waiting EXCEPT !.c = {c}, !.status = status]
<1>1. call' = [k EXCEPT !.binding = read, !.pc = pc]
  BY <1>0 DEF Read, Becomes
<1>2. Is(k, "idle", {c}, {}, {}, {}, NoBridge, status)
  <2> HIDE DEF status
  <2> QED BY DEF Waiting, Is, FormedCall
<1>3. Is(call', pc, {c}, read, {}, {}, NoBridge, status)
  <2> HIDE DEF k, read, pc, status
  <2> QED BY <1>1, <1>2 DEF Is, FormedCall
<1>4. held' \in 0 .. 3
  BY SeenStays DEF CallOK
<1>5. FormedStatus(Initial(c))
  BY <1>0, InitialClaims
<1>6. pc \in {"bound", "list", "bridge"} /\ (pc = "list" => NeedsBridge(c))
  OBVIOUS
<1>7. pc = "bound" => \E b \in Bindings : read = {b}
  BY DEF BindingOK
<1> HIDE DEF pc, read
<1>8. Concludes(c, Initial(c))'
  BY <1>3, <1>6 DEF Concludes, Is, NoBridge
<1>9. ASSUME NEW b \in Bindings, pc = "bound" PROVE Watches(b)'
  BY <1>3, <1>9 DEF Watches, Is
<1>10. CASE pc = "bound"
  <2>1. PICK b \in Bindings : read = {b}
    BY <1>7, <1>10
  <2>2. Watches(b)'
    BY <1>9, <1>10
  <2> QED BY <1>0, <1>3, <1>4, <1>5, <1>8, <1>10, <2>1, <2>2
          DEF CallOK, Is, CallPhases, FirstLook
<1>11. CASE pc # "bound"
  <2> QED BY <1>0, <1>3, <1>4, <1>5, <1>6, <1>8, <1>11 DEF CallOK, Is, CallPhases, FirstLook
<1> QED BY <1>10, <1>11

---------------------------------------------------------------------------
(* The binders. *)

(* One binder moves; the others are outside their critical sections or     *)
(* nothing changes for them.                                               *)
LEMMA BinderMoves ==
    ASSUME BindingOK, NEW b \in Binders, NEW local \in Binding, Goes(b, local),
           binding' \in SUBSET Bindings, \A x, y \in binding' : x = y,
           local.pc = "idle" => local.new = {},
           local.pc # "idle" => \E x \in Bindings : local.new = {x},
           local.pc = "compared" => lock' = {b} /\ binding' = local.expected,
           \A c \in Binders : c # b /\ binder[c].pc = "compared" =>
               UNCHANGED <<lock, binding>>
    PROVE  BindingOK'
<1>1. /\ DOMAIN binder' = Binders /\ binder'[b] = local
      /\ \A c \in Binders : c # b => binder'[c] = binder[c]
      /\ binder' = [c \in Binders |-> binder'[c]]
  BY DEF BindingOK, Goes
<1>2. ASSUME NEW c \in Binders PROVE Publishes(c)'
  <2>1. CASE c = b
    BY <1>1, <2>1 DEF Publishes
  <2>2. CASE c # b
    BY <1>1, <2>2 DEF BindingOK, Publishes
  <2> QED BY <2>1, <2>2
<1> QED BY <1>1, <1>2 DEF BindingOK

(* No step of a binder breaks the compare or the swap.                     *)
LEMMA BinderKeeps ==
    ASSUME BindingOK, AuthorityOK, NEW b \in Binders,
           \/ BindStep(b) \/ BindDies(b)
           \/ \E l \in Lineages, expected \in {binding, {}} : BindRead(b, l, expected)
    PROVE  BindingOK'
<1>0. /\ Publishes(b) /\ binder[b] \in Binding /\ Unbinding \in Binding
      /\ binding \in SUBSET Bindings /\ \A x, y \in binding : x = y
  BY DEF BindingOK, Publishes, Binding, Unbinding, BinderPhases
<1>a. ASSUME NEW phase \in BinderPhases
      PROVE  LET local == [binder[b] EXCEPT !.pc = phase] IN
             /\ local \in Binding /\ local.pc = phase /\ local.new = binder[b].new
             /\ local.expected = binder[b].expected
  BY <1>0 DEF Binding
<1>b. \A c \in Binders : c # b /\ binder[c].pc = "compared" => lock = {c}
  BY DEF BindingOK, Publishes
<1>1. CASE \E l \in Lineages, expected \in {binding, {}} : BindRead(b, l, expected)
  <2>1. PICK l \in Lineages, expected \in {binding, {}} : BindRead(b, l, expected)
    BY <1>1
  <2>2. PICK r \in authority[l] :
            Goes(b, [Unbinding EXCEPT !.pc = "read", !.expected = expected,
                                      !.new = {[lineage |-> l, record |-> r]}])
    BY <2>1 DEF BindRead
  <2> DEFINE x == [lineage |-> l, record |-> r]
             local == [Unbinding EXCEPT !.pc = "read", !.expected = expected, !.new = {x}]
  <2>3. x \in Bindings
    BY DEF AuthorityOK, Bindings
  <2>4. local \in Binding /\ local.pc = "read" /\ local.new = {x}
    <3> HIDE DEF x
    <3> QED BY <1>0, <2>3 DEF Binding, Unbinding, BinderPhases
  <2>5. UNCHANGED <<binding, lock>>
    BY <2>1 DEF BindRead
  <2> HIDE DEF local, x
  <2>6. Goes(b, local)
    BY <2>2 DEF local, x
  <2> QED BY <1>0, <2>3, <2>4, <2>5, <2>6, BinderMoves
<1>2. ASSUME Goes(b, Unbinding), binding' = binding,
             \A c \in Binders : c # b /\ binder[c].pc = "compared" => lock' = lock
      PROVE  BindingOK'
  BY <1>0, <1>2, BinderMoves DEF Unbinding
<1>3. CASE BindConfirm(b)
  <2>1. UNCHANGED <<binding, lock>> /\ binder[b].pc = "read"
    BY <1>3 DEF BindConfirm
  <2>2. CASE Goes(b, Unbinding)
    BY <1>2, <2>1, <2>2
  <2>3. CASE Goes(b, [binder[b] EXCEPT !.pc = "confirmed"])
    <3>1. "confirmed" \in BinderPhases
      BY DEF BinderPhases
    <3> QED BY <1>0, <1>a, <2>1, <2>3, <3>1, BinderMoves DEF Publishes
  <2> QED BY <1>3, <2>2, <2>3 DEF BindConfirm
<1>4. CASE BindCompare(b)
  <2>1. binding' = binding /\ binder[b].pc = "confirmed" /\ lock = {}
    BY <1>4 DEF BindCompare, MayCompare
  <2>2. \A c \in Binders : ~ (c # b /\ binder[c].pc = "compared")
    BY <1>b, <2>1
  <2>3. "done" \in BinderPhases /\ "compared" \in BinderPhases
    BY DEF BinderPhases
  <2>4. CASE Goes(b, [binder[b] EXCEPT !.pc = "done"])
    BY <1>0, <1>a, <2>1, <2>2, <2>3, <2>4, BinderMoves DEF Publishes
  <2>5. CASE /\ Goes(b, [binder[b] EXCEPT !.pc = "compared"])
             /\ lock' = {b} /\ Compares(binder[b], binding)
    BY <1>0, <1>a, <2>1, <2>2, <2>3, <2>5, BinderMoves DEF Publishes, Compares
  <2>6. CASE Goes(b, Unbinding)
    BY <1>2, <2>1, <2>2, <2>6
  <2> QED BY <1>4, <2>4, <2>5, <2>6 DEF BindCompare
<1>5. CASE BindRefused(b) \/ BindReturn(b)
  BY <1>2, <1>5 DEF BindRefused, BindReturn
<1>6. CASE BindPublish(b)
  <2>1. /\ binder[b].pc = "compared" /\ binding' = binder[b].new
        /\ Goes(b, [binder[b] EXCEPT !.pc = "done"])
    BY <1>6 DEF BindPublish
  <2>2. \A c \in Binders : ~ (c # b /\ binder[c].pc = "compared")
    BY <1>0, <1>b, <2>1 DEF Publishes
  <2>3. "done" \in BinderPhases /\ \E x \in Bindings : binder[b].new = {x}
    BY <1>0, <2>1 DEF Publishes, BinderPhases
  <2> DEFINE local == [binder[b] EXCEPT !.pc = "done"]
  <2>4. local \in Binding /\ local.pc = "done" /\ local.new = binder[b].new
    BY <1>a, <2>3
  <2>5. binding' \in SUBSET Bindings /\ \A x, y \in binding' : x = y
    BY <2>1, <2>3
  <2> HIDE DEF local
  <2>6. Goes(b, local)
    BY <2>1 DEF local
  <2> QED BY <2>2, <2>3, <2>4, <2>5, <2>6, BinderMoves
<1>7. CASE BindDies(b)
  <2>1. Goes(b, Unbinding) /\ binding' = binding /\ binder[b].pc = "compared"
    BY <1>7 DEF BindDies
  <2>2. \A c \in Binders : ~ (c # b /\ binder[c].pc = "compared")
    BY <1>0, <1>b, <2>1 DEF Publishes
  <2> QED BY <1>2, <2>1, <2>2
<1> QED BY <1>1, <1>3, <1>4, <1>5, <1>6, <1>7 DEF BindStep

---------------------------------------------------------------------------
(* The change. *)

(* What the agent and the user do to the artifacts keeps their form.       *)
LEMMA ChangeEffect ==
    ASSUME NEW c, Change(c), NEW x \in Planning, NEW v
    PROVE  /\ Change([c EXCEPT !.planning = c.planning \cup {x}])
           /\ Change([c EXCEPT !.report = v])
           /\ Change([c EXCEPT !.progress = v])
           /\ Change([c EXCEPT !.tasks = v])
BY DEF Change

(* The agent does what it was told, and its call is over.                  *)
LEMMA ActKeeps ==
    ASSUME AuthorityOK, Change(change), Observes, Act
    PROVE  CallOK' /\ Change(change)' /\ worktree' \in Trees
<1>1. call' = Waiting
  BY DEF Act, Plan, Apply, Verify, Remediate, Await, Archive, Does, Becomes
<1>2. CallOK'
  <2>1. held' = 0 /\ Is(call', "idle", {}, {}, {}, {}, NoBridge, {})
    BY <1>1 DEF Observes, Waiting, Is, FormedCall
  <2> QED BY <2>1 DEF CallOK, Is, CallPhases, FirstLook
<1>3. /\ Change(change')
      /\ worktree' \in Trees
  <2>1. CASE Plan
    <3>1. PICK x \in Planning : change' = [change EXCEPT !.planning = @ \cup {x}]
      BY <2>1 DEF Plan, Planning
    <3> QED BY <2>1, <3>1, ChangeEffect DEF Plan, AuthorityOK
  <2>2. CASE Apply
    <3>1. PICK v : change' = [change EXCEPT !.tasks = v]
      BY <2>2 DEF Apply
    <3>2. \E x : x \in Planning
      BY DEF Planning
    <3>3. Change([change EXCEPT !.tasks = v])
      BY <3>2, ChangeEffect
    <3>4. worktree' \in Trees
      BY <2>2 DEF Apply
    <3> QED BY <3>1, <3>3, <3>4
  <2>3. CASE Verify
    <3>1. PICK v : change' = [change EXCEPT !.report = v]
      BY <2>3 DEF Verify
    <3>2. \E x : x \in Planning
      BY DEF Planning
    <3> QED BY <2>3, <3>1, <3>2, ChangeEffect DEF Verify, AuthorityOK
  <2>4. CASE Remediate
    <3>1. PICK v : change' = [change EXCEPT !.progress = v]
      BY <2>4 DEF Remediate
    <3>2. \E x : x \in Planning
      BY DEF Planning
    <3> QED BY <2>4, <3>1, <3>2, ChangeEffect DEF Remediate, AuthorityOK
  <2>5. CASE Await \/ Archive
    BY <2>5 DEF Await, Archive, AuthorityOK
  <2> QED BY <2>1, <2>2, <2>3, <2>4, <2>5 DEF Act
<1> QED BY <1>2, <1>3

(* Somebody edits the files or reopens a task.                             *)
LEMMA DisturbKeeps ==
    ASSUME AuthorityOK, Change(change), Disturb
    PROVE  Change(change)' /\ worktree' \in Trees
<1>1. CASE UNCHANGED change
  BY <1>1 DEF Disturb, AuthorityOK
<1>2. CASE change' = [change EXCEPT !.tasks.pending = 1] /\ UNCHANGED worktree
  <2>1. PICK v : change' = [change EXCEPT !.tasks = v]
    BY <1>2
  <2>2. \E x : x \in Planning
    BY DEF Planning
  <2>3. Change([change EXCEPT !.tasks = v])
    BY <2>2, ChangeEffect
  <2>4. Change(change')
    BY <2>1, <2>3
  <2> QED BY <1>2, <2>4 DEF AuthorityOK
<1> QED BY <1>1, <1>2 DEF Disturb

---------------------------------------------------------------------------
(* The system. *)

LEMMA SddInit == Init => SddIInv
<1> SUFFICES ASSUME Init PROVE SddIInv
  OBVIOUS
<1>1. PICK x \in Settings :
          /\ home = x.home /\ scopes = x.scopes
          /\ disturbances = MaxDisturbances - x.disturbances
          /\ change = [planning |-> Planning \ {"tasks"},
                       tasks |-> [total |-> 1, pending |-> 1],
                       specs |-> [requirements |-> 1, scenarios |-> 1],
                       report |-> {}, progress |-> {},
                       transaction |-> x.transaction, mirror |-> x.mirror]
  BY DEF Init
<1>2. AuthorityOK
  BY <1>1, LineagesAssumption, SettingsAssumption DEF Init, AuthorityOK
<1>3. BindingOK
  BY DEF Init, BindingOK, Publishes, Binding, BinderPhases, Unbinding
<1>4. Change(change)
  BY <1>1 DEF Change
<1>5. CallOK
  <2>1. held = 0 /\ Is(call, "idle", {}, {}, {}, {}, NoBridge, {})
    BY DEF Init, Waiting, Is, FormedCall
  <2> QED BY <2>1 DEF CallOK, Is, CallPhases, FirstLook
<1> QED BY <1>2, <1>3, <1>4, <1>5 DEF SddIInv

(* Every step preserves it. *)
LEMMA SddStep == SddIInv /\ [Next]_vars => SddIInv'
<1> SUFFICES ASSUME SddIInv, [Next]_vars PROVE SddIInv'
  OBVIOUS
<1>0. AuthorityOK /\ BindingOK /\ CallOK /\ Change(change)
  BY DEF SddIInv
<1>a. UNCHANGED <<authority, receipts, worktree, scopes>> =>
          AuthorityOK' /\ (\A b \in Bindings : Settled(b) => Settled(b)')
                       /\ (\A l : Superseded(l) => Superseded(l)')
  BY <1>0 DEF AuthorityOK, Settled, Superseded
<1>b. UNCHANGED <<binding, binder, lock>> => BindingOK'
  BY <1>0 DEF BindingOK, Publishes
<1>c. UNCHANGED change => Change(change)'
  BY <1>0
<1>d. ASSUME AuthorityOK', Observes, call' = call,
             \A b \in Bindings : Settled(b) => Settled(b)',
             \A l : Superseded(l) => Superseded(l)'
      PROVE  CallOK'
  BY <1>0, <1>d, OthersKeep
<1>1. CASE Ongoing(Command)
  <2>1. Command /\ Observes /\ UNCHANGED <<change, binding, binder, lock, call>>
    BY <1>1 DEF Ongoing, Observes, Command
  <2>2. AuthorityStep
    BY <1>0, <2>1, CommandKeeps
  <2> QED BY <1>b, <1>c, <1>d, <2>1, <2>2 DEF SddIInv, AuthorityStep
<1>2. CASE Ongoing(Disturb)
  <2>1. Disturb /\ Observes /\ UNCHANGED <<authority, receipts, scopes, binding, binder, lock, call>>
    BY <1>2 DEF Ongoing, Observes, Disturb
  <2>2. Change(change)' /\ worktree' \in Trees
    BY <1>0, <2>1, DisturbKeeps
  <2>3. /\ AuthorityOK' /\ \A b \in Bindings : Settled(b) => Settled(b)'
        /\ \A l : Superseded(l) => Superseded(l)'
    BY <1>0, <2>1, <2>2 DEF AuthorityOK, Settled, Superseded
  <2> QED BY <1>b, <1>d, <2>1, <2>2, <2>3 DEF SddIInv
<1>3. CASE Ongoing(Read)
  <2>1. /\ Read /\ Observes
        /\ UNCHANGED <<authority, receipts, worktree, scopes, change, binding, binder, lock>>
    BY <1>3 DEF Ongoing, Observes, Read, CallStays
  <2> QED BY <1>0, <1>a, <1>b, <1>c, <2>1, CallBegins DEF SddIInv
<1>4. CASE Ongoing(StatusStep)
  <2>1. StatusStep /\ Observes /\ CallStays
    BY <1>4 DEF Ongoing, Observes, StatusStep, ValidateBound, RereadBound, AuthorizeBound,
                ListLeaves, BridgeLeaf, Route, FindReceipt, ReviewGate
  <2>2. UNCHANGED <<authority, receipts, worktree, scopes, change, binding, binder, lock>>
    BY <2>1 DEF CallStays
  <2>3. CallOK'
    BY <1>0, <2>1, BoundKeeps, SearchKeeps, RouteKeeps, GateKeeps DEF StatusStep
  <2> QED BY <1>a, <1>b, <1>c, <2>2, <2>3 DEF SddIInv
<1>5. CASE Ongoing(Act)
  <2>1. /\ Act /\ Observes /\ UNCHANGED <<authority, receipts, scopes, binding, binder, lock>>
    BY <1>5 DEF Ongoing, Observes, Act, Plan, Apply, Verify, Remediate, Await,
                Archive, ActStays
  <2>2. CallOK' /\ Change(change)' /\ worktree' \in Trees
    BY <1>0, <2>1, ActKeeps
  <2>3. AuthorityOK'
    BY <1>0, <2>1, <2>2 DEF AuthorityOK
  <2> QED BY <1>b, <2>1, <2>2, <2>3 DEF SddIInv
<1>6. CASE \E b \in Binders :
              \/ Ongoing(BindStep(b)) \/ Ongoing(BindDies(b))
              \/ \E l \in Lineages, expected \in {binding, {}} :
                    Ongoing(BindRead(b, l, expected))
  <2>1. PICK b \in Binders :
              \/ Ongoing(BindStep(b)) \/ Ongoing(BindDies(b))
              \/ \E l \in Lineages, expected \in {binding, {}} :
                    Ongoing(BindRead(b, l, expected))
    BY <1>6
  <2>2. /\ \/ BindStep(b) \/ BindDies(b)
           \/ \E l \in Lineages, expected \in {binding, {}} : BindRead(b, l, expected)
        /\ Observes
    BY <2>1 DEF Ongoing, Observes
  <2>3. UNCHANGED <<authority, receipts, worktree, scopes, change, call>>
    BY <2>2 DEF BindStep, BindDies, BindRead, BindConfirm, BindCompare, BindRefused,
                BindPublish, BindReturn, BindStays
  <2>4. BindingOK'
    BY <1>0, <2>2, BinderKeeps
  <2> QED BY <1>a, <1>c, <1>d, <2>2, <2>3, <2>4 DEF SddIInv
<1>7. CASE UNCHANGED vars
  <2>1. UNCHANGED <<authority, receipts, worktree, scopes, change, binding, binder, lock, call,
                    held>>
    BY <1>7 DEF vars
  <2>2. CallOK'
    BY <1>0, <2>1 DEF CallOK, Concludes, Watches, Settled, Superseded
  <2> QED BY <1>a, <1>b, <1>c, <2>1, <2>2 DEF SddIInv
<1> QED BY <1>1, <1>2, <1>3, <1>4, <1>5, <1>6, <1>7 DEF Next

(* What the status has found out, and what binders own, in every state.    *)
THEOREM SddInvariance == Spec => []SddIInv
BY SddInit, SddStep, PTL DEF Spec

(* sdd-status-contract.md: no archive is recommended without a strict      *)
(* verification, complete tasks and an authority that was good during the  *)
(* call, whatever moved meanwhile.                                         *)
THEOREM ArchiveSafety == Spec => []ArchiveIsEarned
<1>1. SddIInv => ArchiveIsEarned
  <2> SUFFICES ASSUME SddIInv, call.pc = "act", NEW c \in call.c, NEW s \in call.status,
                      s.archive = "ready" \/ s.next = "archive"
               PROVE  Verified(c) /\ AllComplete(c) /\ CoreReady(c) /\ held = 3
    BY DEF ArchiveIsEarned
  <2>1. Concludes(c, s)
    BY DEF SddIInv, CallOK
  <2> QED BY <2>1 DEF Concludes, ArchiveNeeds
<1> QED BY <1>1, SddInvariance, PTL

(* No verification is recommended but for an applied change that has not   *)
(* passed it: a first one on an authority that was good during the call or *)
(* for a v1 transaction that waits for it; one after a failed report only  *)
(* on another review than it was denied on, or with the complete           *)
(* remediation of that failure.  All other failures stay blocked, whether  *)
(* a transaction waits or not.                                             *)
THEOREM VerificationSafety == Spec => []VerifyIsEarned
<1>1. SddIInv => VerifyIsEarned
  <2> SUFFICES ASSUME SddIInv, call.pc = "act", NEW c \in call.c, NEW s \in call.status,
                      s.verify = "ready" \/ s.next = "verify"
               PROVE  /\ ApplyState(c) = "all_done" /\ ~ Verified(c)
                      /\ c.report = {} => held = 3 \/ V1Waits(c)
                      /\ c.report # {} =>
                            \E report \in c.report :
                               Reauthorized(report) \/ Remediated(c, report)
    BY DEF VerifyIsEarned
  <2>1. Concludes(c, s)
    BY DEF SddIInv, CallOK
  <2> QED BY <2>1 DEF Concludes, VerifyNeeds, Reauthorized
<1> QED BY <1>1, SddInvariance, PTL

---------------------------------------------------------------------------
(* The binding as a register. *)

Swaps == [b \in Binders |->
             {[expected |-> binder[b].expected, binding |-> new,
               done |-> binder[b].pc = "done"] : new \in binder[b].new}]

(* The call of a binder, as the register sees it. *)
SwapOf(k) == {[expected |-> k.expected, binding |-> new, done |-> k.pc = "done"] : new \in k.new}

(* A binder's step changes its own call only.                              *)
LEMMA SwapMoves ==
    ASSUME BindingOK, NEW b \in Binders, NEW local, Goes(b, local)
    PROVE  Swaps' = [Swaps EXCEPT ![b] = SwapOf(local)]
<1>1. \A c \in Binders : binder'[c] = IF c = b THEN local ELSE binder[c]
  BY DEF BindingOK, Goes
<1>2. Swaps' = [c \in Binders |-> SwapOf(binder'[c])] /\ Swaps = [c \in Binders |-> SwapOf(binder[c])]
  BY DEF Swaps, SwapOf
<1> QED BY <1>1, <1>2

(* A call that is over is one that was answered.                           *)
LEMMA CallEnds ==
    ASSUME NEW expected, NEW x, NEW before, NEW after
    PROVE  [[expected |-> expected, binding |-> x, done |-> before] EXCEPT !.done = after]
               = [expected |-> expected, binding |-> x, done |-> after]
  OBVIOUS

(* The call of a publication that has swapped.                             *)
LEMMA SwapOfDone ==
    ASSUME NEW local, NEW x, local.pc = "done", local.new = {x}
    PROVE  SwapOf(local) = {[expected |-> local.expected, binding |-> x, done |-> TRUE]}
  BY DEF SwapOf

(* A binder that asks, swaps, answers or gives up.                         *)
LEMMA BinderImplements ==
    ASSUME SddIInv, NEW b \in Binders,
           \/ BindStep(b) \/ BindDies(b)
           \/ \E l \in Lineages, expected \in {binding, {}} : BindRead(b, l, expected)
    PROVE  UNCHANGED <<binding, Swaps>> \/ Register!Next
<1>0. BindingOK /\ BindingOK' /\ Publishes(b) /\ Swaps[b] = SwapOf(binder[b]) /\ AuthorityOK
  BY BinderKeeps DEF SddIInv, BindingOK, Swaps, SwapOf
<1>a. ASSUME NEW local, Goes(b, local) PROVE Swaps' = [Swaps EXCEPT ![b] = SwapOf(local)]
  BY <1>0, <1>a, SwapMoves
<1>b. DOMAIN Swaps = Binders /\ Swaps = [c \in Binders |-> Swaps[c]]
  BY DEF Swaps
<1>c. SwapOf(Unbinding) = {}
  BY DEF SwapOf, Unbinding
<1>1. ASSUME Swaps[b] # {}, Goes(b, Unbinding), binding' = binding
      PROVE  Register!Next
  <2>1. Swaps' = [Swaps EXCEPT ![b] = {}]
    BY <1>1, <1>a, <1>c
  <2>2. Register!Return(b)
    BY <1>1, <2>1 DEF Register!Return, Swaps
  <2> QED BY <2>2 DEF Register!Next
<1>d. ASSUME NEW phase \in BinderPhases
      PROVE  LET local == [binder[b] EXCEPT !.pc = phase] IN
             local.pc = phase /\ local.new = binder[b].new
             /\ local.expected = binder[b].expected
  BY <1>0 DEF Publishes, Binding
<1>e. binder[b].pc # "idle" => \E x \in Bindings : binder[b].new = {x}
  BY <1>0 DEF Publishes
<1>f. ASSUME NEW x \in Bindings, binder[b].new = {x}, binder[b].pc # "done"
      PROVE  Swaps[b] = {[expected |-> binder[b].expected, binding |-> x, done |-> FALSE]}
  BY <1>0, <1>f DEF SwapOf
<1>2. ASSUME NEW phase \in BinderPhases, phase # "done", binder[b].pc # "done",
             Goes(b, [binder[b] EXCEPT !.pc = phase]), binding' = binding
      PROVE  UNCHANGED <<binding, Swaps>>
  <2>1. SwapOf([binder[b] EXCEPT !.pc = phase]) = SwapOf(binder[b])
    BY <1>2, <1>d DEF SwapOf
  <2>2. Swaps' = [Swaps EXCEPT ![b] = Swaps[b]]
    BY <1>0, <1>2, <1>a, <2>1
  <2> QED BY <1>2, <1>b, <2>2
<1>3. ASSUME NEW x \in Bindings, binder[b].new = {x}, binder[b].pc # "done",
             Goes(b, [binder[b] EXCEPT !.pc = "done"]),
             binding \in {binder[b].expected, {x}}, binding' = {x}
      PROVE  Register!Next
  <2> DEFINE call1 == [expected |-> binder[b].expected, binding |-> x, done |-> FALSE]
             call2 == [expected |-> binder[b].expected, binding |-> x, done |-> TRUE]
  <2>1. Swaps[b] = {call1}
    BY <1>3, <1>f
  <2>2. "done" \in BinderPhases
    BY DEF BinderPhases
  <2>3. SwapOf([binder[b] EXCEPT !.pc = "done"]) = {call2}
    <3> DEFINE local == [binder[b] EXCEPT !.pc = "done"]
    <3>1. local.pc = "done" /\ local.new = {x} /\ local.expected = binder[b].expected
      BY <1>3, <1>d, <2>2
    <3> HIDE DEF local
    <3>2. SwapOf(local) = {[expected |-> local.expected, binding |-> x, done |-> TRUE]}
      BY <3>1, SwapOfDone
    <3>3. SwapOf(local) = {call2}
      BY <3>1, <3>2
    <3> QED BY <3>3 DEF local
  <2>4. Swaps' = [Swaps EXCEPT ![b] = {call2}]
    BY <1>3, <1>a, <2>3
  <2>5. [call1 EXCEPT !.done = TRUE] = call2
    BY CallEnds
  <2>6. call1.binding = x /\ call1.expected = binder[b].expected /\ ~ call1.done
    OBVIOUS
  <2> HIDE DEF call1, call2
  <2>7. Register!Swap(b)
    BY <1>3, <2>1, <2>4, <2>5, <2>6 DEF Register!Swap, Swaps
  <2> QED BY <2>7 DEF Register!Next
<1>4. CASE \E l \in Lineages, expected \in {binding, {}} : BindRead(b, l, expected)
  <2>1. PICK l \in Lineages, expected \in {binding, {}} : BindRead(b, l, expected)
    BY <1>4
  <2>2. PICK r \in authority[l] :
            Goes(b, [Unbinding EXCEPT !.pc = "read", !.expected = expected,
                                      !.new = {[lineage |-> l, record |-> r]}])
    BY <2>1 DEF BindRead
  <2> DEFINE x == [lineage |-> l, record |-> r]
             local == [Unbinding EXCEPT !.pc = "read", !.expected = expected, !.new = {x}]
             call1 == [expected |-> expected, binding |-> x, done |-> FALSE]
  <2>3. x \in Bindings /\ expected \in SUBSET Bindings
    BY <1>0 DEF AuthorityOK, Bindings, BindingOK
  <2>4. local.pc = "read" /\ local.expected = expected /\ local.new = {x}
    <3> HIDE DEF x
    <3> QED BY DEF Unbinding
  <2>5. binding' = binding /\ binder[b].new = {}
    BY <1>0, <2>1 DEF BindRead, Publishes
  <2> HIDE DEF x
  <2>6. SwapOf(local) = {call1} /\ Swaps[b] = {}
    BY <1>0, <2>4, <2>5 DEF SwapOf
  <2>7. Goes(b, local)
    BY <2>2 DEF x
  <2> HIDE DEF local
  <2>8. Swaps' = [Swaps EXCEPT ![b] = {call1}]
    BY <1>a, <2>6, <2>7
  <2>9. call1.binding = x /\ call1.expected = expected /\ ~ call1.done
    OBVIOUS
  <2> HIDE DEF call1
  <2>10. Register!Call(b)
    <3>1. call1 \in Swaps'[b]
      BY <1>b, <2>8
    <3>2. /\ Swaps[b] = {} /\ binding' = binding
          /\ \E call0 \in Swaps'[b] :
                /\ call0.binding \in Bindings
                /\ \A old \in call0.expected : old \in Bindings
                /\ ~ call0.done
                /\ Swaps' = [Swaps EXCEPT ![b] = {call0}]
      BY <2>3, <2>5, <2>6, <2>8, <2>9, <3>1
    <3> QED BY <3>2 DEF Register!Call, Swaps, Bindings
  <2> QED BY <2>10 DEF Register!Next
<1>5. CASE BindConfirm(b)
  <2>1. binding' = binding /\ binder[b].pc = "read" /\ "confirmed" \in BinderPhases
    BY <1>5 DEF BindConfirm, BinderPhases
  <2>2. CASE Goes(b, Unbinding)
    BY <1>1, <1>e, <1>f, <2>1, <2>2
  <2>3. CASE Goes(b, [binder[b] EXCEPT !.pc = "confirmed"])
    BY <1>2, <2>1, <2>3
  <2> QED BY <1>5, <2>2, <2>3 DEF BindConfirm
<1>6. CASE BindCompare(b)
  <2>1. /\ binding' = binding /\ binder[b].pc = "confirmed"
        /\ "compared" \in BinderPhases
    BY <1>6 DEF BindCompare, MayCompare, BinderPhases
  <2>2. PICK x \in Bindings : binder[b].new = {x}
    BY <1>e, <2>1
  <2>3. CASE binding = binder[b].new /\ Goes(b, [binder[b] EXCEPT !.pc = "done"])
    BY <1>3, <2>1, <2>2, <2>3
  <2>4. CASE Goes(b, [binder[b] EXCEPT !.pc = "compared"])
    BY <1>2, <2>1, <2>4
  <2>5. CASE Goes(b, Unbinding)
    BY <1>1, <1>f, <2>1, <2>2, <2>5
  <2> QED BY <1>6, <2>3, <2>4, <2>5 DEF BindCompare
<1>7. CASE BindPublish(b)
  <2>1. /\ binder[b].pc = "compared" /\ binding' = binder[b].new
        /\ Goes(b, [binder[b] EXCEPT !.pc = "done"]) /\ binding = binder[b].expected
    BY <1>0, <1>7 DEF BindPublish, Publishes
  <2>2. PICK x \in Bindings : binder[b].new = {x}
    BY <1>e, <2>1
  <2> QED BY <1>3, <2>1, <2>2
<1>8. CASE BindRefused(b) \/ BindReturn(b) \/ BindDies(b)
  <2>1. binding' = binding /\ Goes(b, Unbinding) /\ binder[b].pc # "idle"
    BY <1>8 DEF BindRefused, BindReturn, BindDies
  <2>2. PICK x \in Bindings : binder[b].new = {x}
    BY <1>e, <2>1
  <2>3. Swaps[b] # {}
    BY <1>0, <2>2 DEF SwapOf
  <2> QED BY <1>1, <2>1, <2>3
<1> QED BY <1>4, <1>5, <1>6, <1>7, <1>8 DEF BindStep

(* Binders that overlap and die do to the binding what a compare-and-swap  *)
(* register allows, and a success that is reported took place.             *)
THEOREM BindingRefinement == Spec => ImplementsRegister
<1>1. Init => Register!Init
  BY DEF Init, Register!Init, Unbinding
<1>2. SddIInv /\ [Next]_vars =>
          [UNCHANGED Register!vars \/ Register!Next]_Register!vars
  <2> SUFFICES ASSUME SddIInv, [Next]_vars
               PROVE  UNCHANGED <<binding, Swaps>> \/ Register!Next
    BY DEF Register!vars, Swaps
  <2>1. CASE UNCHANGED <<binding, binder>>
    BY <2>1 DEF Swaps
  <2>2. CASE \E b \in Binders :
              \/ Ongoing(BindStep(b)) \/ Ongoing(BindDies(b))
              \/ \E l \in Lineages, expected \in {binding, {}} :
                    Ongoing(BindRead(b, l, expected))
    <3>1. PICK b \in Binders :
              \/ BindStep(b) \/ BindDies(b)
              \/ \E l \in Lineages, expected \in {binding, {}} : BindRead(b, l, expected)
      BY <2>2 DEF Ongoing
    <3> QED BY <3>1, BinderImplements
  <2>3. CASE Ongoing(Command) \/ Ongoing(Disturb) \/ Ongoing(Read) \/ Ongoing(StatusStep)
             \/ Ongoing(Act)
    <3>1. UNCHANGED <<binding, binder>>
      BY <2>3 DEF Ongoing, Command, Disturb, Read, CallStays, StatusStep, ValidateBound,
                  RereadBound, AuthorizeBound, ListLeaves, BridgeLeaf, Route, FindReceipt,
                  ReviewGate, Act, Plan, Apply, Verify, Remediate, Await, Archive,
                  ActStays
    <3> QED BY <2>1, <3>1
  <2> QED BY <2>1, <2>2, <2>3 DEF Next, vars
<1> QED BY <1>1, <1>2, SddInvariance, PTL DEF Spec, ImplementsRegister, Register!Spec
=============================================================================
