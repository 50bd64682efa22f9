--------------------------- MODULE MCReviewRecords ---------------------------
(***************************************************************************)
(* The records of a review: a compact one, a transaction of schema v1, the *)
(* event chains of v1 in two clones, and the validation of a finished v1   *)
(* review.  A behaviour is of one kind, and the others are at rest.  In a  *)
(* compact review a path holds 0, 1 or 2 lines, the lines changed between  *)
(* two trees are the sum of the differences, and the risk tier grows with  *)
(* the size of the diff.                                                   *)
(***************************************************************************)
EXTENDS CompactReview, LegacyStore, LegacyGate

CONSTANTS p, q, f1, f2, l1, l2, main, withdrawn, tests

MCDiffLines(a, b) ==
    MapThenSumSet(LAMBDA x : IF a[x] > b[x] THEN a[x] - b[x] ELSE b[x] - a[x], Paths)

MCRisk(a, b) ==
    CASE MCDiffLines(a, b) <= 1 -> "low"
      [] MCDiffLines(a, b) = 2  -> "medium"
      [] OTHER                  -> "high"

Empty == [x \in Paths |-> 0]

(* A review of nothing, of one path changed by two lines (a budget of one) *)
(* and of both paths changed by three (a budget of two, which is the cap). *)
ReviewTargets ==
    {<<Empty, Empty>>,
     <<Empty, [Empty EXCEPT ![p] = 2]>>,
     <<Empty, [Empty EXCEPT ![p] = 2, ![q] = 1]>>}

VARIABLE group

transactionState == <<transaction, refused>>

LegacyStart(mode, risk, lenses, budget) ==
    [mode |-> mode, risk |-> risk, lenses |-> lenses, base |-> "t0", tree |-> "t1",
     paths |-> {"p"}, budget |-> budget]

LowRisk == LegacyStart("ordinary_bounded", "low", <<>>, 1)

(* Every mode and tier, with a budget of one line; corrections inside the  *)
(* reviewed path, beside it, and of no path at all.                        *)
V1Starts ==
    {LegacyStart("ordinary_4r", "", <<>>, 0), LegacyStart("judgment_day", "", <<>>, 0), LowRisk,
     LegacyStart("ordinary_bounded", "medium", <<"review-risk">>, 1),
     LegacyStart("ordinary_bounded", "high",
         <<"review-risk", "review-resilience", "review-readability", "review-reliability">>, 1)}

V1Fixes == {<<"t2", {"p"}>>, <<"t2", {"p", "q"}>>, <<"t3", {}>>}

(* The chains are of reviews of a low risk, begun in either clone, which   *)
(* have no findings.                                                       *)
ChainsAreOfLowRisk ==
    \A s \in Sessions : At(s, "ready") => session[s].goal[1][2].start = LowRisk

Tree(x, y) == [path \in {"p", "q"} |-> IF path = "p" THEN x ELSE y]

(* The reviews change p; one of them was corrected and the other released. *)
V1Review(lineage, terminal, kind, release) ==
    [lineage |-> lineage, terminal |-> terminal, kind |-> kind, release |-> release,
     base |-> Tree(0, 0), final |-> Tree(1, 0), paths |-> {"p"}]

V1Reviews ==
    {V1Review("a", "approved", "current-changes", {Tree(1, 0)}),
     V1Review("b", "approved", "fix-diff", {}),
     V1Review("c", "escalated", "current-changes", {})}

V1Edits == {Tree(0, 0), Tree(1, 0), Tree(0, 1)}
V1Url == [r \in {"origin", "fork"} |-> IF r = "origin" THEN "here" ELSE "there"]

(* The branch holds the review's base, its delivery, or both on another    *)
(* commit.                                                                 *)
V1Branches ==
    {<<Tree(0, 0)>>, <<Tree(0, 0), Tree(1, 0)>>, <<Tree(0, 1), Tree(0, 0), Tree(1, 0)>>}

TransactionRest == transaction = Started(LowRisk) /\ refused = {}
GateRest == repo = <<>> /\ moves = 0 /\ policy = TRUE /\ saved = {} /\ validator = Idle

RecordsInit ==
    \/ group = "compact" /\ Init /\ TransactionRest /\ ChainInit /\ GateRest
    \/ group = "transaction" /\ Init /\ TransactionInit /\ ChainInit /\ GateRest
    \/ group = "chain" /\ Init /\ TransactionRest /\ ChainInit /\ GateRest
    \/ group = "gate" /\ Init /\ TransactionRest /\ ChainInit /\ GateInit

CompactStep == group = "compact" /\ Next /\ UNCHANGED <<transactionState, chainVars, gateState>>
TransactionsStep == group = "transaction" /\ TransactionStep /\ UNCHANGED <<vars, chainVars, gateState>>
ChainsStep == group = "chain" /\ ChainNext /\ UNCHANGED <<vars, transactionState, gateState>>
GatesStep == group = "gate" /\ GateNext /\ UNCHANGED <<vars, transactionState, chainVars>>

RecordsNext == (CompactStep \/ TransactionsStep \/ ChainsStep \/ GatesStep) /\ UNCHANGED group

RecordsSpec ==
    RecordsInit /\ [][RecordsNext]_<<group, vars, transactionState, chainVars, gateState>>
=============================================================================
