---------------------------- MODULE MCCompactStore ----------------------------
(***************************************************************************)
(* Small instances of CompactAuthority and CompactStore: a repository with *)
(* one file, reviews by one lens that may find one fault.                  *)
(***************************************************************************)
EXTENDS CompactStore, TLC

CONSTANTS file, lens, f1, a, b, c, p1, p2, withdrawn, tests

MCDiffLines(s, t) ==
    IF s[file] > t[file] THEN s[file] - t[file] ELSE t[file] - s[file]

MCRisk(s, t) == "medium"

Tree(n) == [x \in Paths |-> n]

TwoTargets == {<<"current-changes", Tree(0), Tree(n)>> : n \in {1, 2}}

Withdrawals == {<<"invalidated", FALSE>>, <<"escalated", TRUE>>, <<"escalated", FALSE>>}
Rescope == {<<"scope_changed", FALSE>>}

(* Two changed lines: a budget of one. *)
SmallBudget == {<<"current-changes", Tree(0), Tree(2)>>}
Fixes == {Tree(1), Tree(2)}

Finding(class, causality) ==
    [reports  |-> [l \in Lenses |-> {f1}], severe |-> {f1},
     evidence |-> [f \in {f1} |-> [class |-> class, causality |-> causality]],
     refuter  |-> <<>>]

Clean == [reports |-> [l \in Lenses |-> {}], severe |-> {},
          evidence |-> <<>>, refuter |-> <<>>]

(* A clean review, and one that escalates at once.                         *)
CleanInputs == {Clean}
EscalatingInputs == {Finding("insufficient", "candidate")}

(* A review that asks for a correction.                                    *)
CorrectionInputs == {Finding("deterministic", "candidate")}

(* Processes are interchangeable, and so are the lineages nobody starts.   *)
Interchangeable == Permutations(Procs) \cup Permutations(Lineages \ Roots)

StoreInputs == EscalatingInputs \cup CorrectionInputs

(* A lineage with findings to correct is followed alone; recoveries are    *)
(* followed between lineages without any.                                  *)
CorrectionsAlone ==
    (\E l \in Lineages : \E s \in authority[l] : s.fix # {})
    => /\ Cardinality({l \in Lineages : authority[l] # {}}) = 1
       /\ residue = {}
       /\ \A p \in Procs : proc[p].op \notin {"review/recover", "review/invalidate"}
=============================================================================
