---------------------------- MODULE MCCompactGate ----------------------------
(***************************************************************************)
(* Small instances of CompactGate: two paths that exist or not, and a      *)
(* repository that starts with neither.                                    *)
(***************************************************************************)
EXTENDS CompactGate, TLC

CONSTANTS p, q, lens, f1, v1, a, b, withdrawn, tests

MCDiffLines(s, t) == Cardinality(ChangedPaths(s, t))
MCRisk(s, t) == "medium"

Tree(x, y) == (p :> x) @@ (q :> y)

(* What somebody works on, and what others publish meanwhile.              *)
LocalTrees == {Tree(0, 0), Tree(1, 0), Tree(1, 1)}
RemoteTrees == {Tree(0, 1), Tree(1, 0)}

(* A change of p reviewed in the working tree or as a branch, and its      *)
(* withdrawal.                                                             *)
Branches ==
    {<<kind, Tree(0, 0), Tree(1, 0)>> : kind \in {"current-changes", "base-diff"}}
        \cup {<<"current-changes", Tree(1, 0), Tree(0, 0)>>}

Rescope == {<<"scope_changed", FALSE>>}

Clean == [reports |-> [l \in Lenses |-> {}], severe |-> {},
          evidence |-> <<>>, refuter |-> <<>>]
CleanInputs == {Clean}
=============================================================================
