----------------------------- MODULE MCSddReview -----------------------------
(* Two lineages, each a root or the successor of the other.                *)
EXTENDS SddReview, TLC

CONSTANTS l1, l2

MCLineages == {l1, l2}

Scoped(first, second) == (l1 :> first) @@ (l2 :> second)

(* A v1 transaction left beside the change, fixing failure e.              *)
Left(state, e) ==
    {[state |-> state, mode |-> "ordinary-4r", lineage |-> "v1", generation |-> 1,
      fixBatches |-> 1, fixRounds |-> 0, failed |-> e]}

Setting(kept, second, left, mirrored, budget) ==
    [home |-> kept, scopes |-> Scoped("change", second), transaction |-> left,
     mirror |-> mirrored, disturbances |-> budget]

(* Compact reviews only; a mirror and a v1 transaction that fixed this     *)
(* failure, both left alone; in Engram, everything a v1 transaction may be left in once a    *)
(* verification failed: it fixed this failure or another one, it verifies,  *)
(* or it does not wait.                                                     *)
MCSettings ==
    {Setting("openspec", "change", {}, {}, 1),
     Setting("openspec", "elsewhere", Left("ready_final_verification", "e1"), {l2}, 0)}
        \cup {Setting("engram", "mixed", left, {}, 1) :
                  left \in {Left("ready_final_verification", "e1"),
                            Left("ready_final_verification", "e0"),
                            Left("final_verifying", "e1"), Left("fixing", "e1"),
                            Left("approved", "e1")}}
=============================================================================
