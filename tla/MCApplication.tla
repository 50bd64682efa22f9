----------------------------- MODULE MCApplication -----------------------------
EXTENDS Application

Fresh == [ZeroState EXCEPT !.pending = FALSE]
Due == [ZeroState EXCEPT !.pending = TRUE]
NoFile == {Missing}
AnyFile == {Missing, Corrupt, Fresh, Due}

(* What follows a restore that ended behind another screen is left out:    *)
(* operations do overlap there, as README.md says.                         *)
RestoreWatched == ~yanked
=============================================================================
