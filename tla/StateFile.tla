------------------------------- MODULE StateFile -------------------------------
(***************************************************************************)
(* ~/.gentle-ai/state.json: one JSON document that every command reads     *)
(* whole, changes in memory and replaces whole.  The replacement is atomic *)
(* and there is no lock.  Of its fields the model keeps the three that     *)
(* steer later runs; agents, persona and model assignments ride along.     *)
(***************************************************************************)
CONSTANTS
    Missing,     \* no file: os.ErrNotExist
    Corrupt      \* a file state.Read cannot decode

(* pending is PendingSync; recent says that LastUpdateCheck is within the  *)
(* cooldown; tools is CommunityToolsConfigured.                            *)
InstallState == [pending : BOOLEAN, recent : BOOLEAN, tools : BOOLEAN]

ASSUME StateFileAssumption ==
    Missing # Corrupt /\ {Missing, Corrupt} \cap InstallState = {}

VARIABLE file     \* the document on disk

StateFiles == InstallState \cup {Missing, Corrupt}

Readable(f) == f \in InstallState

(* The value of a Go struct that was never filled.                         *)
ZeroState == [pending |-> FALSE, recent |-> FALSE, tools |-> FALSE]

(* What a read, change and write starts from: a missing file becomes a     *)
(* fresh document, one that cannot be decoded is left alone.               *)
Held(f) == IF f = Missing THEN ZeroState ELSE f

(* A complete install writes the user's selection and nothing else.        *)
Overwritten == [ZeroState EXCEPT !.tools = TRUE]

Write(s) == file' = s
=============================================================================
