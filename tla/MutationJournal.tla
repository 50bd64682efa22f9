--------------------------- MODULE MutationJournal ---------------------------
(***************************************************************************)
(* The before-images an operation takes of the files it is about to        *)
(* change. Every change compares the file with what the journal last knew  *)
(* of it, so that an edit made by somebody else in between is a conflict   *)
(* and not overwritten. A journal is a function from the captured files to *)
(* entries; reading and comparing a file are steps of the caller.          *)
(***************************************************************************)
CONSTANT Absent     \* the content of a file that is not there

NoJournal == <<>>

(* Capture: only the first one of a file counts.                           *)
Captured(journal, file, content) ==
    [f \in DOMAIN journal \cup {file} |->
        IF f \in DOMAIN journal THEN journal[f]
                                ELSE [data |-> content, after |-> Absent, changed |-> FALSE]]

(* What a write may replace.                                               *)
MayReplace(journal, file, content) == content = journal[file].data

(* Faulty: the journal restores whatever is there now.                     *)
MayRestoreAnyway(journal, file, content) == TRUE

(* What a restore may replace.                                             *)
MayRestore(journal, file, content) == content = journal[file].after

(* A write or a removal that returned without an error.                    *)
Wrote(journal, file, content) ==
    [journal EXCEPT ![file].after = content, ![file].changed = TRUE]

(* Restore leaves alone what was captured and never changed.               *)
ToRestore(journal) == {file \in DOMAIN journal : journal[file].changed}
=============================================================================
