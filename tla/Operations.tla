------------------------------ MODULE Operations ------------------------------
(***************************************************************************)
(* The operations the terminal interface starts in the background, as the  *)
(* goroutines that run them.  Each is a sequence of steps on the state     *)
(* file, with a read and the write that follows it apart; what they do to  *)
(* the managed files is ConfigCommands.  An operation ends with a message  *)
(* to the interface, pc "done"; upgrade and sync sends one in between, pc  *)
(* "phase".                                                                *)
(***************************************************************************)
EXTENDS StateFile, Naturals, FiniteSets

CONSTANT
    ExitRequests     \* may replacing the program ask it to exit (Windows)?

ASSUME OperationsAssumption == ExitRequests \subseteq BOOLEAN /\ FALSE \in ExitRequests

VARIABLES
    cmds,        \* the goroutines, by slot
    replaced     \* the program on disk is newer than the one running

(* Bound: at most one check, one restore and two other operations at once. *)
Slots == {"check", "restore", "first", "second"}

Operation ==
    {"check", "sync", "upgrade", "upgradeSync", "uninstall", "install",
     "restore", "deferred"}

(* seen is the state last read; updates is what a check found, or what an  *)
(* upgrade was given; ok, product, exit and undone are the parts of its    *)
(* result the interface looks at; clean is the mode of an uninstall.       *)
Goroutine(op, pc) ==
    [op |-> op, pc |-> pc, seen |-> Missing, updates |-> FALSE, ok |-> TRUE,
     product |-> FALSE, exit |-> FALSE, undone |-> FALSE, clean |-> FALSE]

NoCommand == Goroutine("none", "done")

Busy == {s \in Slots : cmds[s].op # "none"}

FirstStep(op) ==
    CASE op = "check" -> "check"
      [] op \in {"sync", "deferred"} -> "sync"
      [] op \in {"upgrade", "upgradeSync"} -> "upgrade"
      [] op = "uninstall" -> "remove"
      [] op = "install" -> "run"
      [] op = "restore" -> "unpack"

(* cs with one more goroutine, in its slot.                                *)
Home(op, cs) ==
    IF op \in {"check", "restore"} THEN op
    ELSE IF cs["first"].op = "none" THEN "first" ELSE "second"
Free(op, cs) == cs[Home(op, cs)].op = "none"
Spawn(cs, g) == [cs EXCEPT ![Home(g.op, cs)] = g]

Started(op) == Goroutine(op, FirstStep(op))

Become(s, g) == cmds' = [cmds EXCEPT ![s] = g]
Goto(s, pc) == Become(s, [cmds[s] EXCEPT !.pc = pc])
Finish(s, ok) == Become(s, [Goroutine(cmds[s].op, "done") EXCEPT !.ok = ok])
At(s, pc) == cmds[s].op # "none" /\ cmds[s].pc = pc

(* Read the state; go on to pc unless it cannot be decoded.                *)
ReadOr(s, pc, ok) ==
    /\ UNCHANGED <<file, replaced>>
    /\ IF file = Corrupt
       THEN Finish(s, ok)
       ELSE Become(s, [cmds[s] EXCEPT !.pc = pc, !.seen = file])

WriteAnd(s, f, pc) ==
    /\ Write(f)
    /\ Become(s, [cmds[s] EXCEPT !.pc = pc, !.seen = Missing])
    /\ UNCHANGED replaced

-----------------------------------------------------------------------------
(* The update check asks the remote unless the last answer is recent; it   *)
(* records the time on the state it reads again afterwards.                *)
CheckRemote(s) ==
    /\ At(s, "check")
    /\ \/ Readable(file) /\ file.recent /\ Goto(s, "done")
       \/ /\ ~(Readable(file) /\ file.recent)
          /\ \E succeeded, updates \in BOOLEAN :
                 Become(s, [cmds[s] EXCEPT !.pc = IF succeeded THEN "reread" ELSE "done",
                                           !.updates = updates])
    /\ UNCHANGED <<file, replaced>>

CheckReread(s) == At(s, "reread") /\ ReadOr(s, "record", TRUE)

CheckRecord(s) ==
    /\ At(s, "record")
    /\ WriteAnd(s, [Held(cmds[s].seen) EXCEPT !.recent = TRUE], "done")

-----------------------------------------------------------------------------
(* A sync, alone or as the end of another operation: it reads the state    *)
(* when it begins, writes it back if it has to record the community tools  *)
(* it found, and, from the interface, reads and writes it once more for    *)
(* the model assignments.                                                  *)
SyncBegin(s) ==
    /\ At(s, "sync")
    /\ Become(s, [cmds[s] EXCEPT !.pc = "apply", !.seen = file])
    /\ UNCHANGED <<file, replaced>>

SyncApply(s) ==
    /\ At(s, "apply")
    /\ \/ Finish(s, FALSE)
       \/ Goto(s, "applied")
       \/ Readable(cmds[s].seen) /\ ~cmds[s].seen.tools /\ Goto(s, "migrate")
    /\ UNCHANGED <<file, replaced>>

SyncMigrate(s) ==
    /\ At(s, "migrate")
    /\ WriteAnd(s, [cmds[s].seen EXCEPT !.tools = TRUE], "applied")

SyncPersist(s) ==
    /\ At(s, "applied")
    /\ \/ Finish(s, TRUE) /\ UNCHANGED <<file, replaced>>
       \/ cmds[s].op # "deferred" /\ ReadOr(s, "save", TRUE)

SyncSave(s) == At(s, "save") /\ WriteAnd(s, Held(cmds[s].seen), "done")

-----------------------------------------------------------------------------
(* An upgrade, and an upgrade followed by a sync: if the program itself    *)
(* was replaced, the sync only leaves the marker for the next launch.      *)
Upgrade(s) ==
    /\ At(s, "upgrade")
    /\ \E product \in IF cmds[s].updates THEN BOOLEAN ELSE {FALSE},
          exit \in ExitRequests :
          /\ exit => product
          /\ Become(s, [cmds[s] EXCEPT
                 !.pc = IF cmds[s].op = "upgrade" THEN "done" ELSE "phase",
                 !.product = product, !.exit = exit])
          /\ replaced' = (replaced \/ product)
    /\ UNCHANGED file

(* Faulty: a file that cannot be decoded ends the goroutine, unheard.      *)
MarkReadDecoded(s) == At(s, "mark") /\ file # Corrupt /\ ReadOr(s, "marked", TRUE)

MarkRead(s) == At(s, "mark") /\ ReadOr(s, "marked", TRUE)

MarkWrite(s) ==
    At(s, "marked") /\ WriteAnd(s, [Held(cmds[s].seen) EXCEPT !.pending = TRUE], "done")

-----------------------------------------------------------------------------
(* An uninstall takes the removed agents off the state, and syncs          *)
(* afterwards in the clean mode.                                           *)
Uninstalled(s) == IF cmds[s].clean THEN "sync" ELSE "done"

UninstallRemove(s) ==
    /\ At(s, "remove")
    /\ Finish(s, FALSE) \/ Goto(s, "unlist")
    /\ UNCHANGED <<file, replaced>>

UninstallRead(s) ==
    /\ At(s, "unlist")
    /\ \/ file # Corrupt /\ Goto(s, Uninstalled(s)) /\ UNCHANGED <<file, replaced>>
       \/ file # Missing /\ ReadOr(s, "unlisted", FALSE)

UninstallWrite(s) == At(s, "unlisted") /\ WriteAnd(s, cmds[s].seen, Uninstalled(s))

-----------------------------------------------------------------------------
(* An install that fails has rolled steps back if it failed in the apply   *)
(* stage; one that succeeds writes a new state over whatever is there.     *)
InstallRun(s) ==
    /\ At(s, "run")
    /\ \/ Goto(s, "overwrite")
       \/ \E undone \in BOOLEAN :
              Become(s, [cmds[s] EXCEPT !.pc = "done", !.ok = FALSE, !.undone = undone])
    /\ UNCHANGED <<file, replaced>>

InstallWrite(s) == At(s, "overwrite") /\ WriteAnd(s, Overwritten, "done")

RestoreRun(s) ==
    At(s, "unpack") /\ (\E ok \in BOOLEAN : Finish(s, ok)) /\ UNCHANGED <<file, replaced>>

Work(s) ==
    \/ CheckRemote(s) \/ CheckReread(s) \/ CheckRecord(s)
    \/ SyncBegin(s) \/ SyncApply(s) \/ SyncMigrate(s) \/ SyncPersist(s) \/ SyncSave(s)
    \/ Upgrade(s) \/ MarkRead(s) \/ MarkWrite(s)
    \/ UninstallRemove(s) \/ UninstallRead(s) \/ UninstallWrite(s)
    \/ InstallRun(s) \/ InstallWrite(s) \/ RestoreRun(s)
=============================================================================
